--------------------------- MODULE AgentWakes_stop ---------------------------
(***************************************************************************)
(* The user's stop of an agent tree covers the tree, for every tree, lease *)
(* and bound, as long as no worker crashed or fell behind its lease.       *)
(*                                                                         *)
(* A descendant can only be started late by a segment that still runs the  *)
(* model of a wake the stop did not find.  That takes a wake that was      *)
(* settled under its running segment, which takes a recovered lease: the   *)
(* proof is that, without a fault, no lease of such a wake ever runs out.  *)
(***************************************************************************)
EXTENDS AgentWakes_claims

USE BoundAssumption, TreeAssumption

-----------------------------------------------------------------------------
(* The inductive invariant.                                                *)

\* Where a worker that holds a wake is, given the wake's status.
InPhase(o, s) ==
  \/ o.phase = "start" /\ s = "claimed"
  \/ o.phase \in {"admitted", "observe", "saw_pending"} /\ s = "running"
  \/ o.phase = "waiting" /\ s \in Admitted

\* The wake's claim is held, renewed and not given up, and every process that
\* acts for the wake acts under it.
LeaseKept(w) ==
  /\ LeaseLive(w)
  /\ <<w, token[w]>> \notin refused
  /\ \E o \in owners : o.wake = w /\ o.token = token[w] /\ InPhase(o, status[w])
  /\ \A o \in owners : o.wake = w /\ o.phase = "admitted" => o.token = token[w]
  /\ \A s \in segments : s.wake = w => s.token = token[w]

\* A wake whose turn is ahead or open, and which no stop has reached.
Undisturbed(w) ==
  w \notin stopped /\ status[w] \in Active /\ trace[w] \notin TerminalTraces

LeasesAreKept ==
  faults = MaxFaults => \A w \in Wakes : Undisturbed(w) => LeaseKept(w)

\* A segment that can schedule belongs to a run that a stop finds, or found.
SchedulersAreCovered ==
  faults = MaxFaults =>
    \A s \in segments :
      s.phase = "runtime" => s.wake \in stopped \/ status[s.wake] \in Admitted

SInv ==
  /\ CInv
  /\ LeasesAreKept
  /\ SchedulersAreCovered
  /\ StopCoversTree

-----------------------------------------------------------------------------
(* Without a fault no lease runs out.                                      *)

\* Faults are spent, never returned.
LEMMA FaultsFall ==
  ASSUME IInv, [Next]_vars, faults' = MaxFaults
  PROVE  faults = MaxFaults /\ UNCHANGED faults
<1>. USE DEF IInv, TypeOK
<1>1. CASE UNCHANGED faults
  BY <1>1
<1>2. CASE faults' = faults - 1
  BY <1>2
<1>3. ASSUME NEW o \in owners, OwnerStep(o) PROVE UNCHANGED faults \/ faults' = faults - 1
  BY <1>3 DEF OwnerStep, OwnerProgress, RenewLease, AdmitTurn, LaunchSegment,
       SettleStartFailure, SettleObserved, ObservePendingApproval,
       ObserveRunningAfterApproval, MarkWaitingForApproval, SettleOutcomeUnknown,
       SettleTreeStopped, OwnerRefused, OwnerFails
<1>4. ASSUME NEW s \in segments, SegmentStep(s) PROVE UNCHANGED faults
  BY <1>4 DEF SegmentStep, SegmentProgress, StartRuntime, StageWaitingUsage,
       StorePendingAction, CommitTerminalTrace, SegmentRefused, SatisfyBySourceMessage
<1>5. ASSUME NEW w \in Wakes, WakeStep(w) PROVE UNCHANGED faults \/ faults' = faults - 1
  BY <1>5 DEF WakeStep, ClaimNextDispatchable, CancelStoppedWake, ControlTerminalTrace,
       FinishPendingAction, ApprovePendingAction, ApproveSkillScript,
       ResumeContinuation, Tick, Stall
<1>6. ASSUME NEW a \in Agents, AgentStep(a) PROVE UNCHANGED faults
  BY <1>6 DEF AgentStep, Schedule, InterruptAgentExecution
<1>7. CASE \/ BeginRootTurn \/ FinishRootTurn \/ BeginAgentTreeRunStop
           \/ RecoverAgentWakes \/ ReconcileExecutionFences \/ UNCHANGED vars
  BY <1>1, <1>7 DEF BeginRootTurn, FinishRootTurn, BeginAgentTreeRunStop,
       RecoverAgentWakes, ReconcileExecutionFences, vars
<1>8. CASE HostCrash
  BY <1>2, <1>8 DEF HostCrash
<1>. QED  BY <1>1, <1>2, <1>3, <1>4, <1>5, <1>6, <1>7, <1>8 DEF Next

\* The lease stays kept when the wake's processes stay, or move under its claim.
LEMMA LeaseFrame ==
  ASSUME NEW w \in Wakes, LeaseKept(w), token'[w] = token[w], ttl'[w] > 0,
         <<w, token[w]>> \notin refused',
         \A o \in owners : o.wake = w /\ o.token = token[w] /\ InPhase(o, status[w]) =>
           \E p \in owners' : p.wake = w /\ p.token = token[w] /\ InPhase(p, status'[w]),
         \A p \in owners' : p.wake = w /\ p.phase = "admitted" =>
           p \in owners \/ p.token = token[w],
         \A s \in segments' : s.wake = w =>
           s.token = token[w] \/ \E t \in segments : t.wake = w /\ t.token = s.token
  PROVE  LeaseKept(w)'
  BY DEF LeaseKept, LeaseLive

\* The same, when only the status of the wake's row may move.
LEMMA LeaseStill ==
  ASSUME NEW w \in Wakes, LeaseKept(w), token'[w] = token[w], ttl'[w] = ttl[w],
         status'[w] = status[w] \/ (status[w] \in Admitted /\ status'[w] = "running"),
         refused' \subseteq refused, owners' = owners,
         \A s \in segments' : s.wake = w =>
           s.token = token[w] \/ \E t \in segments : t.wake = w /\ t.token = s.token
  PROVE  LeaseKept(w)'
<1>1. \A o \in owners : InPhase(o, status[w]) => InPhase(o, status'[w])
  BY DEF InPhase, Admitted
<1>2. ttl'[w] > 0
  BY DEF LeaseKept, LeaseLive
<1>. QED  BY <1>1, <1>2, LeaseFrame DEF LeaseKept

\* The worker that holds the wake's claim is where the wake's status says.
LEMMA KeeperPhase ==
  ASSUME CInv, NEW w \in Wakes, LeaseKept(w), NEW o \in owners, o.wake = w, o.token = token[w]
  PROVE  InPhase(o, status[w])
  BY DEF CInv, ClaimInv, ClaimHasOneOwner, LeaseKept

\* A step of another wake's worker.
LEMMA OtherOwnerLease ==
  ASSUME CInv, [Next]_vars, NEW w \in Wakes, Undisturbed(w), LeaseKept(w),
         NEW o \in owners, OwnerStep(o), o.wake # w
  PROVE  LeaseKept(w)'
<1>. USE DEF CInv, IInv, TypeOK
<1>0. o \in Owners /\ o.wake \in Wakes /\ status[w] # "absent"
  BY DEF Owners, Undisturbed, Active
<1>1. token'[w] = token[w]
  BY TokenKept DEF Undisturbed, LeaseKept
<1>2. refused' = refused
  BY DEF OwnerStep, OwnerProgress, RenewLease, AdmitTurn, LaunchSegment,
       SettleStartFailure, SettleObserved, ObservePendingApproval,
       ObserveRunningAfterApproval, MarkWaitingForApproval, SettleOutcomeUnknown,
       SettleTreeStopped, OwnerRefused, OwnerFails
<1>3. \A s \in segments' : s.wake = w => s \in segments
  BY DEF OwnerStep, OwnerProgress, RenewLease, AdmitTurn, LaunchSegment,
       SettleStartFailure, SettleObserved, ObservePendingApproval,
       ObserveRunningAfterApproval, MarkWaitingForApproval, SettleOutcomeUnknown,
       SettleTreeStopped, OwnerRefused, OwnerFails
<1>4. \A p : p.wake = w => (p \in owners' <=> p \in owners)
  <2>2. ASSUME NEW phase, NEW expected, Move(o, phase, expected)
        PROVE  \A p : p.wake = w => (p \in owners' <=> p \in owners)
    <3>1. [o EXCEPT !.phase = phase, !.expected = expected].wake = o.wake
      BY <1>0 DEF Owners
    <3>. QED  BY <2>2, <3>1 DEF Move
  <2>3. CASE owners' = owners \/ owners' = owners \ {o}
    BY <2>3
  <2>. QED  BY <2>2, <2>3 DEF OwnerStep, OwnerProgress, RenewLease, AdmitTurn,
         LaunchSegment, SettleStartFailure, SettleObserved, ObservePendingApproval,
         ObserveRunningAfterApproval, MarkWaitingForApproval, SettleOutcomeUnknown,
         SettleTreeStopped, OwnerRefused, OwnerFails
<1>5. status'[w] = status[w] /\ ttl'[w] = ttl[w]
  <2>1. ASSUME NEW outcome \in Settled, FinishAgentTurn(o.wake, outcome)
        PROVE  status'[w] = status[w] /\ ttl'[w] = ttl[w]
    BY <1>0, <2>1, FinishRows
  <2>2. OutcomeOf(trace[o.wake]) \in Settled
    BY DEF OutcomeOf, Settled
  <2>3. CASE \/ SettleStartFailure(o) \/ SettleObserved(o) \/ SettleOutcomeUnknown(o)
             \/ SettleTreeStopped(o)
    BY <2>1, <2>2, <2>3 DEF SettleStartFailure, SettleObserved, SettleOutcomeUnknown,
         SettleTreeStopped, SettleOwned, Settled
  <2>4. CASE RenewLease(o) \/ AdmitTurn(o) \/ MarkWaitingForApproval(o)
    BY <1>0, <2>4 DEF RenewLease, AdmitTurn, MarkWaitingForApproval
  <2>. QED  BY <2>3, <2>4 DEF OwnerStep, OwnerProgress, LaunchSegment,
         ObservePendingApproval, ObserveRunningAfterApproval, OwnerRefused, OwnerFails,
         durable
<1>. QED  BY <1>1, <1>2, <1>3, <1>4, <1>5 DEF LeaseKept, LeaseLive

\* A step of the wake's own workers: of the one that holds its claim, or of one
\* that lost an earlier claim before the turn was admitted.
LEMMA OwnerLease ==
  ASSUME CInv, [Next]_vars, NEW w \in Wakes, Undisturbed(w), status'[w] \in Active,
         LeaseKept(w), NEW o \in owners, OwnerStep(o), o.wake = w, UNCHANGED faults
  PROVE  LeaseKept(w)'
<1>. USE DEF CInv, IInv, TypeOK
<1>0. o \in Owners
  OBVIOUS
<1>1. token'[w] = token[w]
  BY TokenKept DEF Undisturbed, LeaseKept
<1>2. ttl[w] > 0 /\ <<w, token[w]>> \notin refused /\ status[w] \in Active /\ w \notin stopped
  BY DEF LeaseKept, LeaseLive, Undisturbed
<1>3. o.token = token[w] => InPhase(o, status[w])
  BY KeeperPhase
<1>4. ASSUME NEW phase \in Phases \ {"start"}, NEW expected \in Admitted \cup {"none"},
             o.phase # phase, Move(o, phase, expected), UNCHANGED <<ttl, refused>>,
             status'[w] = status[w] \/ o.token = token[w],
             o.token = token[w] => \A p \in Owners : p.phase = phase => InPhase(p, status'[w]),
             phase = "admitted" => o.token = token[w],
             \A s \in segments' : s.wake = w => s \in segments \/ s.token = token[w]
      PROVE  LeaseKept(w)'
  <2>1. PICK p \in Owners : OwnerMoves(o, p) /\ p.phase = phase
    BY <1>4, MoveKeeps
  <2>2. ASSUME NEW q \in owners, q.wake = w, q.token = token[w], InPhase(q, status[w])
        PROVE  \E r \in owners' : r.wake = w /\ r.token = token[w] /\ InPhase(r, status'[w])
    <3>1. CASE q = o
      BY <1>4, <2>1, <2>2, <3>1 DEF OwnerMoves
    <3>2. CASE q # o
      <4>1. o.token # token[w]
        BY <2>2, <3>2 DEF ClaimInv, ClaimHasOneOwner
      <4>2. q \in owners' /\ status'[w] = status[w]
        BY <1>4, <2>1, <3>2, <4>1 DEF OwnerMoves
      <4>. QED  BY <2>2, <4>2
    <3>. QED  BY <3>1, <3>2
  <2>3. \A q \in owners' : q.wake = w /\ q.phase = "admitted" => q \in owners \/ q.token = token[w]
    BY <1>4, <2>1 DEF OwnerMoves
  <2>. QED  BY <1>1, <1>2, <1>4, <2>2, <2>3, LeaseFrame
<1>5. CASE RenewLease(o)
  <2>1. ttl'[w] > 0 /\ UNCHANGED <<status, owners, segments, refused>>
    BY <1>5 DEF RenewLease
  <2>. QED  BY <1>1, <2>1 DEF LeaseKept, LeaseLive
<1>6. CASE AdmitTurn(o)
  <2>1. \A p \in Owners : p.phase = "admitted" => InPhase(p, status'[w])
    BY <1>6 DEF AdmitTurn, InPhase
  <2>. QED  BY <1>4, <1>6, <2>1 DEF AdmitTurn, Holds, Phases
<1>7. CASE LaunchSegment(o)
  <2>1. o.token = token[w]
    BY <1>7 DEF LaunchSegment, LeaseKept
  <2>2. status'[w] = "running"
    BY <1>3, <1>7, <2>1 DEF LaunchSegment, InPhase, durable
  <2>3. \A p \in Owners : p.phase = "observe" => InPhase(p, status'[w])
    BY <2>2 DEF InPhase
  <2>. QED  BY <1>4, <1>7, <2>1, <2>3 DEF LaunchSegment, Phases, durable
<1>8. CASE ObservePendingApproval(o)
  <2>1. o.token = token[w] => \A p \in Owners : p.phase = "saw_pending" => InPhase(p, status'[w])
    BY <1>3, <1>8 DEF ObservePendingApproval, InPhase, durable
  <2>. QED  BY <1>4, <1>8, <2>1 DEF ObservePendingApproval, Phases, durable
<1>9. CASE ObserveRunningAfterApproval(o)
  <2>1. \A p \in Owners : p.phase = "observe" => InPhase(p, status'[w])
    BY <1>9 DEF ObserveRunningAfterApproval, InPhase, durable
  <2>. QED  BY <1>4, <1>9, <2>1 DEF ObserveRunningAfterApproval, Phases, durable
<1>10. CASE MarkWaitingForApproval(o)
  <2>1. CASE Move(o, "waiting", "none") /\ status'[w] = "waiting_for_approval"
    <3>1. \A p \in Owners : p.phase = "waiting" => InPhase(p, status'[w])
      BY <2>1 DEF InPhase, Admitted
    <3>. QED  BY <1>4, <1>10, <2>1, <3>1 DEF MarkWaitingForApproval, Holds, Phases
  <2>2. CASE Move(o, "observe", "none") /\ status'[w] = "running"
    <3>1. \A p \in Owners : p.phase = "observe" => InPhase(p, status'[w])
      BY <2>2 DEF InPhase
    <3>. QED  BY <1>4, <1>10, <2>2, <3>1 DEF MarkWaitingForApproval, Holds, Phases
  <2>. QED  BY <1>2, <1>10, <2>1, <2>2 DEF MarkWaitingForApproval
<1>11. CASE SettleStartFailure(o) \/ SettleObserved(o) \/ SettleOutcomeUnknown(o)
  <2>1. OutcomeOf(trace[o.wake]) \in Settled /\ "failed" \in Settled /\ "outcome_unknown" \in Settled
    BY DEF OutcomeOf, Settled
  <2>2. PICK outcome \in Settled : FinishAgentTurn(w, outcome)
    BY <1>11, <2>1 DEF SettleStartFailure, SettleObserved, SettleOutcomeUnknown, SettleOwned
  <2>3. status'[w] \in Settled
    BY <2>2, FinishRows
  <2>. QED  BY <2>3 DEF Settled, Active
<1>12. CASE SettleTreeStopped(o)
  BY <1>3, <1>12 DEF SettleTreeStopped, StopSettles, InPhase
<1>13. CASE OwnerRefused(o)
  <2>1. o.token # token[w]
    BY <1>2, <1>3, <1>13 DEF OwnerRefused, Holds, LeaseLive, ClaimRefused, InPhase
  <2>2. owners' = owners \ {o} /\ UNCHANGED <<status, ttl, refused, segments>>
    BY <1>13 DEF OwnerRefused, durable
  <2>. QED  BY <1>1, <2>1, <2>2 DEF LeaseKept, LeaseLive
<1>14. CASE OwnerFails(o)
  BY <1>14 DEF OwnerFails
<1>. QED  BY <1>5, <1>6, <1>7, <1>8, <1>9, <1>10, <1>11, <1>12, <1>13, <1>14
             DEF OwnerStep, OwnerProgress

\* A segment's step: a segment of the wake passes its fences, so that it is not
\* refused and does not give the claim up.
LEMMA SegmentLease ==
  ASSUME CInv, [Next]_vars, NEW w \in Wakes, Undisturbed(w), LeaseKept(w),
         NEW s \in segments, SegmentStep(s)
  PROVE  LeaseKept(w)'
<1>. USE DEF CInv, IInv, TypeOK
<1>0. s \in Segments /\ s.wake \in Wakes
  BY DEF Segments
<1>1. token'[w] = token[w]
  BY TokenKept DEF Undisturbed, LeaseKept
<1>2. ASSUME NEW phase, segments' = (segments \ {s}) \cup {[s EXCEPT !.phase = phase]},
             UNCHANGED <<durable, owners, refused>>
      PROVE  LeaseKept(w)'
  <2>1. [s EXCEPT !.phase = phase].wake = s.wake /\ [s EXCEPT !.phase = phase].token = s.token
    BY <1>0 DEF Segments
  <2>2. \A r \in segments' : r.wake = w => \E t \in segments : t.wake = w /\ t.token = r.token
    BY <1>2, <2>1
  <2>3. UNCHANGED <<status, ttl, owners, refused>>
    BY <1>2 DEF durable
  <2>. QED  BY <1>1, <2>2, <2>3, LeaseStill
<1>3. CASE StartRuntime(s) \/ StageWaitingUsage(s)
  BY <1>2, <1>3 DEF StartRuntime, StageWaitingUsage
<1>4. CASE StorePendingAction(s) \/ \E t \in TerminalTraces : CommitTerminalTrace(s, t)
  BY <1>1, <1>4, LeaseStill DEF StorePendingAction, CommitTerminalTrace
<1>5. ASSUME NEW x \in Wakes, SatisfyBySourceMessage(s, x) PROVE LeaseKept(w)'
  <2>1. status'[w] = status[w]
    BY <1>5 DEF SatisfyBySourceMessage, Undisturbed, Active
  <2>. QED  BY <1>1, <1>5, <2>1, LeaseStill DEF SatisfyBySourceMessage
<1>6. CASE SegmentRefused(s)
  <2>1. s.wake # w
    <3>. SUFFICES ASSUME s.wake = w PROVE FALSE
      OBVIOUS
    <3>1. s.token = token[w] /\ ttl[w] > 0 /\ <<w, token[w]>> \notin refused
      BY DEF LeaseKept, LeaseLive
    <3>2. trace[w] = "in_progress"
      BY DEF TurnInv, SegmentsRunTurns, Undisturbed, Traces
    <3>3. status[w] = "running"
      BY <3>2 DEF OpenTraceIsOwned, TurnInv, SegmentsRunTurns, Admitted
    <3>4. TerminalFence(s, "cancelled") /\ ExecutionFence(s) /\ ~ClaimRefused(s)
      BY <3>1, <3>2, <3>3 DEF TerminalFence, ExecutionFence, ClaimRefused, Holds,
           LeaseLive, Admitted, Undisturbed
    <3>. QED  BY <1>6, <3>4 DEF SegmentRefused
  <2>2. /\ segments' = segments \ {s} /\ refused' = refused \cup {<<s.wake, s.token>>}
        /\ UNCHANGED <<status, ttl, owners>>
    BY <1>6 DEF SegmentRefused, durable
  <2>3. <<w, token[w]>> \notin refused'
    BY <2>1, <2>2 DEF LeaseKept
  <2>. QED  BY <1>1, <2>2, <2>3 DEF LeaseKept, LeaseLive
<1>. QED  BY <1>3, <1>4, <1>5, <1>6 DEF SegmentStep, SegmentProgress

\* Scans, approvals, host settlements and time: a held lease does not run out.
LEMMA WakeLease ==
  ASSUME CInv, [Next]_vars, NEW w \in Wakes, Undisturbed(w), LeaseKept(w),
         NEW x \in Wakes, WakeStep(x), UNCHANGED faults
  PROVE  LeaseKept(w)'
<1>. USE DEF CInv, IInv, TypeOK
<1>0. status[w] \in Active /\ status[w] # "absent" /\ status[w] # "queued" /\ w \notin stopped
  BY DEF Undisturbed, Active
<1>1. token'[w] = token[w]
  BY TokenKept DEF Undisturbed, LeaseKept
<1>2. CASE ClaimNextDispatchable(x)
  <2>1. x # w
    BY <1>0, <1>2 DEF ClaimNextDispatchable, Dispatchable
  <2>2. /\ status'[w] = status[w] /\ ttl'[w] = ttl[w] /\ UNCHANGED <<segments, refused>>
        /\ owners \subseteq owners'
        /\ \A p \in owners' : p.wake = w => p \in owners
    BY <1>2, <2>1 DEF ClaimNextDispatchable
  <2>. QED  BY <1>1, <2>2 DEF LeaseKept, LeaseLive
<1>3. CASE CancelStoppedWake(x)
  <2>1. x # w /\ FinishAgentTurn(x, "interrupted") /\ "interrupted" \in Settled
    BY <1>0, <1>3 DEF CancelStoppedWake, StopSettles, Settled
  <2>2. status'[w] = status[w] /\ ttl'[w] = ttl[w]
    BY <1>0, <2>1, FinishRows
  <2>. QED  BY <1>1, <1>3, <2>2, LeaseStill DEF CancelStoppedWake
<1>4. CASE \/ \E t \in {"failed", "cancelled"} : ControlTerminalTrace(x, t)
           \/ FinishPendingAction(x) \/ ApprovePendingAction(x)
  BY <1>1, <1>4, LeaseStill DEF ControlTerminalTrace, FinishPendingAction,
       ApprovePendingAction
<1>5. CASE ApproveSkillScript(x)
  <2>1. status'[w] = status[w] \/ (status[w] \in Admitted /\ status'[w] = "running")
    BY <1>5 DEF ApproveSkillScript
  <2>. QED  BY <1>1, <1>5, <2>1, LeaseStill DEF ApproveSkillScript
<1>6. CASE ResumeContinuation(x)
  <2>1. status'[w] = status[w] \/ (status[w] \in Admitted /\ status'[w] = "running")
    BY <1>6 DEF ResumeContinuation
  <2>2. \A s \in segments' : s.wake = w =>
          s.token = token[w] \/ \E t \in segments : t.wake = w /\ t.token = s.token
    BY <1>6 DEF ResumeContinuation
  <2>. QED  BY <1>1, <1>6, <2>1, <2>2, LeaseStill DEF ResumeContinuation
<1>7. CASE Tick(x)
  <2>1. Held(w)
    BY DEF LeaseKept, Held, ClaimRefused
  <2>2. ttl'[w] > 0
    BY <1>7, <2>1 DEF Tick, TimePasses, LeaseKept, LeaseLive
  <2>. QED  BY <1>1, <1>7, <2>2 DEF Tick, TimePasses, LeaseKept, LeaseLive
<1>8. CASE Stall(x)
  BY <1>8 DEF Stall
<1>. QED  BY <1>2, <1>3, <1>4, <1>5, <1>6, <1>7, <1>8 DEF WakeStep

\* Every step without a fault keeps the lease of a wake that stays undisturbed.
LEMMA StepLease ==
  ASSUME CInv, [Next]_vars, NEW w \in Wakes, Undisturbed(w), Undisturbed(w)',
         LeaseKept(w), UNCHANGED faults
  PROVE  LeaseKept(w)'
<1>. USE DEF CInv, IInv, TypeOK
<1>0. status[w] \in Active /\ status[w] # "absent" /\ status'[w] \in Active /\ w \notin stopped'
  BY DEF Undisturbed, Active
<1>1. token'[w] = token[w]
  BY TokenKept DEF Undisturbed, LeaseKept
<1>2. ASSUME NEW a \in Agents, AgentStep(a) PROVE LeaseKept(w)'
  <2>1. CASE Schedule(a)
    <3>1. EnqueueWake(a, 0, status)
      BY <2>1 DEF Schedule
    <3>2. created + 1 \in Wakes /\ status[created + 1] = "absent"
      BY <3>1 DEF EnqueueWake, Wakes, Existing
    <3>3. status'[w] = status[w]
      BY <1>0, <3>1, <3>2 DEF EnqueueWake
    <3>. QED  BY <1>1, <2>1, <3>3, LeaseStill DEF Schedule
  <2>2. CASE InterruptAgentExecution(a)
    <3>1. PICK x \in InterruptTarget(a) : /\ status' = [status EXCEPT ![x] = "cancelled"]
                                          /\ ttl' = [ttl EXCEPT ![x] = 0]
      BY <2>2 DEF InterruptAgentExecution
    <3>2. x \in Wakes
      BY DEF InterruptTarget
    <3>3. x # w
      BY <1>0, <3>1, <3>2 DEF Active
    <3>4. status'[w] = status[w] /\ ttl'[w] = ttl[w]
      BY <3>1, <3>2, <3>3
    <3>. QED  BY <1>1, <2>2, <3>4, LeaseStill DEF InterruptAgentExecution
  <2>. QED  BY <1>2, <2>1, <2>2 DEF AgentStep
<1>3. CASE BeginAgentTreeRunStop
  BY <1>0, <1>3 DEF BeginAgentTreeRunStop, Active, Admitted
<1>4. CASE RecoverAgentWakes
  <2>. DEFINE R == {x \in Wakes : Expired(x) /\ ~Requeued(x)}
  <2>1. w \notin R /\ ~Requeued(w)
    BY DEF Requeued, Expired, LeaseKept
  <2>2. /\ status'[w] = status[w] /\ ttl'[w] = ttl[w] /\ UNCHANGED <<segments, refused>>
        /\ owners' = owners \cup {RecoveredOwner(x) : x \in R}
    BY <1>4, <2>1 DEF RecoverAgentWakes
  <2>3. \A x \in R : RecoveredOwner(x).wake = x
    BY DEF RecoveredOwner
  <2>4. \A p \in owners' : p.wake = w => p \in owners
    BY <2>1, <2>2, <2>3
  <2>. QED  BY <1>1, <2>2, <2>4 DEF LeaseKept, LeaseLive
<1>5. CASE BeginRootTurn \/ FinishRootTurn \/ ReconcileExecutionFences \/ UNCHANGED vars
  BY <1>1, <1>5, LeaseStill DEF BeginRootTurn, FinishRootTurn,
       ReconcileExecutionFences, vars, durable
<1>6. CASE HostCrash
  BY <1>6 DEF HostCrash
<1>. QED  BY <1>0, <1>2, <1>3, <1>4, <1>5, <1>6, OwnerLease, OtherOwnerLease,
             SegmentLease, WakeLease DEF Next

-----------------------------------------------------------------------------
(* The stop.                                                               *)

\* A claim that was just issued is kept: nobody has refused or used its token.
LEMMA ClaimLease ==
  ASSUME CInv, NEW w \in Wakes, ClaimNextDispatchable(w)
  PROVE  LeaseKept(w)'
<1>. USE DEF CInv, IInv, TypeOK
<1>. DEFINE q == [wake |-> w, token |-> issued[w] + 1, phase |-> "start",
                  expected |-> "none"]
<1>1. /\ owners' = owners \cup {q} /\ UNCHANGED <<segments, refused>>
      /\ status'[w] = "claimed" /\ token'[w] = issued[w] + 1 /\ ttl'[w] = Lease
  BY DEF ClaimNextDispatchable
<1>2. status[w] = "queued" /\ trace[w] = "none"
  BY DEF ClaimNextDispatchable, Dispatchable, ClaimedAndTraced
<1>3. \A s \in segments : s.wake # w
  BY <1>2 DEF TurnInv, SegmentsRunTurns
<1>4. \A o \in owners : o.phase = "admitted" => o.wake # w
  BY <1>2 DEF TurnInv, LaunchIsPending
<1>5. <<w, issued[w] + 1>> \notin refused
  BY DEF ClaimInv, ClaimsAreIssued
<1>6. q \in owners' /\ q.wake = w /\ q.token = token'[w] /\ q.phase = "start"
  BY <1>1
<1>. HIDE DEF q
<1>. QED  BY <1>1, <1>3, <1>4, <1>5, <1>6 DEF LeaseKept, LeaseLive, InPhase

\* A stop is never undone.
LEMMA StopsStay ==
  ASSUME [Next]_vars
  PROVE  stopped \subseteq stopped'
<1>1. ASSUME NEW o \in owners, OwnerStep(o) PROVE stopped' = stopped
  BY <1>1 DEF OwnerStep, OwnerProgress, RenewLease, AdmitTurn, LaunchSegment,
       SettleStartFailure, SettleObserved, ObservePendingApproval,
       ObserveRunningAfterApproval, MarkWaitingForApproval, SettleOutcomeUnknown,
       SettleTreeStopped, OwnerRefused, OwnerFails, durable
<1>2. ASSUME NEW s \in segments, SegmentStep(s) PROVE stopped' = stopped
  BY <1>2 DEF SegmentStep, SegmentProgress, StartRuntime, StageWaitingUsage,
       StorePendingAction, CommitTerminalTrace, SegmentRefused, SatisfyBySourceMessage,
       durable
<1>3. ASSUME NEW w \in Wakes, WakeStep(w) PROVE stopped' = stopped
  BY <1>3 DEF WakeStep, ClaimNextDispatchable, CancelStoppedWake, ControlTerminalTrace,
       FinishPendingAction, ApprovePendingAction, ApproveSkillScript,
       ResumeContinuation, Tick, Stall, TimePasses
<1>4. ASSUME NEW a \in Agents, AgentStep(a) PROVE stopped' = stopped
  BY <1>4 DEF AgentStep, Schedule, InterruptAgentExecution
<1>5. CASE BeginAgentTreeRunStop
  BY <1>5 DEF BeginAgentTreeRunStop
<1>6. CASE \/ BeginRootTurn \/ FinishRootTurn \/ HostCrash
           \/ RecoverAgentWakes \/ ReconcileExecutionFences \/ UNCHANGED vars
  BY <1>6 DEF BeginRootTurn, FinishRootTurn, HostCrash, RecoverAgentWakes,
       ReconcileExecutionFences, vars, durable
<1>. QED  BY <1>1, <1>2, <1>3, <1>4, <1>5, <1>6 DEF Next

\* Only the dispatcher's scan claims a wake.
LEMMA OnlyScansClaim ==
  ASSUME IInv, [Next]_vars, NEW w \in Wakes, status[w] \in {"absent", "queued"},
         status'[w] = "claimed"
  PROVE  ClaimNextDispatchable(w)
<1>. USE DEF IInv, TypeOK
<1>1. ASSUME NEW x \in Wakes, NEW outcome \in Settled, FinishAgentTurn(x, outcome)
      PROVE  FALSE
  BY <1>1, FinishRows DEF Settled
<1>2. ASSUME NEW o \in owners, OwnerStep(o) PROVE FALSE
  <2>1. OutcomeOf(trace[o.wake]) \in Settled /\ o.wake \in Wakes
    BY DEF OutcomeOf, Settled, Owners
  <2>2. CASE \/ SettleStartFailure(o) \/ SettleObserved(o) \/ SettleOutcomeUnknown(o)
    BY <1>1, <2>1, <2>2 DEF SettleStartFailure, SettleObserved,
         SettleOutcomeUnknown, SettleOwned, Settled
  <2>3. CASE SettleTreeStopped(o)
    BY <1>1, <2>1, <2>3 DEF SettleTreeStopped, Settled
  <2>4. CASE AdmitTurn(o) \/ MarkWaitingForApproval(o)
    BY <2>1, <2>4 DEF AdmitTurn, MarkWaitingForApproval
  <2>. QED  BY <1>2, <2>2, <2>3, <2>4 DEF OwnerStep, OwnerProgress, RenewLease,
         LaunchSegment, ObservePendingApproval, ObserveRunningAfterApproval,
         OwnerRefused, OwnerFails, durable
<1>3. ASSUME NEW s \in segments, SegmentStep(s) PROVE FALSE
  BY <1>3 DEF SegmentStep, SegmentProgress, StartRuntime, StageWaitingUsage,
       StorePendingAction, CommitTerminalTrace, SegmentRefused,
       SatisfyBySourceMessage, durable
<1>4. ASSUME NEW x \in Wakes, WakeStep(x) PROVE ClaimNextDispatchable(w)
  <2>1. CASE ClaimNextDispatchable(x)
    BY <2>1 DEF ClaimNextDispatchable
  <2>2. CASE CancelStoppedWake(x)
    BY <1>1, <2>2 DEF CancelStoppedWake, Settled
  <2>3. CASE ApproveSkillScript(x) \/ ResumeContinuation(x)
    BY <2>3 DEF ApproveSkillScript, ResumeContinuation
  <2>. QED  BY <1>4, <2>1, <2>2, <2>3 DEF WakeStep, ControlTerminalTrace,
         FinishPendingAction, ApprovePendingAction, Tick, Stall, TimePasses
<1>5. ASSUME NEW a \in Agents, AgentStep(a) PROVE FALSE
  BY <1>5 DEF AgentStep, Schedule, EnqueueWake, InterruptAgentExecution,
       InterruptTarget
<1>6. CASE \/ BeginRootTurn \/ FinishRootTurn \/ BeginAgentTreeRunStop \/ HostCrash
           \/ RecoverAgentWakes \/ ReconcileExecutionFences \/ UNCHANGED vars
  BY <1>6 DEF BeginRootTurn, FinishRootTurn, BeginAgentTreeRunStop, HostCrash,
       RecoverAgentWakes, ReconcileExecutionFences, vars, durable
<1>. QED  BY <1>2, <1>3, <1>4, <1>5, <1>6 DEF Next

\* Every step without a fault keeps every lease.
LEMMA StepLeases ==
  ASSUME SInv, [Next]_vars
  PROVE  LeasesAreKept'
<1>. SUFFICES ASSUME faults' = MaxFaults, NEW w \in Wakes, Undisturbed(w)'
              PROVE  LeaseKept(w)'
  BY DEF LeasesAreKept
<1>. USE DEF SInv
<1>1. IInv /\ ClaimInv /\ TurnInv /\ CInv
  BY DEF CInv
<1>2. faults = MaxFaults /\ UNCHANGED faults
  BY <1>1, FaultsFall
<1>3. CASE Undisturbed(w)
  BY <1>2, <1>3, StepLease DEF LeasesAreKept
<1>4. CASE ~Undisturbed(w)
  <2>1. status'[w] \in Active /\ trace'[w] \notin TerminalTraces /\ w \notin stopped'
    BY DEF Undisturbed
  <2>2. w \notin stopped
    BY <2>1, StopsStay
  <2>3. RowMoves(w)
    BY <1>1, StepRows
  <2>4. trace[w] \notin TerminalTraces
    BY <1>1, <2>1, <2>3 DEF RowMoves, MovesUnadmitted, OpensTurn, MovesAdmitted,
         ClosesTurn, Settles, TerminalTraces, IInv, ClaimedAndTraced, Active, Settled
  <2>5. status[w] \notin Active
    BY <1>4, <2>2, <2>4 DEF Undisturbed
  <2>6. status[w] \in {"absent", "queued"} /\ status'[w] = "claimed"
    BY <2>1, <2>3, <2>5 DEF RowMoves, MovesUnadmitted, OpensTurn, MovesAdmitted,
         ClosesTurn, Settles, Active, Admitted
  <2>7. ClaimNextDispatchable(w)
    BY <1>1, <2>6, OnlyScansClaim
  <2>. QED  BY <1>1, <2>7, ClaimLease
<1>. QED  BY <1>3, <1>4

\* A segment that runs the model ran it before, or passed its fence just now.
LEMMA RuntimeSegments ==
  ASSUME CInv, [Next]_vars, NEW s \in segments', s.phase = "runtime"
  PROVE  s \in segments \/ (status[s.wake] \in Admitted /\ UNCHANGED status)
<1>. USE DEF CInv, IInv, TypeOK
<1>1. ASSUME NEW o \in owners, OwnerStep(o) PROVE s \in segments
  BY <1>1 DEF OwnerStep, OwnerProgress, RenewLease, AdmitTurn, LaunchSegment,
       SettleStartFailure, SettleObserved, ObservePendingApproval,
       ObserveRunningAfterApproval, MarkWaitingForApproval, SettleOutcomeUnknown,
       SettleTreeStopped, OwnerRefused, OwnerFails
<1>2. ASSUME NEW t \in segments, SegmentStep(t)
      PROVE  s \in segments \/ (status[s.wake] \in Admitted /\ UNCHANGED status)
  <2>1. t \in Segments
    OBVIOUS
  <2>2. [t EXCEPT !.phase = "runtime"].wake = t.wake /\ [t EXCEPT !.phase = "asking"].phase = "asking"
    BY <2>1 DEF Segments
  <2>3. CASE StartRuntime(t)
    BY <2>2, <2>3 DEF StartRuntime, ExecutionFence, Admitted, durable
  <2>4. CASE StageWaitingUsage(t)
    BY <2>2, <2>4 DEF StageWaitingUsage
  <2>. QED  BY <1>2, <2>3, <2>4 DEF SegmentStep, SegmentProgress, StorePendingAction,
         CommitTerminalTrace, SegmentRefused, SatisfyBySourceMessage
<1>3. ASSUME NEW w \in Wakes, WakeStep(w) PROVE s \in segments
  BY <1>3 DEF WakeStep, ClaimNextDispatchable, CancelStoppedWake, ControlTerminalTrace,
       FinishPendingAction, ApprovePendingAction, ApproveSkillScript,
       ResumeContinuation, Tick, Stall, TimePasses
<1>4. ASSUME NEW a \in Agents, AgentStep(a) PROVE s \in segments
  BY <1>4 DEF AgentStep, Schedule, InterruptAgentExecution
<1>5. CASE \/ BeginRootTurn \/ FinishRootTurn \/ BeginAgentTreeRunStop \/ HostCrash
           \/ RecoverAgentWakes \/ ReconcileExecutionFences \/ UNCHANGED vars
  BY <1>5 DEF BeginRootTurn, FinishRootTurn, BeginAgentTreeRunStop, HostCrash,
       RecoverAgentWakes, ReconcileExecutionFences, vars
<1>. QED  BY <1>1, <1>2, <1>3, <1>4, <1>5 DEF Next

\* A wake is not settled under a segment that runs its model: its trace is open,
\* its launch is over, and nobody recovered its lease.
LEMMA NotSettledWhileRunning ==
  ASSUME CInv, [Next]_vars, NEW s \in segments, s.phase = "runtime",
         s.wake \notin stopped, status[s.wake] \in Admitted, LeaseKept(s.wake)
  PROVE  status'[s.wake] \notin Settled
<1>. USE DEF CInv, IInv, TypeOK
<1>. DEFINE w == s.wake
<1>0. w \in Wakes /\ trace[w] = "in_progress"
  BY DEF Segments, TurnInv, SegmentsRunTurns
<1>1. ASSUME NEW x \in Wakes, NEW outcome \in Settled, FinishAgentTurn(x, outcome), x # w
      PROVE  status'[w] \notin Settled
  BY <1>0, <1>1, FinishRows DEF Settled, Admitted
<1>2. ASSUME NEW o \in owners, OwnerStep(o) PROVE status'[w] \notin Settled
  <2>0. o.wake \in Wakes /\ o \in Owners
    BY DEF Owners
  <2>1. CASE SettleStartFailure(o)
    <3>1. o.wake # w
      <4>1. CASE o.phase = "start"
        BY <2>1, <4>1 DEF SettleStartFailure, SettleOwned, Holds, ClaimInv, StartHoldsClaim
      <4>2. CASE o.phase = "admitted"
        BY <4>2 DEF TurnInv, LaunchIsPending
      <4>. QED  BY <2>1, <4>1, <4>2 DEF SettleStartFailure
    <3>. QED  BY <1>1, <2>0, <2>1, <3>1 DEF SettleStartFailure, SettleOwned, Settled
  <2>2. CASE SettleObserved(o)
    <3>1. o.wake # w /\ OutcomeOf(trace[o.wake]) \in Settled
      BY <1>0, <2>2 DEF SettleObserved, TerminalTraces, OutcomeOf, Settled
    <3>. QED  BY <1>1, <2>0, <2>2, <3>1 DEF SettleObserved, SettleOwned
  <2>3. CASE SettleOutcomeUnknown(o)
    <3>1. o.wake # w
      BY <1>0, <2>3, KeeperPhase DEF SettleOutcomeUnknown, SettleOwned, Holds, InPhase
    <3>. QED  BY <1>1, <2>0, <2>3, <3>1 DEF SettleOutcomeUnknown, SettleOwned, Settled
  <2>4. CASE SettleTreeStopped(o)
    <3>1. CASE UNCHANGED status
      BY <3>1 DEF Settled, Admitted
    <3>2. CASE StopSettles(o.wake, o.token, o.expected) /\ FinishAgentTurn(o.wake, "interrupted")
      <4>1. o.wake # w /\ "interrupted" \in Settled
        BY <3>2 DEF StopSettles, Settled
      <4>. QED  BY <1>1, <2>0, <3>2, <4>1
    <3>. QED  BY <2>4, <3>1, <3>2 DEF SettleTreeStopped
  <2>5. CASE AdmitTurn(o) \/ MarkWaitingForApproval(o)
    BY <1>0, <2>0, <2>5 DEF AdmitTurn, MarkWaitingForApproval, Settled, Admitted
  <2>. QED  BY <1>2, <2>1, <2>2, <2>3, <2>4, <2>5 DEF OwnerStep, OwnerProgress,
         RenewLease, LaunchSegment, ObservePendingApproval, ObserveRunningAfterApproval,
         OwnerRefused, OwnerFails, durable, Settled, Admitted
<1>3. ASSUME NEW x \in Wakes, WakeStep(x) PROVE status'[w] \notin Settled
  <2>1. CASE CancelStoppedWake(x)
    <3>1. x # w /\ "interrupted" \in Settled
      BY <2>1 DEF CancelStoppedWake, StopSettles, Settled
    <3>. QED  BY <1>1, <2>1, <3>1 DEF CancelStoppedWake
  <2>2. CASE ClaimNextDispatchable(x) \/ ApproveSkillScript(x) \/ ResumeContinuation(x)
    BY <1>0, <2>2 DEF ClaimNextDispatchable, ApproveSkillScript, ResumeContinuation,
         Settled, Admitted
  <2>. QED  BY <1>3, <2>1, <2>2 DEF WakeStep, ControlTerminalTrace, FinishPendingAction,
         ApprovePendingAction, Tick, Stall, TimePasses, Settled, Admitted
<1>4. ASSUME NEW t \in segments, SegmentStep(t) PROVE status'[w] \notin Settled
  BY <1>0, <1>4 DEF SegmentStep, SegmentProgress, StartRuntime, StageWaitingUsage,
       StorePendingAction, CommitTerminalTrace, SegmentRefused, SatisfyBySourceMessage,
       durable, Settled, Admitted
<1>5. ASSUME NEW a \in Agents, AgentStep(a) PROVE status'[w] \notin Settled
  BY <1>0, <1>5 DEF AgentStep, Schedule, EnqueueWake, InterruptAgentExecution,
       InterruptTarget, Settled, Admitted
<1>6. CASE \/ BeginRootTurn \/ FinishRootTurn \/ BeginAgentTreeRunStop \/ HostCrash
           \/ RecoverAgentWakes \/ ReconcileExecutionFences \/ UNCHANGED vars
  BY <1>0, <1>6 DEF BeginRootTurn, FinishRootTurn, BeginAgentTreeRunStop, HostCrash,
       RecoverAgentWakes, ReconcileExecutionFences, vars, durable, Settled, Admitted
<1>. QED  BY <1>2, <1>3, <1>4, <1>5, <1>6 DEF Next

\* Every step without a fault keeps the schedulers within the reach of a stop.
LEMMA StepSchedulers ==
  ASSUME SInv, [Next]_vars
  PROVE  SchedulersAreCovered'
<1>. SUFFICES ASSUME faults' = MaxFaults, NEW s \in segments', s.phase = "runtime",
                     s.wake \notin stopped'
              PROVE  status'[s.wake] \in Admitted
  BY DEF SchedulersAreCovered
<1>. USE DEF SInv
<1>1. IInv /\ ClaimInv /\ TurnInv /\ CInv
  BY DEF CInv
<1>2. faults = MaxFaults /\ s.wake \notin stopped
  BY <1>1, FaultsFall, StopsStay
<1>3. CASE s \notin segments
  BY <1>1, <1>3, RuntimeSegments
<1>4. CASE s \in segments
  <2>1. s.wake \in Wakes
    BY <1>1, <1>4 DEF IInv, TypeOK, Segments
  <2>2. status[s.wake] \in Admitted
    BY <1>2, <1>4 DEF SchedulersAreCovered
  <2>3. trace[s.wake] = "in_progress"
    BY <1>1, <1>4, <2>2 DEF TurnInv, SegmentsRunTurns
  <2>4. LeaseKept(s.wake)
    BY <1>2, <2>1, <2>2, <2>3 DEF LeasesAreKept, Undisturbed, Active, Admitted,
         TerminalTraces
  <2>5. status'[s.wake] \notin Settled
    BY <1>1, <1>2, <1>4, <2>2, <2>4, NotSettledWhileRunning
  <2>6. RowMoves(s.wake)
    BY <1>1, <2>1, StepRows
  <2>. QED  BY <2>2, <2>5, <2>6 DEF RowMoves, MovesUnadmitted, OpensTurn, MovesAdmitted,
         ClosesTurn, Settles, Admitted
<1>. QED  BY <1>3, <1>4

\* After the stop nobody is left who could insert a wake: no run can schedule,
\* and no settlement reports to a parent.
LEMMA NothingInserted ==
  ASSUME SInv, [Next]_vars, root = "stopped", faults = MaxFaults
  PROVE  created' = created
<1>. USE DEF SInv, CInv, IInv, TypeOK
<1>0. StoppedTreeStaysStopped
  BY DEF StopCoversTree
<1>1. ASSUME NEW x \in Wakes, NEW outcome \in Settled, FinishAgentTurn(x, outcome)
      PROVE  created' = created
  <2>1. status[x] \in Active
    BY <1>1, FinishRows
  <2>2. x \in stopped
    BY <1>0, <2>1 DEF StoppedTreeStaysStopped, Active, Admitted
  <2>. QED  BY <1>1, <2>2 DEF FinishAgentTurn, WakesParent
<1>2. ASSUME NEW o \in owners, OwnerStep(o) PROVE created' = created
  <2>1. o.wake \in Wakes /\ OutcomeOf(trace[o.wake]) \in Settled
    BY DEF Owners, OutcomeOf, Settled
  <2>2. CASE \/ SettleStartFailure(o) \/ SettleObserved(o) \/ SettleOutcomeUnknown(o)
    BY <1>1, <2>1, <2>2 DEF SettleStartFailure, SettleObserved, SettleOutcomeUnknown,
         SettleOwned, Settled
  <2>3. CASE SettleTreeStopped(o)
    BY <1>1, <2>1, <2>3 DEF SettleTreeStopped, Settled
  <2>. QED  BY <1>2, <2>2, <2>3 DEF OwnerStep, OwnerProgress, RenewLease, AdmitTurn,
         LaunchSegment, ObservePendingApproval, ObserveRunningAfterApproval,
         MarkWaitingForApproval, OwnerRefused, OwnerFails, durable
<1>3. ASSUME NEW s \in segments, SegmentStep(s) PROVE created' = created
  BY <1>3 DEF SegmentStep, SegmentProgress, StartRuntime, StageWaitingUsage,
       StorePendingAction, CommitTerminalTrace, SegmentRefused, SatisfyBySourceMessage,
       durable
<1>4. ASSUME NEW w \in Wakes, WakeStep(w) PROVE created' = created
  <2>1. CASE CancelStoppedWake(w)
    BY <1>1, <2>1 DEF CancelStoppedWake, Settled
  <2>. QED  BY <1>4, <2>1 DEF WakeStep, ClaimNextDispatchable, ControlTerminalTrace,
         FinishPendingAction, ApprovePendingAction, ApproveSkillScript,
         ResumeContinuation, Tick, Stall, TimePasses
<1>5. ASSUME NEW a \in Agents, AgentStep(a) PROVE created' = created
  <2>1. ~Schedule(a)
    <3>. SUFFICES ASSUME Schedule(a) PROVE FALSE
      OBVIOUS
    <3>1. PICK s \in segments : s.phase = "runtime" /\ RunCanSchedule(s)
      BY DEF Schedule
    <3>2. s.wake \in Wakes /\ s.wake \notin stopped /\ status[s.wake] \in Admitted
      BY <3>1 DEF RunCanSchedule, SchedulersAreCovered, Segments
    <3>. QED  BY <1>0, <3>2 DEF StoppedTreeStaysStopped
  <2>. QED  BY <1>5, <2>1 DEF AgentStep, InterruptAgentExecution
<1>6. CASE \/ BeginRootTurn \/ FinishRootTurn \/ BeginAgentTreeRunStop \/ HostCrash
           \/ RecoverAgentWakes \/ ReconcileExecutionFences \/ UNCHANGED vars
  BY <1>6 DEF BeginRootTurn, FinishRootTurn, BeginAgentTreeRunStop, HostCrash,
       RecoverAgentWakes, ReconcileExecutionFences, vars, durable
<1>. QED  BY <1>2, <1>3, <1>4, <1>5, <1>6 DEF Next

\* Only the stop stops the root run.
LEMMA OnlyTheStopStops ==
  ASSUME [Next]_vars, root' = "stopped"
  PROVE  root = "stopped" \/ BeginAgentTreeRunStop
<1>1. ASSUME NEW o \in owners, OwnerStep(o) PROVE root' = root
  BY <1>1 DEF OwnerStep, OwnerProgress, RenewLease, AdmitTurn, LaunchSegment,
       SettleStartFailure, SettleObserved, ObservePendingApproval,
       ObserveRunningAfterApproval, MarkWaitingForApproval, SettleOutcomeUnknown,
       SettleTreeStopped, OwnerRefused, OwnerFails
<1>2. ASSUME NEW s \in segments, SegmentStep(s) PROVE root' = root
  BY <1>2 DEF SegmentStep, SegmentProgress, StartRuntime, StageWaitingUsage,
       StorePendingAction, CommitTerminalTrace, SegmentRefused, SatisfyBySourceMessage
<1>3. ASSUME NEW w \in Wakes, WakeStep(w) PROVE root' = root
  BY <1>3 DEF WakeStep, ClaimNextDispatchable, CancelStoppedWake, ControlTerminalTrace,
       FinishPendingAction, ApprovePendingAction, ApproveSkillScript,
       ResumeContinuation, Tick, Stall, TimePasses
<1>4. ASSUME NEW a \in Agents, AgentStep(a) PROVE root' = root
  BY <1>4 DEF AgentStep, Schedule, InterruptAgentExecution
<1>5. CASE \/ BeginRootTurn \/ FinishRootTurn \/ HostCrash
           \/ RecoverAgentWakes \/ ReconcileExecutionFences \/ UNCHANGED vars
  BY <1>5 DEF BeginRootTurn, FinishRootTurn, HostCrash, RecoverAgentWakes,
       ReconcileExecutionFences, vars
<1>. QED  BY <1>1, <1>2, <1>3, <1>4, <1>5 DEF Next

\* The stop sweeps what was not admitted and fences what was; nothing comes after.
LEMMA StepStop ==
  ASSUME SInv, [Next]_vars
  PROVE  StopCoversTree'
<1>. SUFFICES ASSUME faults' = MaxFaults, root' = "stopped", NEW w \in Wakes
              PROVE  /\ status'[w] \notin {"queued", "claimed"}
                     /\ status'[w] \in Admitted => w \in stopped'
  BY DEF StopCoversTree, StoppedTreeStaysStopped
<1>1. IInv /\ ClaimInv /\ TurnInv
  BY DEF SInv, CInv
<1>2. CASE BeginAgentTreeRunStop
  BY <1>2 DEF BeginAgentTreeRunStop, Admitted
<1>3. CASE root = "stopped"
  <2>1. faults = MaxFaults
    BY <1>1, FaultsFall
  <2>2. /\ status[w] \notin {"queued", "claimed"}
        /\ status[w] \in Admitted => w \in stopped
    BY <1>3, <2>1 DEF SInv, StopCoversTree, StoppedTreeStaysStopped
  <2>3. CASE status[w] = "absent"
    <3>1. created' = created
      BY <1>3, <2>1, NothingInserted
    <3>2. IInv'
      BY <1>1, NextInv
    <3>3. status'[w] = "absent"
      BY <1>1, <2>3, <3>1, <3>2 DEF IInv, Existing
    <3>. QED  BY <3>3 DEF Admitted
  <2>4. CASE status[w] # "absent"
    <3>1. RowMoves(w) /\ stopped \subseteq stopped'
      BY <1>1, StepRows, StopsStay
    <3>. QED  BY <2>2, <2>4, <3>1 DEF RowMoves, MovesUnadmitted, OpensTurn,
           MovesAdmitted, ClosesTurn, Settles, Admitted, Settled
  <2>. QED  BY <2>3, <2>4
<1>. QED  BY <1>2, <1>3, OnlyTheStopStops

\* Leases, schedulers and the stop hold of every reachable state.
THEOREM StopInvariance == Spec => []SInv
<1>1. Init => LeasesAreKept /\ SchedulersAreCovered /\ StopCoversTree
  BY DEF Init, LeasesAreKept, Undisturbed, Active, SchedulersAreCovered,
       StopCoversTree, StoppedTreeStaysStopped
<1>2. Init /\ CInv => SInv
  BY <1>1 DEF SInv
<1>3. SInv /\ [Next]_vars /\ CInv' => SInv'
  BY StepLeases, StepSchedulers, StepStop DEF SInv
<1>. QED  BY <1>2, <1>3, ClaimInvariance, PTL DEF Spec

\* Once the user stopped the root run, nothing below it is queued or claimed and
\* every admitted run carries the stop, for as long as the root run is current
\* and no worker crashed or stalled beyond its lease.
THEOREM TreeStaysStopped == Spec => []StopCoversTree
<1>1. SInv => StopCoversTree
  BY DEF SInv
<1>. QED  BY <1>1, StopInvariance, PTL

\* Without a crash or a stall nobody is robbed of an open turn: the lease of a
\* wake that no stop has reached is live, and its holder has not given it up.
THEOREM LeasesOutliveTurns == Spec => []LeasesAreKept
<1>1. SInv => LeasesAreKept
  BY DEF SInv
<1>. QED  BY <1>1, StopInvariance, PTL

=============================================================================
