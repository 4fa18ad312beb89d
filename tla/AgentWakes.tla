----------------------------- MODULE AgentWakes -----------------------------
(***************************************************************************)
(* The durable wake state machine of one agent tree and the processes that *)
(* drive it: the dispatcher's owners, the runtime segments of admitted     *)
(* turns, approvals, lease recovery and the user's stop of the whole tree. *)
(*                                                                         *)
(* Every storage operation of the code is one BEGIN IMMEDIATE transaction  *)
(* and is one action here.  What the code reads before a transaction and   *)
(* uses in it (a claim token, an expected status, a recovery plan) is kept *)
(* in the record of the process that read it, so that it can be stale.     *)
(***************************************************************************)
EXTENDS Integers, FiniteSets

CONSTANTS
  Root,          \* the human-driven root agent; it never has a wake
  Agents,        \* the child agents of the tree
  Parent,        \* the direct parent of every child agent
  Ancestors,     \* the strict ancestors of every child agent
  Approvers,     \* bound: the agents whose turns ask for approval
  Lease,         \* WAKE_LEASE_DURATION_MS, in ticks
  MaxWakes,      \* bound: wakes ever created
  MaxScheduled,  \* bound: wakes created by a task or a follow-up
  MaxClaims,     \* bound: claim tokens ever issued for one wake
  MaxFaults      \* bound: crashes, failed workers and stalls

ASSUME TreeAssumption ==
  /\ Root \notin Agents
  /\ Parent \in [Agents -> Agents \cup {Root}]
  /\ Ancestors \in [Agents -> SUBSET (Agents \cup {Root})]
  /\ \A a \in Agents :
       /\ a \notin Ancestors[a]
       /\ Ancestors[a] = {Parent[a]} \cup
            (IF Parent[a] \in Agents THEN Ancestors[Parent[a]] ELSE {})

ASSUME BoundAssumption ==
  /\ Approvers \subseteq Agents
  /\ Lease \in Nat \ {0}
  /\ MaxWakes \in Nat
  /\ MaxScheduled \in Nat
  /\ MaxClaims \in Nat
  /\ MaxFaults \in Nat

VARIABLES
  status,     \* agent_wake_requests.status; "absent" before the row exists
  agent,      \* the agent a wake executes
  cause,      \* the child wake whose result created this wake, 0 for a task
  token,      \* claim_token, 0 for NULL
  issued,     \* how many claim tokens this wake has had
  ttl,        \* ticks left to lease_expires_at of an active wake, else 0
  trace,      \* terminal_status of the turn trace; "none" before admission
  action,     \* the pending action of the turn
  stopped,    \* the wakes whose run has a row in agent_tree_run_stops
  created,    \* how many wakes exist; a wake's number is its sequence
  root,       \* the current root run
  owners,     \* dispatcher workers (process memory)
  segments,   \* runtime turn segments (process memory)
  refused,    \* claims refused in WakeExecutionFences (process memory)
  faults      \* faults left

durable == <<status, agent, cause, token, issued, ttl, trace, action, stopped,
             created>>
vars == <<status, agent, cause, token, issued, ttl, trace, action, stopped,
          created, root, owners, segments, refused, faults>>

Wakes  == 1..MaxWakes
Tokens == 1..MaxClaims

Active   == {"claimed", "running", "waiting_for_approval"}
Admitted == {"running", "waiting_for_approval"}
Settled  == {"completed", "failed", "interrupted", "outcome_unknown"}
Terminal == Settled \cup {"cancelled", "satisfied"}
Statuses == {"absent", "queued"} \cup Active \cup Terminal

TerminalTraces == {"completed", "failed", "cancelled"}
Traces  == {"none", "in_progress"} \cup TerminalTraces
\* "continuing" is a row still `executing` whose continuation segment exists.
Actions == {"none", "pending", "approved", "executing", "continuing"}

Phases == {"start", "admitted", "observe", "saw_pending", "waiting",
           "stop_wait", "outcome_unknown", "tree_stopped"}
Owners   == [wake : Wakes, token : Tokens, phase : Phases,
             expected : Admitted \cup {"none"}]
Segments == [wake : Wakes, token : Tokens,
             phase : {"prepared", "runtime", "asking"}]

TypeOK ==
  /\ status \in [Wakes -> Statuses]
  /\ agent \in [Wakes -> Agents \cup {Root}]
  /\ cause \in [Wakes -> 0..MaxWakes]
  /\ token \in [Wakes -> 0..MaxClaims]
  /\ issued \in [Wakes -> 0..MaxClaims]
  /\ ttl \in [Wakes -> 0..Lease]
  /\ trace \in [Wakes -> Traces]
  /\ action \in [Wakes -> Actions]
  /\ stopped \in SUBSET Wakes
  /\ created \in 0..MaxWakes
  /\ root \in {"idle", "in_progress", "stopped"}
  /\ owners \in SUBSET Owners
  /\ segments \in SUBSET Segments
  /\ refused \in SUBSET (Wakes \X Tokens)
  /\ faults \in 0..MaxFaults

Init ==
  /\ status = [w \in Wakes |-> "absent"]
  /\ agent = [w \in Wakes |-> Root]
  /\ cause = [w \in Wakes |-> 0]
  /\ token = [w \in Wakes |-> 0]
  /\ issued = [w \in Wakes |-> 0]
  /\ ttl = [w \in Wakes |-> 0]
  /\ trace = [w \in Wakes |-> "none"]
  /\ action = [w \in Wakes |-> "none"]
  /\ stopped = {}
  /\ created = 0
  /\ root = "idle"
  /\ owners = {}
  /\ segments = {}
  /\ refused = {}
  /\ faults = MaxFaults

-----------------------------------------------------------------------------
(* Predicates the transactions evaluate.                                   *)

\* AgentWakeStatus::can_transition_to, and the schema trigger.
CanTransitionTo(from, to) ==
  \/ from = "queued"  /\ to \in {"claimed", "cancelled", "satisfied"}
  \/ from = "claimed" /\ to \in {"queued", "running", "failed", "interrupted",
                                 "cancelled", "outcome_unknown"}
  \/ from = "running" /\ to \in {"waiting_for_approval", "completed", "failed",
                                 "interrupted", "cancelled", "outcome_unknown"}
  \/ from = "waiting_for_approval"
       /\ to \in {"running", "completed", "failed", "interrupted", "cancelled",
                  "outcome_unknown"}

LeaseLive(w) == ttl[w] > 0

\* The wake is still held, under a live lease, by this claim token.
Holds(w, t) == token[w] = t /\ LeaseLive(w)

\* agent_wake_execution_refused: this process gave the claim up.
ClaimRefused(p) == <<p.wake, p.token>> \in refused

Busy(a) == \E w \in Wakes : agent[w] = a /\ trace[w] = "in_progress"

\* validate_agent_wake_execution_fence
ExecutionFence(s) ==
  /\ status[s.wake] = "running"
  /\ Holds(s.wake, s.token)
  /\ trace[s.wake] = "in_progress"
  /\ s.wake \notin stopped

\* Mutant: the terminal fence forgets the tree stop.
TerminalFenceIgnoringStop(s, outcome) ==
  /\ status[s.wake] \in Admitted
  /\ Holds(s.wake, s.token)
  /\ trace[s.wake] = "in_progress"

\* validate_agent_wake_terminal_fence: a stopped run may only be cancelled.
TerminalFence(s, outcome) ==
  /\ status[s.wake] \in Admitted
  /\ Holds(s.wake, s.token)
  /\ trace[s.wake] = "in_progress"
  /\ s.wake \in stopped => outcome = "cancelled"

\* Mutant: only the open trace, and not the unsettled wake, keeps an agent busy.
DispatchableByTrace(w) ==
  /\ status[w] = "queued"
  /\ \A x \in Wakes : status[x] # "claimed"
  /\ ~Busy(agent[w])

\* claim_next_dispatchable_agent_wake_with_preparation_fairness, fair.
Dispatchable(w) ==
  /\ status[w] = "queued"
  /\ \A x \in Wakes : status[x] # "claimed"
  /\ \A x \in Wakes : agent[x] = agent[w] => status[x] \notin Active
  /\ ~Busy(agent[w])

\* ensure_agent_tree_origin_run_can_schedule_in_transaction
RunCanSchedule(s) == s.wake \notin stopped

-----------------------------------------------------------------------------
(* Scheduling: the root run and the runs of admitted wakes.                *)

BeginRootTurn ==
  /\ root = "idle"
  /\ root' = "in_progress"
  /\ UNCHANGED <<durable, owners, segments, refused, faults>>

FinishRootTurn ==
  /\ root # "idle"
  /\ root' = "idle"
  /\ UNCHANGED <<durable, owners, segments, refused, faults>>

\* The row a task, a follow-up or a child's result inserts for agent a.
EnqueueWake(a, source, statuses) ==
  /\ created < MaxWakes
  /\ created' = created + 1
  /\ status' = [statuses EXCEPT ![created + 1] = "queued"]
  /\ agent' = [agent EXCEPT ![created + 1] = a]
  /\ cause' = [cause EXCEPT ![created + 1] = source]

Scheduled == {w \in 1..created : cause[w] = 0}

\* spawn_agent and follow_up_agent of a run of a strict ancestor.
Schedule(a) ==
  /\ Cardinality(Scheduled) < MaxScheduled
  /\ \/ root = "in_progress"
     \/ \E s \in segments : /\ s.phase = "runtime"
                            /\ agent[s.wake] \in Ancestors[a]
                            /\ RunCanSchedule(s)
  /\ EnqueueWake(a, 0, status)
  /\ UNCHANGED <<token, issued, ttl, trace, action, stopped, root, owners,
                 segments, refused, faults>>

\* interrupt_agent_execution_with_receipt: an admitted turn is only cancelled
\* through its runtime, so the transaction changes no wake then.
InterruptTarget(a) ==
  LET mine == {w \in Wakes : agent[w] = a}
      first(s) == {w \in mine : status[w] = s /\
                     \A x \in mine : status[x] = s => w <= x}
  IN IF \E w \in mine : status[w] \in Active
       THEN first("claimed")
       ELSE first("queued")

InterruptAgentExecution(a) ==
  /\ root # "idle" \/ \E s \in segments : agent[s.wake] \in Ancestors[a]
  /\ \E w \in InterruptTarget(a) :
       /\ status' = [status EXCEPT ![w] = "cancelled"]
       /\ ttl' = [ttl EXCEPT ![w] = 0]
  /\ UNCHANGED <<agent, cause, token, issued, trace, action, stopped, created,
                 root, owners, segments, refused, faults>>

\* A running turn of the same agent bound the wake's source message.
SatisfyBySourceMessage(s, w) ==
  /\ s.phase = "runtime"
  /\ trace[s.wake] = "in_progress"
  /\ agent[w] = agent[s.wake]
  /\ status[w] = "queued"
  /\ status' = [status EXCEPT ![w] = "satisfied"]
  /\ UNCHANGED <<agent, cause, token, issued, ttl, trace, action, stopped,
                 created, root, owners, segments, refused, faults>>

-----------------------------------------------------------------------------
(* The dispatcher: claim, admission, observation, settlement.              *)

ClaimNextDispatchable(w) ==
  /\ Dispatchable(w)
  /\ \A x \in Wakes : Dispatchable(x) => w <= x
  /\ issued[w] < MaxClaims
  /\ status' = [status EXCEPT ![w] = "claimed"]
  /\ issued' = [issued EXCEPT ![w] = @ + 1]
  /\ token' = [token EXCEPT ![w] = issued[w] + 1]
  /\ ttl' = [ttl EXCEPT ![w] = Lease]
  /\ owners' = owners \cup {[wake |-> w, token |-> issued[w] + 1,
                             phase |-> "start", expected |-> "none"]}
  /\ UNCHANGED <<agent, cause, trace, action, stopped, created, root, segments,
                 refused, faults>>

Move(o, phase, expected) ==
  owners' = (owners \ {o}) \cup
              {[o EXCEPT !.phase = phase, !.expected = expected]}

\* Mutant: the deadline is extended instead of counted from now.
RenewLeaseExtending(o) ==
  /\ o.phase \notin {"outcome_unknown", "tree_stopped"}
  /\ ~ClaimRefused(o)
  /\ status[o.wake] \in Active
  /\ Holds(o.wake, o.token)
  /\ ttl' = [ttl EXCEPT ![o.wake] = @ + Lease]
  /\ UNCHANGED <<status, agent, cause, token, issued, trace, action, stopped,
                 created, root, owners, segments, refused, faults>>

\* renew_agent_wake_lease: the deadline advances to a full lease from now.
RenewLease(o) ==
  /\ o.phase \notin {"outcome_unknown", "tree_stopped"}
  /\ ~ClaimRefused(o)
  /\ status[o.wake] \in Active
  /\ Holds(o.wake, o.token)
  /\ ttl' = [ttl EXCEPT ![o.wake] = Lease]
  /\ UNCHANGED <<status, agent, cause, token, issued, trace, action, stopped,
                 created, root, owners, segments, refused, faults>>

\* Atomic turn admission binds the run and opens its trace.
AdmitTurn(o) ==
  /\ o.phase = "start"
  /\ status[o.wake] = "claimed"
  /\ Holds(o.wake, o.token)
  /\ ~Busy(agent[o.wake])
  /\ status' = [status EXCEPT ![o.wake] = "running"]
  /\ trace' = [trace EXCEPT ![o.wake] = "in_progress"]
  /\ Move(o, "admitted", "none")
  /\ UNCHANGED <<agent, cause, token, issued, ttl, action, stopped, created,
                 root, segments, refused, faults>>

\* start() hands the frozen claim to a runtime segment and returns its handle.
LaunchSegment(o) ==
  /\ o.phase = "admitted"
  /\ Move(o, "observe", "none")
  /\ segments' = segments \cup {[wake |-> o.wake, token |-> o.token,
                                 phase |-> "prepared"]}
  /\ UNCHANGED <<durable, root, refused, faults>>

\* Mutant: the result of a stopped run still wakes its parent.
WakesParentAfterStop(w, outcome) ==
  /\ Parent[agent[w]] # Root
  /\ outcome # "interrupted"

\* should_enqueue_parent_result_wake
WakesParent(w, outcome) ==
  /\ Parent[agent[w]] # Root
  /\ outcome # "interrupted"
  /\ w \notin stopped

\* Mutant: recovery settles the wake and leaves its trace open.
UnterminalizedTrace(t, outcome) == t

\* terminalize_recovered_agent_trace_in_transaction
TerminalizedTrace(t, outcome) ==
  IF t # "in_progress" THEN t
  ELSE IF outcome = "interrupted" THEN "cancelled" ELSE "failed"

\* finish_agent_turn_with_result_in_transaction after its guards: the wake,
\* its trace and the parent's wake change together.
FinishAgentTurn(w, outcome) ==
  LET finished == [status EXCEPT ![w] = outcome] IN
  /\ CanTransitionTo(status[w], outcome)
  /\ trace' = [trace EXCEPT ![w] = TerminalizedTrace(@, outcome)]
  /\ ttl' = [ttl EXCEPT ![w] = 0]
  /\ \/ /\ WakesParent(w, outcome)
        /\ EnqueueWake(Parent[agent[w]], w, finished)
     \/ /\ ~WakesParent(w, outcome)
        /\ status' = finished
        /\ UNCHANGED <<created, agent, cause>>

\* finish_agent_turn_with_result_with_clock: the fenced entry point.
SettleOwned(o, expected, outcome) ==
  /\ status[o.wake] = expected
  /\ Holds(o.wake, o.token)
  /\ FinishAgentTurn(o.wake, outcome)

\* start() failed; what was persisted decides the expected status.
SettleStartFailure(o) ==
  /\ o.phase \in {"start", "admitted"}
  /\ status[o.wake] \in {"claimed", "running"}
  /\ SettleOwned(o, status[o.wake], "failed")
  /\ owners' = owners \ {o}
  /\ UNCHANGED <<token, issued, action, stopped, root, segments, refused, faults>>

Observing == {"observe", "waiting"}

OutcomeOf(t) == CASE t = "completed" -> "completed"
                  [] t = "failed"    -> "failed"
                  [] OTHER           -> "interrupted"

\* observe() saw a terminal trace.
SettleObserved(o) ==
  /\ o.phase \in Observing
  /\ ~ClaimRefused(o)
  /\ trace[o.wake] \in TerminalTraces
  /\ status[o.wake] \in Active
  /\ SettleOwned(o, status[o.wake], OutcomeOf(trace[o.wake]))
  /\ owners' = owners \ {o}
  /\ UNCHANGED <<token, issued, action, stopped, root, segments, refused, faults>>

ObservePendingApproval(o) ==
  /\ o.phase = "observe"
  /\ ~ClaimRefused(o)
  /\ trace[o.wake] = "in_progress"
  /\ action[o.wake] = "pending"
  /\ Move(o, "saw_pending", "none")
  /\ UNCHANGED <<durable, root, segments, refused, faults>>

ObserveRunningAfterApproval(o) ==
  /\ o.phase = "waiting"
  /\ ~ClaimRefused(o)
  /\ trace[o.wake] = "in_progress"
  /\ action[o.wake] # "pending"
  /\ status[o.wake] = "running"
  /\ Move(o, "observe", "none")
  /\ UNCHANGED <<durable, root, segments, refused, faults>>

\* mark_agent_wake_waiting_for_pending_approval, on an older observation.
MarkWaitingForApproval(o) ==
  /\ o.phase = "saw_pending"
  /\ status[o.wake] = "running"
  /\ Holds(o.wake, o.token)
  /\ \/ /\ o.wake \in stopped
        /\ Move(o, "stop_wait", "running")
        /\ UNCHANGED status
     \/ /\ o.wake \notin stopped
        /\ action[o.wake] = "pending"
        /\ Move(o, "waiting", "none")
        /\ status' = [status EXCEPT ![o.wake] = "waiting_for_approval"]
     \/ /\ o.wake \notin stopped
        /\ action[o.wake] # "pending"
        /\ Move(o, "observe", "none")
        /\ UNCHANGED status
  /\ UNCHANGED <<agent, cause, token, issued, ttl, trace, action, stopped,
                 created, root, segments, refused, faults>>

-----------------------------------------------------------------------------
(* Recovery of expired leases and settlement of stopped runs.              *)

\* Mutant: the lease is not read.
ActiveAnyLease(w) == status[w] \in Active

\* Mutant: only admitted wakes are looked for.
ExpiredAdmitted(w) == status[w] \in Admitted /\ ~LeaseLive(w)

Expired(w) == status[w] \in Active /\ ~LeaseLive(w)

\* Mutant: a turn without a pending action is started again.
RequeuedWithoutAction(w) == Expired(w) /\ action[w] = "none"

\* Only a claim that never admitted a turn returns to the queue.
Requeued(w) == Expired(w) /\ status[w] = "claimed"

\* The plan recover_agent_wakes freezes for an expired admitted wake.
RecoveryPhase(w) ==
  CASE trace[w] \in TerminalTraces -> "observe"
    [] w \in stopped               -> "tree_stopped"
    [] action[w] # "none"          -> "observe"
    [] OTHER                       -> "outcome_unknown"

\* Mutant: the plan keeps the claim that expired.
RecoveredOwnerOldClaim(w) ==
  [wake |-> w, token |-> issued[w], phase |-> RecoveryPhase(w),
   expected |-> "none"]

RecoveredOwner(w) ==
  LET phase == RecoveryPhase(w) IN
  [wake |-> w, token |-> issued[w] + 1,
   phase |-> IF phase = "observe" /\ status[w] = "waiting_for_approval"
               THEN "waiting" ELSE phase,
   expected |-> IF phase = "observe" THEN "none" ELSE status[w]]

\* recover_agent_wakes: one transaction over every expired lease.
RecoverAgentWakes ==
  LET requeued == {w \in Wakes : Requeued(w)}
      rebound  == {w \in Wakes : Expired(w) /\ ~Requeued(w)}
  IN
  /\ requeued \cup rebound # {}
  /\ \A w \in rebound : issued[w] < MaxClaims
  /\ status' = [w \in Wakes |-> IF w \in requeued THEN "queued" ELSE status[w]]
  /\ token' = [w \in Wakes |-> IF w \in requeued THEN 0
                               ELSE IF w \in rebound THEN issued[w] + 1
                               ELSE token[w]]
  /\ issued' = [w \in Wakes |-> IF w \in rebound THEN issued[w] + 1
                                ELSE issued[w]]
  /\ ttl' = [w \in Wakes |-> IF w \in rebound THEN Lease ELSE ttl[w]]
  /\ owners' = owners \cup {RecoveredOwner(w) : w \in rebound}
  /\ UNCHANGED <<agent, cause, trace, action, stopped, created, root, segments,
                 refused, faults>>

\* settle_recovery_without_replay
SettleOutcomeUnknown(o) ==
  /\ o.phase = "outcome_unknown"
  /\ SettleOwned(o, o.expected, "outcome_unknown")
  /\ owners' = owners \ {o}
  /\ UNCHANGED <<token, issued, action, stopped, root, segments, refused, faults>>

\* Mutant: a stopped run is settled without reading its trace.
StopSettlesAnyTrace(w, t, expected) ==
  /\ w \in stopped
  /\ token[w] = t
  /\ status[w] = expected
  /\ action[w] = "none"

\* Whether settle_tree_stopped_active_wake may write: no lease is needed.
StopSettles(w, t, expected) ==
  /\ w \in stopped
  /\ token[w] = t
  /\ status[w] = expected
  /\ trace[w] = "in_progress"
  /\ action[w] = "none"

\* The four outcomes a worker that owns a stopped run can meet.
SettleTreeStopped(o) ==
  LET w == o.wake
      already == \/ status[w] \in Terminal
                 \/ status[w] = o.expected /\ trace[w] \in TerminalTraces
      unsafe  == /\ status[w] = o.expected
                 /\ trace[w] = "in_progress"
                 /\ action[w] # "none"
  IN
  /\ o.phase \in {"tree_stopped", "stop_wait"}
  /\ \/ /\ StopSettles(w, o.token, o.expected)
        /\ FinishAgentTurn(w, "interrupted")
        /\ owners' = owners \ {o}
     \/ /\ token[w] = o.token
        /\ already
        /\ Move(o, IF o.phase = "tree_stopped" /\ o.expected = "waiting_for_approval"
                     THEN "waiting" ELSE "observe", "none")
        /\ UNCHANGED <<status, agent, cause, ttl, trace, created>>
     \/ /\ token[w] = o.token
        /\ unsafe
        /\ IF o.phase = "tree_stopped"
             THEN Move(o, "outcome_unknown", o.expected)
             ELSE owners' = owners \ {o}
        /\ UNCHANGED <<status, agent, cause, ttl, trace, created>>
  /\ UNCHANGED <<token, issued, action, stopped, root, segments, refused, faults>>

\* Mutant: the sweep leaves claimed wakes to their owners.
StopSweepingQueued ==
  /\ root = "in_progress"
  /\ root' = "stopped"
  /\ status' = [w \in Wakes |-> IF status[w] = "queued" THEN "cancelled"
                                ELSE status[w]]
  /\ stopped' = stopped \cup {w \in Wakes : status[w] \in Admitted}
  /\ UNCHANGED <<agent, cause, token, issued, ttl, trace, action, created,
                 owners, segments, refused, faults>>

\* begin_agent_tree_run_stop: the sweep and the fence are one transaction.
BeginAgentTreeRunStop ==
  /\ root = "in_progress"
  /\ root' = "stopped"
  /\ status' = [w \in Wakes |-> IF status[w] \in {"queued", "claimed"}
                                  THEN "cancelled" ELSE status[w]]
  /\ ttl' = [w \in Wakes |-> IF status[w] \in Admitted THEN ttl[w] ELSE 0]
  /\ stopped' = stopped \cup {w \in Wakes : status[w] \in Admitted}
  /\ UNCHANGED <<agent, cause, token, issued, trace, action, created,
                 owners, segments, refused, faults>>

\* cancel_agent_tree_active_wake: the host settles a stopped run for which its
\* interrupt found no runtime; a lost identity is refreshed once.
CancelStoppedWake(w) ==
  /\ status[w] \in Admitted
  /\ \A s \in segments : s.wake # w
  /\ StopSettles(w, token[w], status[w])
  /\ FinishAgentTurn(w, "interrupted")
  /\ UNCHANGED <<token, issued, action, stopped, root, owners, segments, refused, faults>>

-----------------------------------------------------------------------------
(* Runtime segments and approvals.                                         *)

\* The last fence check before the model task starts.
StartRuntime(s) ==
  /\ s.phase = "prepared"
  /\ ~ClaimRefused(s)
  /\ ExecutionFence(s)
  /\ segments' = (segments \ {s}) \cup {[s EXCEPT !.phase = "runtime"]}
  /\ UNCHANGED <<durable, root, owners, refused, faults>>

\* stage_waiting_segment_usage: the turn is read once before its approval is
\* stored; a turn found terminal ends the segment instead.
StageWaitingUsage(s) ==
  /\ s.phase = "runtime"
  /\ agent[s.wake] \in Approvers
  /\ trace[s.wake] = "in_progress"
  /\ segments' = (segments \ {s}) \cup {[s EXCEPT !.phase = "asking"]}
  /\ UNCHANGED <<durable, root, owners, refused, faults>>

\* The pending row ends the segment; its transaction checks no fence.
StorePendingAction(s) ==
  /\ s.phase = "asking"
  /\ action[s.wake] \in {"none", "continuing"}
  /\ action' = [action EXCEPT ![s.wake] = "pending"]
  /\ segments' = segments \ {s}
  /\ UNCHANGED <<status, agent, cause, token, issued, ttl, trace, stopped,
                 created, root, owners, refused, faults>>

\* finalize_chat_message_with_..._notification under the segment's own claim.
CommitTerminalTrace(s, outcome) ==
  /\ outcome = "completed" => s.phase = "runtime"
  /\ TerminalFence(s, outcome)
  /\ trace' = [trace EXCEPT ![s.wake] = outcome]
  /\ segments' = segments \ {s}
  /\ UNCHANGED <<status, agent, cause, token, issued, ttl, action, stopped,
                 created, root, owners, refused, faults>>

\* Mutant: a control caller closes the turn without reading its trace.
ControlTerminalTraceUnread(w, outcome) ==
  /\ \/ action[w] \in {"approved", "executing"}
     \/ action[w] = "pending" /\ outcome = "cancelled"
     \/ action[w] = "continuing" /\ \A s \in segments : s.wake # w
  /\ trace' = [trace EXCEPT ![w] = outcome]
  /\ UNCHANGED <<status, agent, cause, token, issued, ttl, action, stopped,
                 created, root, owners, segments, refused, faults>>

\* Control and recovery callers close a turn that waits on its action, without
\* a fence and never as completed.
ControlTerminalTrace(w, outcome) ==
  /\ trace[w] = "in_progress"
  /\ \/ action[w] \in {"approved", "executing"}
     \/ action[w] = "pending" /\ outcome = "cancelled"
     \/ action[w] = "continuing" /\ \A s \in segments : s.wake # w
  /\ trace' = [trace EXCEPT ![w] = outcome]
  /\ UNCHANGED <<status, agent, cause, token, issued, ttl, action, stopped,
                 created, root, owners, segments, refused, faults>>

\* The action's row follows its turn's terminal trace in a later transaction.
FinishPendingAction(w) ==
  /\ trace[w] \in TerminalTraces
  /\ action[w] # "none"
  /\ action' = [action EXCEPT ![w] = "none"]
  /\ UNCHANGED <<status, agent, cause, token, issued, ttl, trace, stopped,
                 created, root, owners, segments, refused, faults>>

\* approve_pending_command, then the claim of its execution.
ApprovePendingAction(w) ==
  /\ w \notin stopped
  /\ \/ /\ action[w] = "pending"
        /\ action' = [action EXCEPT ![w] = "approved"]
     \/ /\ action[w] = "approved"
        /\ action' = [action EXCEPT ![w] = "executing"]
  /\ UNCHANGED <<status, agent, cause, token, issued, ttl, trace, stopped,
                 created, root, owners, segments, refused, faults>>

\* A skill script's approval resumes its wake in the same transaction.
ApproveSkillScript(w) ==
  /\ w \notin stopped
  /\ action[w] = "pending"
  /\ status[w] \in Admitted
  /\ LeaseLive(w)
  /\ action' = [action EXCEPT ![w] = "executing"]
  /\ status' = [status EXCEPT ![w] = "running"]
  /\ UNCHANGED <<agent, cause, token, issued, ttl, trace, stopped, created,
                 root, owners, segments, refused, faults>>

\* Mutant: the resumed action can be resumed again.
ResumeContinuationAgain(w) ==
  /\ action[w] = "executing"
  /\ status[w] \in Admitted
  /\ status[w] = "waiting_for_approval" => LeaseLive(w)
  /\ status' = [status EXCEPT ![w] = "running"]
  /\ segments' = segments \cup {[wake |-> w, token |-> token[w],
                                 phase |-> "prepared"]}
  /\ UNCHANGED <<agent, cause, token, issued, ttl, trace, action, stopped,
                 created, root, owners, refused, faults>>

\* The continuation resolves the current claim, resumes the wake and freezes
\* that claim in a new segment.  Its check of the tree stop came earlier.
ResumeContinuation(w) ==
  /\ action[w] = "executing"
  /\ status[w] \in Admitted
  /\ status[w] = "waiting_for_approval" => LeaseLive(w)
  /\ action' = [action EXCEPT ![w] = "continuing"]
  /\ status' = [status EXCEPT ![w] = "running"]
  /\ segments' = segments \cup {[wake |-> w, token |-> token[w],
                                 phase |-> "prepared"]}
  /\ UNCHANGED <<agent, cause, token, issued, ttl, trace, stopped, created,
                 root, owners, refused, faults>>

-----------------------------------------------------------------------------
(* Refusals, faults and time.                                              *)

\* A worker whose next write is refused ends and leaves recovery to decide.
OwnerRefused(o) ==
  /\ \/ status[o.wake] \notin Active
     \/ ~Holds(o.wake, o.token)
     \/ o.phase \in Observing /\ ClaimRefused(o)
     \/ o.phase = "saw_pending" /\ status[o.wake] # "running"
     \/ o.phase \in {"outcome_unknown", "tree_stopped", "stop_wait"}
          /\ status[o.wake] # o.expected
  /\ owners' = owners \ {o}
  /\ UNCHANGED <<durable, root, segments, refused, faults>>

\* Mutant: the refused segment ends without recording its claim.
SegmentRefusedSilently(s) ==
  /\ \/ ~TerminalFence(s, "cancelled")
     \/ s.phase = "prepared" /\ (ClaimRefused(s) \/ ~ExecutionFence(s))
  /\ segments' = segments \ {s}
  /\ UNCHANGED <<durable, root, owners, refused, faults>>

\* retire_fenced_runtime_segment: a refused segment may not even write a
\* failure; it gives up its claim, so that the lease runs out.
SegmentRefused(s) ==
  /\ \/ ~TerminalFence(s, "cancelled")
     \/ s.phase = "prepared" /\ (ClaimRefused(s) \/ ~ExecutionFence(s))
  /\ segments' = segments \ {s}
  /\ refused' = refused \cup {<<s.wake, s.token>>}
  /\ UNCHANGED <<durable, root, owners, faults>>

\* reconcile_agent_wake_execution_fences: replaced and settled claims go.
ReconcileExecutionFences ==
  /\ refused' = {r \in refused : status[r[1]] \notin Terminal /\ token[r[1]] = r[2]}
  /\ refused' # refused
  /\ UNCHANGED <<durable, root, owners, segments, faults>>

\* A worker fails (storage error, panic, shutdown during preparation).
OwnerFails(o) ==
  /\ faults > 0
  /\ faults' = faults - 1
  /\ owners' = owners \ {o}
  /\ UNCHANGED <<durable, root, segments, refused>>

\* The host exits: process memory is lost and the root turn is reconciled.
HostCrash ==
  /\ faults > 0
  /\ faults' = faults - 1
  /\ owners' = {}
  /\ segments' = {}
  /\ refused' = {}
  /\ root' = "idle"
  /\ UNCHANGED durable

\* The worker that holds the wake's current claim and keeps renewing it.
Held(w) ==
  \E o \in owners : o.wake = w /\ o.token = token[w] /\ ~ClaimRefused(o)

TimePasses(w) ==
  /\ LeaseLive(w)
  /\ ttl' = [ttl EXCEPT ![w] = @ - 1]
  /\ UNCHANGED <<status, agent, cause, token, issued, trace, action, stopped,
                 created, root, owners, segments, refused>>

\* A lease that is renewed in time does not run out.
Tick(w) ==
  /\ Held(w) => ttl[w] > 1
  /\ TimePasses(w)
  /\ UNCHANGED faults

\* A worker is held up for longer than its lease.
Stall(w) ==
  /\ Held(w) /\ ttl[w] = 1
  /\ faults > 0
  /\ faults' = faults - 1
  /\ TimePasses(w)

-----------------------------------------------------------------------------
OwnerProgress(o) ==
  \/ AdmitTurn(o)
  \/ LaunchSegment(o)
  \/ SettleStartFailure(o)
  \/ SettleObserved(o)
  \/ ObservePendingApproval(o)
  \/ ObserveRunningAfterApproval(o)
  \/ MarkWaitingForApproval(o)
  \/ SettleOutcomeUnknown(o)
  \/ SettleTreeStopped(o)
  \/ OwnerRefused(o)

OwnerStep(o) ==
  \/ OwnerProgress(o)
  \/ RenewLease(o)
  \/ OwnerFails(o)

SegmentProgress(s) ==
  \/ StartRuntime(s)
  \/ StageWaitingUsage(s)
  \/ StorePendingAction(s)
  \/ \E outcome \in TerminalTraces : CommitTerminalTrace(s, outcome)
  \/ SegmentRefused(s)

SegmentStep(s) ==
  \/ SegmentProgress(s)
  \/ \E w \in Wakes : SatisfyBySourceMessage(s, w)

WakeStep(w) ==
  \/ ClaimNextDispatchable(w)
  \/ CancelStoppedWake(w)
  \/ \E outcome \in {"failed", "cancelled"} : ControlTerminalTrace(w, outcome)
  \/ FinishPendingAction(w)
  \/ ApprovePendingAction(w)
  \/ ApproveSkillScript(w)
  \/ ResumeContinuation(w)
  \/ Tick(w)
  \/ Stall(w)

AgentStep(a) ==
  \/ Schedule(a)
  \/ InterruptAgentExecution(a)

Next ==
  \/ BeginRootTurn
  \/ FinishRootTurn
  \/ BeginAgentTreeRunStop
  \/ RecoverAgentWakes
  \/ ReconcileExecutionFences
  \/ HostCrash
  \/ \E o \in owners : OwnerStep(o)
  \/ \E s \in segments : SegmentStep(s)
  \/ \E w \in Wakes : WakeStep(w)
  \/ \E a \in Agents : AgentStep(a)

Spec == Init /\ [][Next]_vars

\* The dispatcher's loop claims and recovers on every scan, its workers go on
\* until they settle or are refused, a runtime ends (its requests time out) and
\* clocks advance.  Nothing is assumed of users, schedulers and faults.
Fairness ==
  /\ WF_vars(RecoverAgentWakes)
  /\ WF_vars(\E w \in Wakes : ClaimNextDispatchable(w))
  /\ WF_vars(\E o \in owners : OwnerProgress(o))
  /\ WF_vars(\E s \in segments : SegmentProgress(s))
  /\ \A w \in Wakes : WF_vars(Tick(w))

LiveSpec == Spec /\ Fairness

-----------------------------------------------------------------------------
(* Safety.                                                                 *)

\* An agent's turns are serial: it never has two active wakes.
OneActiveWakePerAgent ==
  \A v, w \in Wakes :
    agent[v] = agent[w] /\ status[v] \in Active /\ status[w] \in Active => v = w

\* A conversation is busy exactly as long as an admitted wake owns its turn:
\* no settlement leaves a trace open, and no open trace loses its wake.
OpenTraceIsOwned ==
  \A w \in Wakes : trace[w] = "in_progress" => status[w] \in Admitted

\* A wake caused by a result is its child's one and only: it comes of a settled,
\* uninterrupted and unstopped run and goes to that run's direct parent.
ResultWakesParentOnce ==
  \A x \in Wakes : cause[x] # 0 =>
    /\ status[cause[x]] \in Settled \ {"interrupted"}
    /\ cause[x] \notin stopped
    /\ agent[x] = Parent[agent[cause[x]]]
    /\ \A y \in Wakes : cause[y] = cause[x] => y = x

\* No such result is lost between the settlement and the parent's queue.
NoResultIsLost ==
  \A w \in Wakes :
    /\ status[w] \in Settled \ {"interrupted"}
    /\ Parent[agent[w]] # Root
    /\ w \notin stopped
    => \E x \in Wakes : cause[x] = w

\* A child's result wakes its direct parent exactly once, although settlements
\* are retried by second owners and race the stop of the tree.
ParentWokenExactlyOnce == ResultWakesParentOnce /\ NoResultIsLost

\* Settlement reports the outcome the trace recorded, whichever owner settles:
\* only a wake that recovery had already given up (outcome_unknown) may differ
\* from what its turn committed in the meantime.
OutcomePreserved ==
  \A w \in Wakes :
    /\ status[w] = "completed" => trace[w] = "completed"
    /\ status[w] = "failed" => trace[w] \in {"none", "failed"}
    /\ status[w] = "interrupted" => trace[w] = "cancelled"
    /\ status[w] = "outcome_unknown" => trace[w] \in TerminalTraces
    /\ status[w] \in {"cancelled", "satisfied"} => trace[w] = "none"

\* Two workers never share a claim.
ClaimHasOneOwner ==
  \A o, p \in owners : o.wake = p.wake /\ o.token = p.token => o = p

\* At most one segment of a turn may run the model.
OneRuntimePerTurn ==
  \A s, t \in segments :
    s.wake = t.wake /\ ExecutionFence(s) /\ ExecutionFence(t) => s = t

\* "scheduling first is caught by the subsequent stop sweep, while stop first is
\* rejected here": once the user stopped the root run, no descendant can start.
StoppedTreeStaysStopped ==
  root = "stopped" =>
    \A w \in Wakes : /\ status[w] \notin {"queued", "claimed"}
                     /\ status[w] \in Admitted => w \in stopped

\* The promise is kept as long as no worker fell behind its lease: the sweep
\* and the fence cover every run that can still schedule.
StopCoversTree == faults = MaxFaults => StoppedTreeStaysStopped

-----------------------------------------------------------------------------
(* Action properties.                                                      *)

\* An admitted turn is never queued again, whatever its host did.
AdmittedNeverReplayed ==
  [][\A w \in Wakes : trace[w] # "none" =>
       status'[w] \notin {"queued", "claimed"} /\ trace'[w] # "none"]_vars

\* A terminal wake and a terminal trace are never rewritten.
TerminalIsFinal ==
  [][\A w \in Wakes :
       /\ status[w] \in Terminal => status'[w] = status[w]
       /\ trace[w] \in TerminalTraces => trace'[w] = trace[w]]_vars

\* A live claim is never taken away from its holder.
LiveClaimNotStolen ==
  [][\A w \in Wakes : status[w] \in Active /\ LeaseLive(w) =>
       token'[w] = token[w]]_vars

\* A run the user stopped can no longer complete.
StoppedNeverCompletes ==
  [][\A w \in stopped : trace[w] = "in_progress" =>
       trace'[w] # "completed" /\ status'[w] # "completed"]_vars

-----------------------------------------------------------------------------
(* The machine implements the tasks of AgentTasks.                         *)

\* A claim is invisible: the task is pending until its turn is admitted.
TaskOf(s) ==
  CASE s = "absent"                                    -> "none"
    [] s \in {"queued", "claimed"}                     -> "pending"
    [] s \in Admitted                                  -> "executing"
    [] s \in {"completed", "failed", "outcome_unknown"} -> "reported"
    [] s = "interrupted"                               -> "interrupted"
    [] OTHER                                           -> "dropped"

taskOf == [w \in Wakes |-> TaskOf(status[w])]

Tasks == INSTANCE AgentTasks WITH Ids <- Wakes, task <- taskOf

\* Through every claim, recovery, retry, approval, stop and crash a task is
\* begun at most once, alone among its agent's, and reported to the parent in
\* the very step that ends it.
ImplementsTasks == Tasks!Spec

-----------------------------------------------------------------------------
(* Liveness, of LiveSpec.                                                  *)

\* Whatever crashed, stalled or was refused, a wake that was queued is settled,
\* cancelled or satisfied in the end, unless it waits on an approval of its own
\* or of its agent's current turn.
EveryWakeSettles ==
  \A w \in Wakes :
    status[w] = "queued" ~>
      \/ status[w] \in Terminal
      \/ \E x \in Wakes : agent[x] = agent[w] /\ action[x] # "none"

=============================================================================
