-------------------------- MODULE AgentWakes_proofs --------------------------
(***************************************************************************)
(* Theorems about AgentWakes for every tree, lease and bound.              *)
(*                                                                         *)
(* One inductive invariant carries them.  The proof that Next preserves it *)
(* goes by what a transaction does to the wake rows, not by who runs it:   *)
(* each lemma below treats one such effect, and the step theorem assigns   *)
(* every action to its effect.                                             *)
(***************************************************************************)
EXTENDS AgentWakes, TLAPS

-----------------------------------------------------------------------------
(* The inductive invariant.                                                *)

\* Rows are numbered as they are inserted, and belong to child agents.
Existing ==
  \A w \in Wakes :
    /\ status[w] = "absent" <=> w > created
    /\ status[w] = "absent" => cause[w] = 0
    /\ status[w] # "absent" => agent[w] \in Agents

\* An active wake has a claim; a wake that was not admitted has no trace.
ClaimedAndTraced ==
  \A w \in Wakes :
    /\ status[w] \in Active => token[w] # 0
    /\ status[w] \in {"absent", "queued", "claimed"} => trace[w] = "none"

IInv ==
  /\ TypeOK
  /\ Existing
  /\ ClaimedAndTraced
  /\ OneActiveWakePerAgent
  /\ OpenTraceIsOwned
  /\ ParentWokenExactlyOnce

\* The rows the invariant is about.
rows == <<status, agent, cause, token, trace, stopped, created>>

USE BoundAssumption, TreeAssumption

-----------------------------------------------------------------------------
(* What each effect on the rows preserves.                                 *)

\* A result wake's cause is a wake of the table.
LEMMA CauseIsWake ==
  ASSUME TypeOK
  PROVE  \A x \in Wakes : cause[x] # 0 => cause[x] \in Wakes
  BY DEF TypeOK, Wakes

\* A step that leaves the rows alone (renewals, segments, ticks, crashes).
LEMMA RowsUnchanged ==
  ASSUME IInv, TypeOK', UNCHANGED rows
  PROVE  IInv'
  BY DEF IInv, rows, Existing, ClaimedAndTraced, OneActiveWakePerAgent,
         OpenTraceIsOwned, ParentWokenExactlyOnce, ResultWakesParentOnce,
         NoResultIsLost

\* A step between running and waiting_for_approval.
LEMMA AdmittedMoves ==
  ASSUME IInv, TypeOK', NEW w \in Wakes, NEW s \in Admitted,
         status[w] \in Admitted, status' = [status EXCEPT ![w] = s],
         UNCHANGED <<agent, cause, token, trace, stopped, created>>
  PROVE  IInv'
<1>1. \A x \in Wakes : /\ x # w => status'[x] = status[x]
                       /\ status'[w] \in Admitted
  BY DEF IInv, TypeOK
<1>2. Existing' /\ ClaimedAndTraced' /\ OneActiveWakePerAgent' /\ OpenTraceIsOwned'
  BY <1>1 DEF IInv, Existing, ClaimedAndTraced, OneActiveWakePerAgent,
              OpenTraceIsOwned, Admitted, Active
<1>3. ResultWakesParentOnce'
  BY <1>1, CauseIsWake
     DEF IInv, ParentWokenExactlyOnce, ResultWakesParentOnce, Admitted, Settled
<1>4. NoResultIsLost'
  BY <1>1 DEF IInv, ParentWokenExactlyOnce, NoResultIsLost, Admitted, Settled
<1>. QED  BY <1>2, <1>3, <1>4 DEF IInv, ParentWokenExactlyOnce

\* Wakes that were not admitted are cancelled or satisfied, and admitted runs
\* may be covered by a stop.
LEMMA UnadmittedEnd ==
  ASSUME IInv, TypeOK',
         \A w \in Wakes : \/ status'[w] = status[w]
                          \/ /\ status[w] \in {"queued", "claimed"}
                             /\ status'[w] \in {"cancelled", "satisfied"},
         \A w \in Wakes : \/ w \in stopped' <=> w \in stopped
                          \/ status[w] \in Admitted /\ w \in stopped',
         UNCHANGED <<agent, cause, token, trace, created>>
  PROVE  IInv'
<1>1. Existing' /\ ClaimedAndTraced' /\ OneActiveWakePerAgent' /\ OpenTraceIsOwned'
  BY DEF IInv, Existing, ClaimedAndTraced, OneActiveWakePerAgent,
         OpenTraceIsOwned, Admitted, Active
<1>2. ResultWakesParentOnce'
  BY CauseIsWake
     DEF IInv, ParentWokenExactlyOnce, ResultWakesParentOnce, Admitted, Settled
<1>3. NoResultIsLost'
  BY DEF IInv, ParentWokenExactlyOnce, NoResultIsLost, Admitted, Settled
<1>. QED  BY <1>1, <1>2, <1>3 DEF IInv, ParentWokenExactlyOnce

\* An admitted turn's open trace is closed.
LEMMA TraceCloses ==
  ASSUME IInv, TypeOK', NEW w \in Wakes, NEW t \in TerminalTraces,
         trace[w] = "in_progress", trace' = [trace EXCEPT ![w] = t],
         UNCHANGED <<status, agent, cause, token, stopped, created>>
  PROVE  IInv'
<1>1. status[w] \in Admitted
  BY DEF IInv, OpenTraceIsOwned
<1>2. Existing' /\ OneActiveWakePerAgent' /\ ParentWokenExactlyOnce'
  BY DEF IInv, Existing, OneActiveWakePerAgent, ParentWokenExactlyOnce,
         ResultWakesParentOnce, NoResultIsLost
<1>3. ClaimedAndTraced' /\ OpenTraceIsOwned'
  BY <1>1 DEF IInv, TypeOK, ClaimedAndTraced, OpenTraceIsOwned, TerminalTraces,
              Admitted
<1>. QED  BY <1>2, <1>3 DEF IInv

\* A task or a follow-up inserts a row.
LEMMA TaskInserted ==
  ASSUME IInv, TypeOK', NEW a \in Agents, EnqueueWake(a, 0, status),
         UNCHANGED <<token, trace, stopped>>
  PROVE  IInv'
<1>. DEFINE n == created + 1
<1>1. /\ n \in Wakes /\ created' = n
      /\ status[n] = "absent"
      /\ \A x \in Wakes : status'[x] = IF x = n THEN "queued" ELSE status[x]
      /\ \A x \in Wakes : agent'[x] = IF x = n THEN a ELSE agent[x]
      /\ \A x \in Wakes : cause'[x] = IF x = n THEN 0 ELSE cause[x]
  BY DEF IInv, TypeOK, Existing, EnqueueWake, Wakes
<1>. HIDE DEF n
<1>2. Existing'
  <2>1. \A x \in Wakes : x > created' <=> x > created /\ x # n
    BY DEF IInv, TypeOK, EnqueueWake, Wakes, n
  <2>. QED  BY <1>1, <2>1 DEF IInv, Existing
<1>3. ClaimedAndTraced' /\ OneActiveWakePerAgent' /\ OpenTraceIsOwned'
  BY <1>1 DEF IInv, ClaimedAndTraced, OneActiveWakePerAgent, OpenTraceIsOwned,
              Active, Admitted
<1>4. \A x \in Wakes : cause'[x] = cause[x]
  BY <1>1 DEF IInv, Existing
<1>5. \A x \in Wakes : cause[x] # 0 => cause[x] \in Wakes \ {n} /\ x # n
  BY <1>1, CauseIsWake
     DEF IInv, Existing, ParentWokenExactlyOnce, ResultWakesParentOnce, Settled
<1>6. ResultWakesParentOnce'
  BY <1>1, <1>4, <1>5 DEF IInv, ParentWokenExactlyOnce, ResultWakesParentOnce
<1>7. NoResultIsLost'
  BY <1>1, <1>4 DEF IInv, ParentWokenExactlyOnce, NoResultIsLost, Settled
<1>. QED  BY <1>2, <1>3, <1>6, <1>7 DEF IInv, ParentWokenExactlyOnce

\* A wake is settled: its trace closes with it and its parent is woken.
LEMMA TurnFinishes ==
  ASSUME IInv, TypeOK', NEW w \in Wakes, NEW outcome \in Settled,
         FinishAgentTurn(w, outcome), UNCHANGED <<token, stopped>>
  PROVE  IInv'
<1>. DEFINE n == created + 1
<1>1. status[w] \in Active /\ w <= created /\ agent[w] \in Agents
  <2>1. CanTransitionTo(status[w], outcome)
    BY DEF FinishAgentTurn
  <2>2. status[w] \in Active
    BY <2>1 DEF CanTransitionTo, Active, Settled
  <2>3. status[w] # "absent"
    BY <2>2 DEF Active
  <2>4. w <= created /\ agent[w] \in Agents
    BY <2>3 DEF IInv, TypeOK, Existing, Wakes
  <2>. QED  BY <2>2, <2>4
<1>2. \A x \in Wakes : x # w => trace'[x] = trace[x]
  BY DEF IInv, TypeOK, FinishAgentTurn
<1>3. trace'[w] # "in_progress"
  BY DEF IInv, TypeOK, FinishAgentTurn, TerminalizedTrace
<1>4. CASE ~WakesParent(w, outcome)
  <2>1. /\ \A x \in Wakes : status'[x] = IF x = w THEN outcome ELSE status[x]
        /\ UNCHANGED <<created, agent, cause>>
    BY <1>4 DEF IInv, TypeOK, FinishAgentTurn
  <2>2. Existing' /\ ClaimedAndTraced' /\ OneActiveWakePerAgent' /\ OpenTraceIsOwned'
    BY <1>1, <1>2, <1>3, <2>1
       DEF IInv, Existing, ClaimedAndTraced, OneActiveWakePerAgent,
           OpenTraceIsOwned, Active, Settled
  <2>3. ResultWakesParentOnce'
    BY <1>1, <2>1, CauseIsWake
       DEF IInv, ParentWokenExactlyOnce, ResultWakesParentOnce, Active, Settled
  <2>4. NoResultIsLost'
    BY <1>4, <2>1 DEF IInv, ParentWokenExactlyOnce, NoResultIsLost, WakesParent
  <2>. QED  BY <2>2, <2>3, <2>4 DEF IInv, ParentWokenExactlyOnce
<1>5. CASE WakesParent(w, outcome)
  <2>1. /\ n \in Wakes /\ created' = n /\ n # w
        /\ status[n] = "absent" /\ cause[n] = 0
        /\ Parent[agent[w]] \in Agents
        /\ \A x \in Wakes : status'[x] = IF x = n THEN "queued"
                                         ELSE IF x = w THEN outcome ELSE status[x]
        /\ \A x \in Wakes : agent'[x] = IF x = n THEN Parent[agent[w]] ELSE agent[x]
        /\ \A x \in Wakes : cause'[x] = IF x = n THEN w ELSE cause[x]
    <3>1. EnqueueWake(Parent[agent[w]], w, [status EXCEPT ![w] = outcome])
      BY <1>5 DEF FinishAgentTurn
    <3>2. n \in Wakes /\ created' = n /\ n # w /\ n > created
      BY <1>1, <3>1 DEF IInv, TypeOK, EnqueueWake, Wakes
    <3>3. status[n] = "absent" /\ cause[n] = 0
      BY <3>2 DEF IInv, Existing
    <3>4. Parent[agent[w]] \in Agents
      BY <1>1, <1>5 DEF WakesParent
    <3>. HIDE DEF n
    <3>. QED  BY <3>1, <3>2, <3>3, <3>4 DEF IInv, TypeOK, EnqueueWake, n
  <2>. HIDE DEF n
  <2>2. Existing'
    <3>1. created' = n
      BY <2>1
    <3>2. \A x \in Wakes : x > created' <=> x > created /\ x # n
      BY <3>1 DEF IInv, TypeOK, Wakes, n
    <3>. QED  BY <1>1, <2>1, <3>2 DEF IInv, Existing, Settled, Active
  <2>3. ClaimedAndTraced' /\ OneActiveWakePerAgent' /\ OpenTraceIsOwned'
    BY <1>1, <1>2, <1>3, <2>1
       DEF IInv, ClaimedAndTraced, OneActiveWakePerAgent, OpenTraceIsOwned,
           Active, Admitted, Settled
  <2>4. \A x \in Wakes : cause[x] # 0 => cause[x] \in Wakes \ {n, w} /\ x # n
    BY <1>1, <2>1, CauseIsWake
       DEF IInv, Existing, ParentWokenExactlyOnce, ResultWakesParentOnce, Settled,
           Active
  <2>5. w # 0 /\ outcome \in Settled \ {"interrupted"} /\ w \notin stopped
    BY <1>5 DEF WakesParent, Wakes
  <2>6. ResultWakesParentOnce'
    <3>1. \A x \in Wakes \ {n} : cause[x] # 0 =>
            /\ status'[cause[x]] = status[cause[x]]
            /\ agent'[cause[x]] = agent[cause[x]]
            /\ cause'[x] = cause[x] /\ agent'[x] = agent[x]
      BY <2>1, <2>4
    <3>2. \A x \in Wakes : cause'[x] = w <=> x = n
      BY <2>1, <2>4, <2>5
    <3>. QED  BY <2>1, <2>4, <2>5, <3>1, <3>2
                 DEF IInv, ParentWokenExactlyOnce, ResultWakesParentOnce
  <2>7. NoResultIsLost'
    <3>1. SUFFICES ASSUME NEW v \in Wakes, v # w, v # n,
                          status[v] \in Settled \ {"interrupted"},
                          Parent[agent[v]] # Root, v \notin stopped
                   PROVE  \E x \in Wakes : cause'[x] = v
      BY <2>1 DEF NoResultIsLost, Settled
    <3>2. PICK x \in Wakes : cause[x] = v
      BY <3>1 DEF IInv, ParentWokenExactlyOnce, NoResultIsLost
    <3>. QED  BY <2>1, <2>4, <3>2 DEF Wakes
  <2>. QED  BY <2>2, <2>3, <2>6, <2>7 DEF IInv, ParentWokenExactlyOnce
<1>. QED  BY <1>4, <1>5

\* The dispatcher claims a queued wake of an agent without active wakes.
LEMMA WakeClaimed ==
  ASSUME IInv, TypeOK', NEW w \in Wakes, ClaimNextDispatchable(w)
  PROVE  IInv'
<1>1. /\ status[w] = "queued"
      /\ \A x \in Wakes : agent[x] = agent[w] => status[x] \notin Active
      /\ \A x \in Wakes : status'[x] = IF x = w THEN "claimed" ELSE status[x]
      /\ \A x \in Wakes : x # w => token'[x] = token[x]
      /\ token'[w] # 0
      /\ UNCHANGED <<agent, cause, trace, stopped, created>>
  BY DEF IInv, TypeOK, ClaimNextDispatchable, Dispatchable
<1>2. Existing' /\ ClaimedAndTraced' /\ OneActiveWakePerAgent' /\ OpenTraceIsOwned'
  BY <1>1 DEF IInv, Existing, ClaimedAndTraced, OneActiveWakePerAgent,
              OpenTraceIsOwned, Active, Admitted
<1>3. ResultWakesParentOnce'
  BY <1>1, CauseIsWake
     DEF IInv, ParentWokenExactlyOnce, ResultWakesParentOnce, Settled
<1>4. NoResultIsLost'
  BY <1>1 DEF IInv, ParentWokenExactlyOnce, NoResultIsLost, Settled
<1>. QED  BY <1>2, <1>3, <1>4 DEF IInv, ParentWokenExactlyOnce

\* Admission moves the wake and opens its trace in one transaction.
LEMMA TurnAdmitted ==
  ASSUME IInv, TypeOK', NEW o \in owners, AdmitTurn(o)
  PROVE  IInv'
<1>. DEFINE w == o.wake
<1>1. w \in Wakes
  BY DEF IInv, TypeOK, Owners
<1>2. /\ status[w] = "claimed"
      /\ \A x \in Wakes : status'[x] = IF x = w THEN "running" ELSE status[x]
      /\ \A x \in Wakes : trace'[x] = IF x = w THEN "in_progress" ELSE trace[x]
      /\ UNCHANGED <<agent, cause, token, stopped, created>>
  BY <1>1 DEF IInv, TypeOK, AdmitTurn
<1>. HIDE DEF w
<1>3. Existing' /\ ClaimedAndTraced' /\ OneActiveWakePerAgent' /\ OpenTraceIsOwned'
  BY <1>1, <1>2 DEF IInv, Existing, ClaimedAndTraced, OneActiveWakePerAgent,
                    OpenTraceIsOwned, Active, Admitted
<1>4. ResultWakesParentOnce'
  BY <1>1, <1>2, CauseIsWake
     DEF IInv, ParentWokenExactlyOnce, ResultWakesParentOnce, Settled
<1>5. NoResultIsLost'
  BY <1>1, <1>2 DEF IInv, ParentWokenExactlyOnce, NoResultIsLost, Settled
<1>. QED  BY <1>3, <1>4, <1>5 DEF IInv, ParentWokenExactlyOnce

\* Recovery requeues what was only claimed and renames the claims of the rest.
LEMMA LeasesRecovered ==
  ASSUME IInv, TypeOK', RecoverAgentWakes
  PROVE  IInv'
<1>1. /\ \A w \in Wakes : status'[w] = IF Requeued(w) THEN "queued" ELSE status[w]
      /\ \A w \in Wakes : status'[w] \in Active => token'[w] # 0
      /\ \A w \in Wakes : Requeued(w) => status[w] = "claimed"
      /\ UNCHANGED <<agent, cause, trace, stopped, created>>
  <2>1. \A w \in Wakes : status'[w] = IF Requeued(w) THEN "queued" ELSE status[w]
    BY DEF RecoverAgentWakes
  <2>2. \A w \in Wakes : ~Requeued(w) => token'[w] \in {issued[w] + 1, token[w]}
    BY DEF RecoverAgentWakes
  <2>3. \A w \in Wakes : status'[w] \in Active => ~Requeued(w) /\ status[w] \in Active
    BY <2>1 DEF Active
  <2>4. \A w \in Wakes : issued[w] + 1 # 0
    BY DEF IInv, TypeOK
  <2>. QED  BY <2>1, <2>2, <2>3, <2>4
               DEF IInv, ClaimedAndTraced, RecoverAgentWakes, Requeued
<1>2. Existing' /\ ClaimedAndTraced' /\ OneActiveWakePerAgent' /\ OpenTraceIsOwned'
  BY <1>1 DEF IInv, Existing, ClaimedAndTraced, OneActiveWakePerAgent,
              OpenTraceIsOwned, Active, Admitted
<1>3. ResultWakesParentOnce'
  BY <1>1, CauseIsWake
     DEF IInv, ParentWokenExactlyOnce, ResultWakesParentOnce, Settled
<1>4. NoResultIsLost'
  BY <1>1 DEF IInv, ParentWokenExactlyOnce, NoResultIsLost, Settled
<1>. QED  BY <1>2, <1>3, <1>4 DEF IInv, ParentWokenExactlyOnce

-----------------------------------------------------------------------------
(* Every step preserves the invariant.                                     *)

\* A worker's record keeps its type when its phase moves.
LEMMA MoveType ==
  ASSUME TypeOK, NEW o \in owners, NEW phase \in Phases,
         NEW expected \in Admitted \cup {"none"}, Move(o, phase, expected)
  PROVE  owners' \in SUBSET Owners
<1>1. o \in Owners
  BY DEF TypeOK
<1>2. [o EXCEPT !.phase = phase, !.expected = expected] \in Owners
  BY <1>1 DEF Owners
<1>. QED  BY <1>2 DEF TypeOK, Move

\* FinishAgentTurn is typed; what its callers write besides is left to them.
LEMMA FinishType ==
  ASSUME IInv, NEW w \in Wakes, NEW outcome \in Settled,
         FinishAgentTurn(w, outcome)
  PROVE  /\ status' \in [Wakes -> Statuses]
         /\ agent' \in [Wakes -> Agents \cup {Root}]
         /\ cause' \in [Wakes -> 0..MaxWakes]
         /\ ttl' \in [Wakes -> 0..Lease]
         /\ trace' \in [Wakes -> Traces]
         /\ created' \in 0..MaxWakes
<1>1. trace' \in [Wakes -> Traces] /\ ttl' \in [Wakes -> 0..Lease]
  BY DEF IInv, TypeOK, FinishAgentTurn, TerminalizedTrace, Traces, TerminalTraces
<1>2. CanTransitionTo(status[w], outcome)
  BY DEF FinishAgentTurn
<1>3. agent[w] \in Agents
  BY <1>2 DEF IInv, Existing, CanTransitionTo
<1>4. Parent[agent[w]] \in Agents \cup {Root} /\ w \in 0..MaxWakes
  BY <1>3 DEF Wakes
<1>5. /\ status' \in [Wakes -> Statuses]
      /\ agent' \in [Wakes -> Agents \cup {Root}]
      /\ cause' \in [Wakes -> 0..MaxWakes]
      /\ created' \in 0..MaxWakes
  <2>1. [status EXCEPT ![w] = outcome] \in [Wakes -> Statuses]
    BY DEF IInv, TypeOK, Statuses, Terminal
  <2>2. CASE UNCHANGED <<created, agent, cause>> /\ status' = [status EXCEPT ![w] = outcome]
    BY <2>1, <2>2 DEF IInv, TypeOK
  <2>3. CASE EnqueueWake(Parent[agent[w]], w, [status EXCEPT ![w] = outcome])
    <3>1. created' \in 0..MaxWakes
      BY <2>3 DEF IInv, TypeOK, EnqueueWake
    <3>2. status' \in [Wakes -> Statuses]
      BY <2>1, <2>3 DEF EnqueueWake, Statuses
    <3>3. agent' \in [Wakes -> Agents \cup {Root}]
      BY <1>4, <2>3 DEF IInv, TypeOK, EnqueueWake
    <3>4. cause' \in [Wakes -> 0..MaxWakes]
      BY <1>4, <2>3 DEF IInv, TypeOK, EnqueueWake
    <3>. QED  BY <3>1, <3>2, <3>3, <3>4
  <2>. QED  BY <2>2, <2>3 DEF FinishAgentTurn
<1>. QED  BY <1>1, <1>5

\* A dispatcher worker's step.
LEMMA OwnerStepInv ==
  ASSUME IInv, NEW o \in owners, OwnerStep(o)
  PROVE  IInv'
<1>. USE DEF IInv
<1>0. o \in Owners /\ o.wake \in Wakes /\ o.token \in Tokens
  BY DEF TypeOK, Owners
<1>1. CASE RenewLease(o)
  <2>1. TypeOK'
    BY <1>0, <1>1 DEF TypeOK, RenewLease
  <2>. QED  BY <1>1, <2>1, RowsUnchanged DEF RenewLease, rows
<1>2. CASE AdmitTurn(o)
  <2>1. owners' \in SUBSET Owners
    BY <1>2, MoveType DEF AdmitTurn, Phases
  <2>2. TypeOK'
    BY <1>0, <1>2, <2>1 DEF TypeOK, AdmitTurn, Statuses, Active, Traces
  <2>. QED  BY <1>2, <2>2, TurnAdmitted
<1>3. CASE LaunchSegment(o)
  <2>1. owners' \in SUBSET Owners
    BY <1>3, MoveType DEF LaunchSegment, Phases
  <2>2. segments' \in SUBSET Segments
    BY <1>0, <1>3 DEF TypeOK, LaunchSegment, Segments
  <2>3. TypeOK'
    BY <1>3, <2>1, <2>2 DEF TypeOK, LaunchSegment, durable
  <2>. QED  BY <1>3, <2>3, RowsUnchanged DEF LaunchSegment, rows, durable
<1>4. CASE SettleStartFailure(o)
  <2>1. FinishAgentTurn(o.wake, "failed") /\ "failed" \in Settled
    BY <1>4 DEF SettleStartFailure, SettleOwned, Settled
  <2>2. TypeOK'
    BY <1>0, <1>4, <2>1, FinishType DEF TypeOK, SettleStartFailure
  <2>. QED  BY <1>0, <1>4, <2>1, <2>2, TurnFinishes DEF SettleStartFailure
<1>5. CASE SettleObserved(o)
  <2>. DEFINE e == OutcomeOf(trace[o.wake])
  <2>1. FinishAgentTurn(o.wake, e) /\ e \in Settled
    BY <1>5 DEF SettleObserved, SettleOwned, Settled, OutcomeOf
  <2>. HIDE DEF e
  <2>2. TypeOK'
    BY <1>0, <1>5, <2>1, FinishType DEF TypeOK, SettleObserved
  <2>. QED  BY <1>0, <1>5, <2>1, <2>2, TurnFinishes DEF SettleObserved
<1>6. CASE ObservePendingApproval(o)
  <2>1. owners' \in SUBSET Owners
    BY <1>6, MoveType DEF ObservePendingApproval, Phases
  <2>2. TypeOK'
    BY <1>6, <2>1 DEF TypeOK, ObservePendingApproval, durable
  <2>. QED  BY <1>6, <2>2, RowsUnchanged DEF ObservePendingApproval, rows, durable
<1>7. CASE ObserveRunningAfterApproval(o)
  <2>1. owners' \in SUBSET Owners
    BY <1>7, MoveType DEF ObserveRunningAfterApproval, Phases
  <2>2. TypeOK'
    BY <1>7, <2>1 DEF TypeOK, ObserveRunningAfterApproval, durable
  <2>. QED  BY <1>7, <2>2, RowsUnchanged
               DEF ObserveRunningAfterApproval, rows, durable
<1>8. CASE MarkWaitingForApproval(o)
  <2>1. owners' \in SUBSET Owners
    BY <1>8, MoveType DEF MarkWaitingForApproval, Phases, Admitted
  <2>2. TypeOK'
    BY <1>0, <1>8, <2>1 DEF TypeOK, MarkWaitingForApproval, Statuses, Active
  <2>3. CASE UNCHANGED status
    BY <1>8, <2>2, <2>3, RowsUnchanged DEF MarkWaitingForApproval, rows
  <2>4. CASE status' = [status EXCEPT ![o.wake] = "waiting_for_approval"]
    BY <1>0, <1>8, <2>2, <2>4, AdmittedMoves DEF MarkWaitingForApproval, Admitted
  <2>. QED  BY <1>8, <2>3, <2>4 DEF MarkWaitingForApproval
<1>9. CASE SettleOutcomeUnknown(o)
  <2>1. FinishAgentTurn(o.wake, "outcome_unknown") /\ "outcome_unknown" \in Settled
    BY <1>9 DEF SettleOutcomeUnknown, SettleOwned, Settled
  <2>2. TypeOK'
    BY <1>0, <1>9, <2>1, FinishType DEF TypeOK, SettleOutcomeUnknown
  <2>. QED  BY <1>0, <1>9, <2>1, <2>2, TurnFinishes DEF SettleOutcomeUnknown
<1>10. CASE SettleTreeStopped(o)
  <2>1. owners' \in SUBSET Owners
    <3>1. CASE owners' = owners \ {o}
      BY <3>1 DEF TypeOK
    <3>2. CASE \E p \in {"waiting", "observe"} : Move(o, p, "none")
      BY <3>2, MoveType DEF Phases
    <3>3. CASE Move(o, "outcome_unknown", o.expected)
      BY <1>0, <3>3, MoveType DEF Phases, Owners
    <3>. QED  BY <1>10, <3>1, <3>2, <3>3 DEF SettleTreeStopped
  <2>2. CASE FinishAgentTurn(o.wake, "interrupted")
    <3>1. TypeOK'
      BY <1>0, <1>10, <2>1, <2>2, FinishType DEF TypeOK, SettleTreeStopped, Settled
    <3>. QED  BY <1>0, <1>10, <2>2, <3>1, TurnFinishes DEF SettleTreeStopped, Settled
  <2>3. CASE UNCHANGED <<status, agent, cause, ttl, trace, created>>
    <3>1. TypeOK'
      BY <1>10, <2>1, <2>3 DEF TypeOK, SettleTreeStopped
    <3>. QED  BY <1>10, <2>3, <3>1, RowsUnchanged DEF SettleTreeStopped, rows
  <2>. QED  BY <1>10, <2>2, <2>3 DEF SettleTreeStopped
<1>11. CASE OwnerRefused(o)
  <2>1. TypeOK'
    BY <1>11 DEF TypeOK, OwnerRefused, durable
  <2>. QED  BY <1>11, <2>1, RowsUnchanged DEF OwnerRefused, rows, durable
<1>12. CASE OwnerFails(o)
  <2>1. TypeOK'
    BY <1>12 DEF TypeOK, OwnerFails, durable
  <2>. QED  BY <1>12, <2>1, RowsUnchanged DEF OwnerFails, rows, durable
<1>. QED  BY <1>1, <1>2, <1>3, <1>4, <1>5, <1>6, <1>7, <1>8, <1>9, <1>10, <1>11,
             <1>12 DEF OwnerStep, OwnerProgress

\* A runtime segment's step.
LEMMA SegmentStepInv ==
  ASSUME IInv, NEW s \in segments, SegmentStep(s)
  PROVE  IInv'
<1>. USE DEF IInv
<1>0. s \in Segments /\ s.wake \in Wakes /\ s.token \in Tokens
  BY DEF TypeOK, Segments
<1>1. CASE StartRuntime(s)
  <2>1. [s EXCEPT !.phase = "runtime"] \in Segments
    BY <1>0 DEF Segments
  <2>2. TypeOK'
    BY <1>1, <2>1 DEF TypeOK, StartRuntime, durable
  <2>. QED  BY <1>1, <2>2, RowsUnchanged DEF StartRuntime, rows, durable
<1>2. CASE StorePendingAction(s)
  <2>1. TypeOK'
    BY <1>0, <1>2 DEF TypeOK, StorePendingAction, Actions
  <2>. QED  BY <1>2, <2>1, RowsUnchanged DEF StorePendingAction, rows
<1>3. ASSUME NEW t \in TerminalTraces, CommitTerminalTrace(s, t)
      PROVE  IInv'
  <2>1. TypeOK'
    BY <1>0, <1>3 DEF TypeOK, CommitTerminalTrace, Traces
  <2>. QED  BY <1>0, <1>3, <2>1, TraceCloses DEF CommitTerminalTrace, TerminalFence
<1>4. CASE SegmentRefused(s)
  <2>1. TypeOK'
    BY <1>0, <1>4 DEF TypeOK, SegmentRefused, durable
  <2>. QED  BY <1>4, <2>1, RowsUnchanged DEF SegmentRefused, rows, durable
<1>5. ASSUME NEW w \in Wakes, SatisfyBySourceMessage(s, w)
      PROVE  IInv'
  <2>1. TypeOK'
    BY <1>5 DEF TypeOK, SatisfyBySourceMessage, Statuses, Terminal
  <2>2. \A x \in Wakes : \/ status'[x] = status[x]
                         \/ status[x] = "queued" /\ status'[x] = "satisfied"
    BY <1>5 DEF TypeOK, SatisfyBySourceMessage
  <2>. QED  BY <1>5, <2>1, <2>2, UnadmittedEnd DEF SatisfyBySourceMessage
<1>6. CASE StageWaitingUsage(s)
  <2>1. [s EXCEPT !.phase = "asking"] \in Segments
    BY <1>0 DEF Segments
  <2>2. TypeOK'
    BY <1>6, <2>1 DEF TypeOK, StageWaitingUsage, durable
  <2>. QED  BY <1>6, <2>2, RowsUnchanged DEF StageWaitingUsage, rows, durable
<1>. QED  BY <1>1, <1>2, <1>3, <1>4, <1>5, <1>6 DEF SegmentStep, SegmentProgress

\* A step of the dispatcher's scan, of an approval or of time on one wake.
LEMMA WakeStepInv ==
  ASSUME IInv, NEW w \in Wakes, WakeStep(w)
  PROVE  IInv'
<1>. USE DEF IInv
<1>1. CASE ClaimNextDispatchable(w)
  <2>1. issued[w] + 1 \in Tokens
    BY <1>1 DEF TypeOK, ClaimNextDispatchable, Tokens
  <2>2. owners' \in SUBSET Owners
    BY <1>1, <2>1 DEF TypeOK, ClaimNextDispatchable, Owners, Phases
  <2>3. TypeOK'
    BY <1>1, <2>1, <2>2 DEF TypeOK, ClaimNextDispatchable, Statuses, Active, Tokens
  <2>. QED  BY <1>1, <2>3, WakeClaimed
<1>2. CASE CancelStoppedWake(w)
  <2>1. FinishAgentTurn(w, "interrupted") /\ "interrupted" \in Settled
    BY <1>2 DEF CancelStoppedWake, Settled
  <2>2. TypeOK'
    BY <1>2, <2>1, FinishType DEF TypeOK, CancelStoppedWake
  <2>. QED  BY <1>2, <2>1, <2>2, TurnFinishes DEF CancelStoppedWake
<1>3. ASSUME NEW t \in {"failed", "cancelled"}, ControlTerminalTrace(w, t)
      PROVE  IInv'
  <2>1. TypeOK'
    BY <1>3 DEF TypeOK, ControlTerminalTrace, Traces, TerminalTraces
  <2>. QED  BY <1>3, <2>1, TraceCloses DEF ControlTerminalTrace, TerminalTraces
<1>4. CASE FinishPendingAction(w)
  <2>1. TypeOK'
    BY <1>4 DEF TypeOK, FinishPendingAction, Actions
  <2>. QED  BY <1>4, <2>1, RowsUnchanged DEF FinishPendingAction, rows
<1>5. CASE ApprovePendingAction(w)
  <2>1. TypeOK'
    BY <1>5 DEF TypeOK, ApprovePendingAction, Actions
  <2>. QED  BY <1>5, <2>1, RowsUnchanged DEF ApprovePendingAction, rows
<1>6. CASE ApproveSkillScript(w)
  <2>1. TypeOK'
    BY <1>6 DEF TypeOK, ApproveSkillScript, Actions, Statuses, Active
  <2>. QED  BY <1>6, <2>1, AdmittedMoves DEF ApproveSkillScript, Admitted
<1>7. CASE ResumeContinuation(w)
  <2>1. token[w] \in Tokens
    BY <1>7 DEF TypeOK, ClaimedAndTraced, ResumeContinuation, Tokens, Admitted, Active
  <2>2. segments' \in SUBSET Segments
    BY <1>7, <2>1 DEF TypeOK, ResumeContinuation, Segments
  <2>3. TypeOK'
    BY <1>7, <2>2 DEF TypeOK, ResumeContinuation, Actions, Statuses, Active
  <2>. QED  BY <1>7, <2>3, AdmittedMoves DEF ResumeContinuation, Admitted
<1>8. CASE Tick(w) \/ Stall(w)
  <2>1. ttl' \in [Wakes -> 0..Lease]
    BY <1>8 DEF TypeOK, Tick, Stall, TimePasses, LeaseLive
  <2>2. faults' \in 0..MaxFaults
    BY <1>8 DEF TypeOK, Tick, Stall
  <2>3. TypeOK'
    BY <1>8, <2>1, <2>2 DEF TypeOK, Tick, Stall, TimePasses
  <2>. QED  BY <1>8, <2>3, RowsUnchanged DEF Tick, Stall, TimePasses, rows
<1>. QED  BY <1>1, <1>2, <1>3, <1>4, <1>5, <1>6, <1>7, <1>8 DEF WakeStep

\* Scheduling and interrupting an agent.
LEMMA AgentStepInv ==
  ASSUME IInv, NEW a \in Agents, AgentStep(a)
  PROVE  IInv'
<1>. USE DEF IInv
<1>1. CASE Schedule(a)
  <2>1. EnqueueWake(a, 0, status)
    BY <1>1 DEF Schedule
  <2>2. created' \in 0..MaxWakes
    BY <2>1 DEF TypeOK, EnqueueWake
  <2>3. TypeOK'
    <3>1. 0 \in 0..MaxWakes
      OBVIOUS
    <3>2. status' \in [Wakes -> Statuses]
      BY <2>1 DEF TypeOK, EnqueueWake, Statuses
    <3>3. agent' \in [Wakes -> Agents \cup {Root}]
      BY <2>1 DEF TypeOK, EnqueueWake
    <3>4. cause' \in [Wakes -> 0..MaxWakes]
      BY <2>1, <3>1 DEF TypeOK, EnqueueWake
    <3>. QED  BY <1>1, <2>2, <3>2, <3>3, <3>4 DEF TypeOK, Schedule
  <2>. QED  BY <1>1, <2>1, <2>3, TaskInserted DEF Schedule
<1>2. CASE InterruptAgentExecution(a)
  <2>1. PICK w \in InterruptTarget(a) :
          /\ status' = [status EXCEPT ![w] = "cancelled"]
          /\ ttl' = [ttl EXCEPT ![w] = 0]
    BY <1>2 DEF InterruptAgentExecution
  <2>2. w \in Wakes /\ status[w] \in {"queued", "claimed"}
    BY <2>1 DEF InterruptTarget
  <2>3. TypeOK'
    BY <1>2, <2>1, <2>2 DEF TypeOK, InterruptAgentExecution, Statuses, Terminal
  <2>4. \A x \in Wakes : \/ status'[x] = status[x]
                         \/ x = w /\ status'[x] = "cancelled"
    BY <2>1, <2>2 DEF TypeOK
  <2>. QED  BY <1>2, <2>2, <2>3, <2>4, UnadmittedEnd DEF InterruptAgentExecution
<1>. QED  BY <1>1, <1>2 DEF AgentStep

\* The empty table satisfies the invariant.
LEMMA InitInv == Init => IInv
<1>1. Init => TypeOK
  BY DEF Init, TypeOK, Statuses, Traces, Actions
<1>2. Init => Existing
  BY DEF Init, Existing, Wakes
<1>3. Init => ClaimedAndTraced /\ OneActiveWakePerAgent /\ OpenTraceIsOwned
  BY DEF Init, ClaimedAndTraced, OneActiveWakePerAgent, OpenTraceIsOwned, Active
<1>4. Init => ParentWokenExactlyOnce
  BY DEF Init, ParentWokenExactlyOnce, ResultWakesParentOnce, NoResultIsLost, Settled
<1>. QED  BY <1>1, <1>2, <1>3, <1>4 DEF IInv

\* Every transaction and every step of a process keeps the invariant.
LEMMA NextInv == IInv /\ [Next]_vars => IInv'
<1>. SUFFICES ASSUME IInv, [Next]_vars PROVE IInv'
  OBVIOUS
<1>1. CASE BeginRootTurn \/ FinishRootTurn
  <2>1. TypeOK'
    BY <1>1 DEF IInv, TypeOK, BeginRootTurn, FinishRootTurn, durable
  <2>. QED  BY <1>1, <2>1, RowsUnchanged DEF BeginRootTurn, FinishRootTurn, rows, durable
<1>2. CASE BeginAgentTreeRunStop
  <2>1. TypeOK'
    BY <1>2 DEF IInv, TypeOK, BeginAgentTreeRunStop, Statuses, Terminal
  <2>2. \A w \in Wakes : \/ status'[w] = status[w]
                         \/ /\ status[w] \in {"queued", "claimed"}
                            /\ status'[w] = "cancelled"
    BY <1>2 DEF BeginAgentTreeRunStop
  <2>3. \A w \in Wakes : \/ w \in stopped' <=> w \in stopped
                         \/ status[w] \in Admitted /\ w \in stopped'
    BY <1>2 DEF BeginAgentTreeRunStop
  <2>. QED  BY <1>2, <2>1, <2>2, <2>3, UnadmittedEnd DEF BeginAgentTreeRunStop
<1>3. CASE RecoverAgentWakes
  <2>. DEFINE R == {w \in Wakes : Expired(w) /\ ~Requeued(w)}
  <2>1. \A w \in R : issued[w] + 1 \in Tokens
    BY <1>3 DEF IInv, TypeOK, RecoverAgentWakes, Tokens
  <2>2. \A w \in R : RecoveredOwner(w) \in Owners
    <3>. TAKE w \in R
    <3>1. status[w] \in Admitted
      BY DEF Requeued, Expired, Active, Admitted
    <3>2. RecoveryPhase(w) \in Phases
      BY DEF RecoveryPhase, Phases
    <3>. QED  BY <2>1, <3>1, <3>2 DEF RecoveredOwner, Owners, Phases
  <2>3. owners' \in SUBSET Owners
    BY <1>3, <2>2 DEF IInv, TypeOK, RecoverAgentWakes
  <2>4. /\ status' \in [Wakes -> Statuses]
        /\ token' \in [Wakes -> 0..MaxClaims]
        /\ issued' \in [Wakes -> 0..MaxClaims]
        /\ ttl' \in [Wakes -> 0..Lease]
    BY <1>3, <2>1 DEF IInv, TypeOK, RecoverAgentWakes, Statuses, Tokens
  <2>5. TypeOK'
    BY <1>3, <2>3, <2>4 DEF IInv, TypeOK, RecoverAgentWakes
  <2>. QED  BY <1>3, <2>5, LeasesRecovered
<1>4. CASE ReconcileExecutionFences
  <2>1. TypeOK'
    BY <1>4 DEF IInv, TypeOK, ReconcileExecutionFences, durable
  <2>. QED  BY <1>4, <2>1, RowsUnchanged DEF ReconcileExecutionFences, rows, durable
<1>5. CASE HostCrash
  <2>1. TypeOK'
    BY <1>5 DEF IInv, TypeOK, HostCrash, durable
  <2>. QED  BY <1>5, <2>1, RowsUnchanged DEF HostCrash, rows, durable
<1>6. CASE UNCHANGED vars
  <2>1. TypeOK'
    BY <1>6 DEF IInv, TypeOK, vars
  <2>. QED  BY <1>6, <2>1, RowsUnchanged DEF vars, rows
<1>. QED  BY <1>1, <1>2, <1>3, <1>4, <1>5, <1>6, OwnerStepInv, SegmentStepInv,
             WakeStepInv, AgentStepInv DEF Next

\* The invariant holds of every reachable state.
THEOREM Invariance == Spec => []IInv
  BY InitInv, NextInv, PTL DEF Spec

\* Every state of the wake machine, its workers and segments is well typed.
THEOREM TypeCorrect == Spec => []TypeOK
<1>1. IInv => TypeOK
  BY DEF IInv
<1>. QED  BY <1>1, Invariance, PTL

\* The turns of one agent are serial: claims and admissions of any number of
\* dispatcher workers never give it two active wakes.
THEOREM SerialTurns == Spec => []OneActiveWakePerAgent
<1>1. IInv => OneActiveWakePerAgent
  BY DEF IInv
<1>. QED  BY <1>1, Invariance, PTL

\* No settlement, recovery, interrupt or stop leaves a conversation busy with a
\* turn that no admitted wake owns.
THEOREM NoOrphanedTurn == Spec => []OpenTraceIsOwned
<1>1. IInv => OpenTraceIsOwned
  BY DEF IInv
<1>. QED  BY <1>1, Invariance, PTL

\* A child's settled result reaches its direct parent's queue exactly once, and
\* not at all for an interrupted or stopped run.
THEOREM ResultsDeliveredOnce == Spec => []ParentWokenExactlyOnce
<1>1. IInv => ParentWokenExactlyOnce
  BY DEF IInv
<1>. QED  BY <1>1, Invariance, PTL

-----------------------------------------------------------------------------
(* No turn is run twice.                                                   *)

\* No transaction erases a trace.
LEMMA TraceKept ==
  ASSUME IInv, [Next]_vars, NEW w \in Wakes, trace[w] # "none"
  PROVE  trace'[w] # "none"
<1>. USE DEF IInv, TypeOK
<1>1. CASE UNCHANGED trace
  BY <1>1
<1>2. ASSUME NEW x \in Wakes, NEW t \in Traces \ {"none"},
             trace' = [trace EXCEPT ![x] = t]
      PROVE  trace'[w] # "none"
  BY <1>2
<1>3. ASSUME NEW x \in Wakes, NEW outcome, FinishAgentTurn(x, outcome)
      PROVE  trace'[w] # "none"
  BY <1>3 DEF FinishAgentTurn, TerminalizedTrace
<1>4. ASSUME NEW o \in owners, OwnerStep(o) PROVE trace'[w] # "none"
  <2>1. o.wake \in Wakes
    BY DEF Owners
  <2>2. CASE AdmitTurn(o)
    BY <1>2, <2>1, <2>2 DEF AdmitTurn, Traces
  <2>3. CASE SettleStartFailure(o) \/ SettleObserved(o) \/ SettleOutcomeUnknown(o)
    BY <1>3, <2>1, <2>3
       DEF SettleStartFailure, SettleObserved, SettleOutcomeUnknown, SettleOwned
  <2>4. CASE SettleTreeStopped(o)
    BY <1>1, <1>3, <2>1, <2>4 DEF SettleTreeStopped
  <2>5. CASE \/ RenewLease(o) \/ LaunchSegment(o) \/ ObservePendingApproval(o)
             \/ ObserveRunningAfterApproval(o) \/ MarkWaitingForApproval(o)
             \/ OwnerRefused(o) \/ OwnerFails(o)
    BY <1>1, <2>5 DEF RenewLease, LaunchSegment, ObservePendingApproval,
         ObserveRunningAfterApproval, MarkWaitingForApproval, OwnerRefused,
         OwnerFails, durable
  <2>. QED  BY <1>4, <2>2, <2>3, <2>4, <2>5 DEF OwnerStep, OwnerProgress
<1>5. ASSUME NEW s \in segments, SegmentStep(s) PROVE trace'[w] # "none"
  <2>1. s.wake \in Wakes
    BY DEF Segments
  <2>2. ASSUME NEW t \in TerminalTraces, CommitTerminalTrace(s, t)
        PROVE  trace'[w] # "none"
    BY <1>2, <2>1, <2>2 DEF CommitTerminalTrace, Traces, TerminalTraces
  <2>3. CASE \/ StartRuntime(s) \/ StageWaitingUsage(s)
             \/ StorePendingAction(s) \/ SegmentRefused(s)
             \/ \E x \in Wakes : SatisfyBySourceMessage(s, x)
    BY <1>1, <2>3 DEF StartRuntime, StageWaitingUsage, StorePendingAction,
         SegmentRefused,
         SatisfyBySourceMessage, durable
  <2>. QED  BY <1>5, <2>2, <2>3 DEF SegmentStep, SegmentProgress
<1>6. ASSUME NEW x \in Wakes, WakeStep(x) PROVE trace'[w] # "none"
  <2>1. CASE CancelStoppedWake(x)
    BY <1>3, <2>1 DEF CancelStoppedWake
  <2>2. ASSUME NEW t \in {"failed", "cancelled"}, ControlTerminalTrace(x, t)
        PROVE  trace'[w] # "none"
    BY <1>2, <2>2 DEF ControlTerminalTrace, Traces, TerminalTraces
  <2>3. CASE \/ ClaimNextDispatchable(x) \/ FinishPendingAction(x)
             \/ ApprovePendingAction(x) \/ ApproveSkillScript(x)
             \/ ResumeContinuation(x) \/ Tick(x) \/ Stall(x)
    BY <1>1, <2>3 DEF ClaimNextDispatchable, FinishPendingAction,
         ApprovePendingAction, ApproveSkillScript, ResumeContinuation, Tick, Stall,
         TimePasses
  <2>. QED  BY <1>6, <2>1, <2>2, <2>3 DEF WakeStep
<1>7. ASSUME NEW a \in Agents, AgentStep(a) PROVE trace'[w] # "none"
  BY <1>1, <1>7 DEF AgentStep, Schedule, InterruptAgentExecution
<1>8. CASE \/ BeginRootTurn \/ FinishRootTurn \/ BeginAgentTreeRunStop
           \/ RecoverAgentWakes \/ ReconcileExecutionFences \/ HostCrash
           \/ UNCHANGED vars
  BY <1>1, <1>8 DEF BeginRootTurn, FinishRootTurn, BeginAgentTreeRunStop,
       RecoverAgentWakes, ReconcileExecutionFences, HostCrash, vars, durable
<1>. QED  BY <1>4, <1>5, <1>6, <1>7, <1>8 DEF Next

\* Once a turn was admitted its wake is never queued or claimed again: neither
\* recovery nor a second dispatcher can start the model for it a second time.
THEOREM NoTurnReplayed == Spec => AdmittedNeverReplayed
<1>. DEFINE Kept == \A w \in Wakes : trace[w] # "none" =>
                      status'[w] \notin {"queued", "claimed"} /\ trace'[w] # "none"
<1>1. IInv /\ [Next]_vars => Kept
  <2>. SUFFICES ASSUME IInv, [Next]_vars, NEW w \in Wakes, trace[w] # "none"
                PROVE  status'[w] \notin {"queued", "claimed"} /\ trace'[w] # "none"
    OBVIOUS
  <2>1. trace'[w] # "none"
    BY TraceKept
  <2>2. ClaimedAndTraced'
    BY NextInv DEF IInv
  <2>. QED  BY <2>1, <2>2 DEF ClaimedAndTraced
<1>2. IInv /\ [Next]_vars => [Kept]_vars
  BY <1>1
<1>. QED  BY <1>2, Invariance, PTL DEF Spec, AdmittedNeverReplayed

-----------------------------------------------------------------------------
(* The wake machine implements the tasks of AgentTasks.  Again each lemma   *)
(* turns one effect on the rows into a step of the abstract specification   *)
(* or into a stutter, and the step lemma assigns every action to its effect.*)

TaskStep == [Tasks!Next]_(Tasks!taskVars)

\* The tasks of the old and of the new state are the images of the statuses.
LEMMA TasksAreImages ==
  /\ taskOf = [x \in Wakes |-> TaskOf(status[x])]
  /\ taskOf' = [x \in Wakes |-> TaskOf(status'[x])]
  BY DEF taskOf, TaskOf, Wakes, Admitted

\* Renewals, claims, requeued claims, approvals, segments, ticks and crashes
\* leave every task where it is.
LEMMA TasksStutter ==
  ASSUME \A x \in Wakes : TaskOf(status'[x]) = TaskOf(status[x]),
         UNCHANGED <<agent, cause, stopped>>
  PROVE  TaskStep
  BY TasksAreImages DEF TaskStep, Tasks!taskVars

\* An action that writes none of the rows of a task.
LEMMA TasksUntouched ==
  ASSUME UNCHANGED <<status, agent, cause, stopped>>
  PROVE  TaskStep
  BY TasksStutter

\* An admitted turn moves between running and waiting.
LEMMA TaskKeepsExecuting ==
  ASSUME TypeOK, NEW w \in Wakes, NEW s \in Admitted, status[w] \in Admitted,
         status' = [status EXCEPT ![w] = s],
         UNCHANGED <<agent, cause, stopped>>
  PROVE  TaskStep
<1>1. \A x \in Wakes : TaskOf(status'[x]) = TaskOf(status[x])
  BY DEF TypeOK, TaskOf, Admitted
<1>. QED  BY <1>1, TasksStutter

\* A wake that was not admitted is cancelled or satisfied.
LEMMA TaskWithdrawn ==
  ASSUME TypeOK, NEW w \in Wakes, status[w] \in {"queued", "claimed"},
         NEW s \in {"cancelled", "satisfied"},
         status' = [status EXCEPT ![w] = s],
         UNCHANGED <<agent, cause, stopped>>
  PROVE  TaskStep
<1>1. \A x \in Wakes : TaskOf(status'[x]) = IF x = w THEN "dropped"
                                            ELSE TaskOf(status[x])
  BY DEF TypeOK, TaskOf, Admitted
<1>2. TaskOf(status[w]) = "pending"
  BY DEF TaskOf, Admitted
<1>3. Tasks!Withdraw(w)
  BY <1>1, <1>2, TasksAreImages DEF Tasks!Withdraw
<1>. QED  BY <1>3 DEF TaskStep, Tasks!Next

\* Admission begins the task; no other turn of the agent is executing.
LEMMA TaskBegins ==
  ASSUME IInv, NEW o \in owners, AdmitTurn(o)
  PROVE  TaskStep
<1>. DEFINE w == o.wake
<1>1. w \in Wakes
  BY DEF IInv, TypeOK, Owners
<1>2. status[w] = "claimed"
  BY DEF AdmitTurn
<1>3. \A x \in Wakes : TaskOf(status'[x]) = IF x = w THEN "executing"
                                            ELSE TaskOf(status[x])
  BY <1>1 DEF IInv, TypeOK, AdmitTurn, TaskOf, Admitted
<1>4. TaskOf(status[w]) = "pending"
  BY <1>2 DEF TaskOf, Admitted
<1>5. ASSUME NEW x \in Wakes, agent[x] = agent[w]
      PROVE  TaskOf(status[x]) # "executing"
  <2>1. status[x] \notin Admitted
    BY <1>1, <1>2, <1>5 DEF IInv, OneActiveWakePerAgent, Active, Admitted
  <2>. QED  BY <2>1 DEF TaskOf
<1>6. UNCHANGED <<agent, cause, stopped>>
  BY DEF AdmitTurn
<1>. HIDE DEF w
<1>7. Tasks!Begin(w)
  BY <1>1, <1>3, <1>4, <1>5, <1>6, TasksAreImages DEF Tasks!Begin
<1>. QED  BY <1>1, <1>7 DEF TaskStep, Tasks!Next

\* A task or a follow-up inserts a row.
LEMMA TaskAssigned ==
  ASSUME IInv, NEW a \in Agents, EnqueueWake(a, 0, status), UNCHANGED stopped
  PROVE  TaskStep
<1>. DEFINE n == created + 1
<1>1. n \in Wakes /\ status[n] = "absent"
  BY DEF IInv, TypeOK, Existing, EnqueueWake, Wakes
<1>2. /\ agent' = [agent EXCEPT ![n] = a]
      /\ cause' = [cause EXCEPT ![n] = 0]
      /\ status' = [status EXCEPT ![n] = "queued"]
  BY DEF EnqueueWake
<1>. HIDE DEF n
<1>3. \A x \in Wakes : TaskOf(status'[x]) = IF x = n THEN "pending"
                                            ELSE TaskOf(status[x])
  BY <1>1, <1>2 DEF IInv, TypeOK, TaskOf, Admitted
<1>4. TaskOf(status[n]) = "none"
  BY <1>1 DEF TaskOf, Admitted
<1>5. Tasks!Assign(a)
  <2>1. taskOf[n] = "none" /\ taskOf' = [taskOf EXCEPT ![n] = "pending"]
    BY <1>1, <1>3, <1>4, TasksAreImages
  <2>. QED  BY <1>1, <1>2, <2>1 DEF Tasks!Assign
<1>. QED  BY <1>5 DEF TaskStep, Tasks!Next

\* A settlement reports, or ends an interrupted run silently.
LEMMA TaskEnds ==
  ASSUME IInv, NEW w \in Wakes, NEW outcome \in Settled,
         outcome = "interrupted" => status[w] \in Admitted,
         FinishAgentTurn(w, outcome), UNCHANGED stopped
  PROVE  TaskStep
<1>1. status[w] \in Active
  BY DEF FinishAgentTurn, CanTransitionTo, Active, Settled
<1>2. TaskOf(status[w]) \in {"pending", "executing"}
  BY <1>1 DEF TaskOf, Active, Admitted
<1>3. CASE outcome = "interrupted"
  <2>1. /\ status' = [status EXCEPT ![w] = outcome]
        /\ UNCHANGED <<agent, cause>>
    BY <1>3 DEF FinishAgentTurn, WakesParent
  <2>2. \A x \in Wakes : TaskOf(status'[x]) = IF x = w THEN "interrupted"
                                              ELSE TaskOf(status[x])
    BY <1>3, <2>1 DEF IInv, TypeOK, TaskOf, Admitted
  <2>3. TaskOf(status[w]) = "executing"
    BY <1>3 DEF TaskOf, Admitted
  <2>4. Tasks!Interrupt(w)
    BY <2>1, <2>2, <2>3, TasksAreImages DEF Tasks!Interrupt
  <2>. QED  BY <2>4 DEF TaskStep, Tasks!Next
<1>4. CASE outcome # "interrupted"
  <2>0. TaskOf(outcome) = "reported"
    BY <1>4 DEF TaskOf, Admitted, Settled
  <2>1. WakesParent(w, outcome) <=> Tasks!Reports(w)
    BY <1>4 DEF WakesParent, Tasks!Reports
  <2>2. CASE ~WakesParent(w, outcome)
    <3>1. /\ status' = [status EXCEPT ![w] = outcome]
          /\ UNCHANGED <<agent, cause>>
      BY <2>2 DEF FinishAgentTurn
    <3>2. \A x \in Wakes : TaskOf(status'[x]) = IF x = w THEN "reported"
                                                ELSE TaskOf(status[x])
      BY <2>0, <3>1 DEF IInv, TypeOK
    <3>3. Tasks!Report(w)
      BY <1>2, <2>1, <2>2, <3>1, <3>2, TasksAreImages DEF Tasks!Report
    <3>. QED  BY <3>3 DEF TaskStep, Tasks!Next
  <2>3. CASE WakesParent(w, outcome)
    <3>. DEFINE n == created + 1
    <3>1. EnqueueWake(Parent[agent[w]], w, [status EXCEPT ![w] = outcome])
      BY <2>3 DEF FinishAgentTurn
    <3>2. n \in Wakes /\ status[n] = "absent"
      BY <3>1 DEF IInv, TypeOK, Existing, EnqueueWake, Wakes
    <3>3. /\ agent' = [agent EXCEPT ![n] = Parent[agent[w]]]
          /\ cause' = [cause EXCEPT ![n] = w]
          /\ status' = [[status EXCEPT ![w] = outcome] EXCEPT ![n] = "queued"]
      BY <3>1 DEF EnqueueWake
    <3>. HIDE DEF n
    <3>4. n # w
      BY <1>1, <3>2 DEF Active
    <3>5. \A x \in Wakes : TaskOf(status'[x]) = IF x = n THEN "pending"
                                                ELSE IF x = w THEN "reported"
                                                ELSE TaskOf(status[x])
      <4>1. TaskOf("queued") = "pending"
        BY DEF TaskOf, Admitted
      <4>. QED  BY <2>0, <3>2, <3>3, <4>1 DEF IInv, TypeOK
    <3>6. TaskOf(status[n]) = "none"
      BY <3>2 DEF TaskOf, Admitted
    <3>7. Tasks!Report(w)
      BY <1>2, <2>1, <2>3, <3>2, <3>3, <3>4, <3>5, <3>6, TasksAreImages DEF Tasks!Report
    <3>. QED  BY <3>7 DEF TaskStep, Tasks!Next
  <2>. QED  BY <2>2, <2>3
<1>. QED  BY <1>3, <1>4

\* The sweep of a stop drops what waits and marks what executes.
LEMMA TasksStop ==
  ASSUME TypeOK, BeginAgentTreeRunStop
  PROVE  TaskStep
<1>1. \A x \in Wakes : TaskOf(status'[x]) =
        IF TaskOf(status[x]) = "pending" THEN "dropped" ELSE TaskOf(status[x])
  BY DEF TypeOK, BeginAgentTreeRunStop, TaskOf, Admitted, Statuses, Active, Terminal,
         Settled
<1>2. \A x \in Wakes : status[x] \in Admitted <=> TaskOf(status[x]) = "executing"
  BY DEF TaskOf, Admitted
<1>3. stopped' = stopped \cup {x \in Wakes : status[x] \in Admitted}
  BY DEF BeginAgentTreeRunStop
<1>4. UNCHANGED <<agent, cause>>
  BY DEF BeginAgentTreeRunStop
<1>5. Tasks!StopAll
  BY <1>1, <1>2, <1>3, <1>4, TasksAreImages DEF Tasks!StopAll
<1>. QED  BY <1>5 DEF TaskStep, Tasks!Next

-----------------------------------------------------------------------------
(* Every step of the machine.                                              *)

LEMMA OwnerStepTask ==
  ASSUME IInv, NEW o \in owners, OwnerStep(o)
  PROVE  TaskStep
<1>1. o.wake \in Wakes /\ TypeOK
  BY DEF IInv, TypeOK, Owners
<1>2. CASE AdmitTurn(o)
  BY <1>2, TaskBegins
<1>3. CASE SettleStartFailure(o)
  BY <1>1, <1>3, TaskEnds DEF SettleStartFailure, SettleOwned, Settled
<1>4. CASE SettleOutcomeUnknown(o)
  BY <1>1, <1>4, TaskEnds DEF SettleOutcomeUnknown, SettleOwned, Settled
<1>5. CASE SettleObserved(o)
  <2>. DEFINE e == OutcomeOf(trace[o.wake])
  <2>1. FinishAgentTurn(o.wake, e) /\ e \in Settled /\ UNCHANGED stopped
    BY <1>5 DEF SettleObserved, SettleOwned, Settled, OutcomeOf
  <2>2. status[o.wake] \in Admitted
    BY <1>1, <1>5
       DEF SettleObserved, IInv, ClaimedAndTraced, TerminalTraces, Active, Admitted
  <2>. HIDE DEF e
  <2>. QED  BY <1>1, <2>1, <2>2, TaskEnds
<1>6. CASE SettleTreeStopped(o)
  <2>1. CASE StopSettles(o.wake, o.token, o.expected)
             /\ FinishAgentTurn(o.wake, "interrupted")
    <3>1. status[o.wake] \in Admitted
      BY <1>1, <2>1 DEF StopSettles, IInv, OpenTraceIsOwned
    <3>. QED  BY <1>1, <1>6, <2>1, <3>1, TaskEnds DEF SettleTreeStopped, Settled
  <2>2. CASE UNCHANGED <<status, agent, cause>>
    BY <1>6, <2>2, TasksUntouched DEF SettleTreeStopped
  <2>. QED  BY <1>6, <2>1, <2>2 DEF SettleTreeStopped
<1>7. CASE MarkWaitingForApproval(o)
  <2>1. CASE UNCHANGED status
    BY <1>7, <2>1, TasksUntouched DEF MarkWaitingForApproval
  <2>2. CASE status' = [status EXCEPT ![o.wake] = "waiting_for_approval"]
    BY <1>1, <1>7, <2>2, TaskKeepsExecuting DEF MarkWaitingForApproval, Admitted
  <2>. QED  BY <1>7, <2>1, <2>2 DEF MarkWaitingForApproval
<1>8. CASE \/ RenewLease(o) \/ LaunchSegment(o) \/ ObservePendingApproval(o)
           \/ ObserveRunningAfterApproval(o) \/ OwnerRefused(o) \/ OwnerFails(o)
  BY <1>8, TasksUntouched
     DEF RenewLease, LaunchSegment, ObservePendingApproval,
         ObserveRunningAfterApproval, OwnerRefused, OwnerFails, durable
<1>. QED  BY <1>2, <1>3, <1>4, <1>5, <1>6, <1>7, <1>8 DEF OwnerStep, OwnerProgress

LEMMA SegmentStepTask ==
  ASSUME IInv, NEW s \in segments, SegmentStep(s)
  PROVE  TaskStep
<1>1. TypeOK
  BY DEF IInv
<1>2. ASSUME NEW w \in Wakes, SatisfyBySourceMessage(s, w)
      PROVE  TaskStep
  BY <1>1, <1>2, TaskWithdrawn DEF SatisfyBySourceMessage
<1>3. CASE SegmentProgress(s)
  BY <1>3, TasksUntouched
     DEF SegmentProgress, StartRuntime, StageWaitingUsage, StorePendingAction,
         CommitTerminalTrace, SegmentRefused, durable
<1>. QED  BY <1>2, <1>3 DEF SegmentStep

LEMMA WakeStepTask ==
  ASSUME IInv, NEW w \in Wakes, WakeStep(w)
  PROVE  TaskStep
<1>1. TypeOK
  BY DEF IInv
<1>2. CASE ClaimNextDispatchable(w)
  <2>1. \A x \in Wakes : TaskOf(status'[x]) = TaskOf(status[x])
    BY <1>1, <1>2 DEF TypeOK, ClaimNextDispatchable, Dispatchable, TaskOf, Admitted
  <2>. QED  BY <1>2, <2>1, TasksStutter DEF ClaimNextDispatchable
<1>3. CASE CancelStoppedWake(w)
  BY <1>3, TaskEnds DEF CancelStoppedWake, Settled
<1>4. CASE ApproveSkillScript(w) \/ ResumeContinuation(w)
  BY <1>1, <1>4, TaskKeepsExecuting DEF ApproveSkillScript, ResumeContinuation, Admitted
<1>5. CASE \/ \E t \in {"failed", "cancelled"} : ControlTerminalTrace(w, t)
           \/ FinishPendingAction(w) \/ ApprovePendingAction(w)
           \/ Tick(w) \/ Stall(w)
  BY <1>5, TasksUntouched
     DEF ControlTerminalTrace, FinishPendingAction, ApprovePendingAction, Tick, Stall,
         TimePasses
<1>. QED  BY <1>2, <1>3, <1>4, <1>5 DEF WakeStep

LEMMA AgentStepTask ==
  ASSUME IInv, NEW a \in Agents, AgentStep(a)
  PROVE  TaskStep
<1>1. CASE Schedule(a)
  BY <1>1, TaskAssigned DEF Schedule
<1>2. CASE InterruptAgentExecution(a)
  <2>1. PICK w \in InterruptTarget(a) : status' = [status EXCEPT ![w] = "cancelled"]
    BY <1>2 DEF InterruptAgentExecution
  <2>2. w \in Wakes /\ status[w] \in {"queued", "claimed"}
    BY <2>1 DEF InterruptTarget
  <2>. QED  BY <1>2, <2>1, <2>2, TaskWithdrawn DEF InterruptAgentExecution, IInv
<1>. QED  BY <1>1, <1>2 DEF AgentStep

\* Every step is a step of the abstract specification or invisible to it.
LEMMA StepSimulation == IInv /\ [Next]_vars => TaskStep
<1>. SUFFICES ASSUME IInv, [Next]_vars PROVE TaskStep
  OBVIOUS
<1>1. TypeOK
  BY DEF IInv
<1>2. CASE RecoverAgentWakes
  <2>1. \A x \in Wakes : TaskOf(status'[x]) = TaskOf(status[x])
    BY <1>2 DEF RecoverAgentWakes, Requeued, TaskOf, Admitted
  <2>. QED  BY <1>2, <2>1, TasksStutter DEF RecoverAgentWakes
<1>3. CASE BeginAgentTreeRunStop
  BY <1>1, <1>3, TasksStop
<1>4. CASE \/ BeginRootTurn \/ FinishRootTurn \/ ReconcileExecutionFences
           \/ HostCrash \/ UNCHANGED vars
  BY <1>4, TasksUntouched
     DEF BeginRootTurn, FinishRootTurn, ReconcileExecutionFences, HostCrash, vars,
         durable
<1>. QED  BY <1>2, <1>3, <1>4, OwnerStepTask, SegmentStepTask, WakeStepTask,
             AgentStepTask DEF Next

\* The wake machine, with its claims, leases, recoveries, approvals, stops and
\* crashes, implements tasks that are begun at most once, alone among their
\* agent's, and reported to the parent in the step that ends them.
THEOREM Refinement == Spec => ImplementsTasks
<1>1. Init => Tasks!Init
  BY TasksAreImages DEF Init, Tasks!Init, TaskOf, Admitted
<1>. QED  BY <1>1, StepSimulation, Invariance, PTL
             DEF Spec, ImplementsTasks, Tasks!Spec, TaskStep

=============================================================================
