----------------------------- MODULE AgentTasks -----------------------------
(***************************************************************************)
(* What the wake machine promises the agents of a tree, without claims,    *)
(* leases, workers, approvals or crashes: a task waits, is begun at most   *)
(* once, runs alone among the tasks of its agent, and ends either reported *)
(* (its result becomes a task of the parent in the same step) or silently. *)
(***************************************************************************)
CONSTANTS
  Ids,      \* the tasks there can be
  Root,     \* the agent that is driven by a human and never has a task
  Agents,   \* the others
  Parent    \* whom an agent reports to

VARIABLES
  task,     \* where each task stands
  agent,    \* who executes it
  cause,    \* the task whose result it brings, 0 for a new assignment
  stopped   \* the tasks the user stopped while they executed

taskVars == <<task, agent, cause, stopped>>

Init ==
  /\ task = [i \in Ids |-> "none"]
  /\ agent = [i \in Ids |-> Root]
  /\ cause = [i \in Ids |-> 0]
  /\ stopped = {}

Assign(a) ==
  \E n \in Ids :
    /\ task[n] = "none"
    /\ task' = [task EXCEPT ![n] = "pending"]
    /\ agent' = [agent EXCEPT ![n] = a]
    /\ cause' = [cause EXCEPT ![n] = 0]
    /\ UNCHANGED stopped

\* Only a pending task begins, so that none begins twice.
Begin(i) ==
  /\ task[i] = "pending"
  /\ \A j \in Ids : agent[j] = agent[i] => task[j] # "executing"
  /\ task' = [task EXCEPT ![i] = "executing"]
  /\ UNCHANGED <<agent, cause, stopped>>

Reports(i) == Parent[agent[i]] # Root /\ i \notin stopped

\* A task that could not begin is reported as well.
Report(i) ==
  /\ task[i] \in {"pending", "executing"}
  /\ \/ /\ Reports(i)
        /\ \E n \in Ids :
             /\ task[n] = "none"
             /\ task' = [task EXCEPT ![i] = "reported", ![n] = "pending"]
             /\ agent' = [agent EXCEPT ![n] = Parent[agent[i]]]
             /\ cause' = [cause EXCEPT ![n] = i]
     \/ /\ ~Reports(i)
        /\ task' = [task EXCEPT ![i] = "reported"]
        /\ UNCHANGED <<agent, cause>>
  /\ UNCHANGED stopped

Interrupt(i) ==
  /\ task[i] = "executing"
  /\ task' = [task EXCEPT ![i] = "interrupted"]
  /\ UNCHANGED <<agent, cause, stopped>>

\* Nothing but a pending task is dropped without a trace of its execution.
Withdraw(i) ==
  /\ task[i] = "pending"
  /\ task' = [task EXCEPT ![i] = "dropped"]
  /\ UNCHANGED <<agent, cause, stopped>>

StopAll ==
  /\ task' = [i \in Ids |-> IF task[i] = "pending" THEN "dropped" ELSE task[i]]
  /\ stopped' = stopped \cup {i \in Ids : task[i] = "executing"}
  /\ UNCHANGED <<agent, cause>>

Next ==
  \/ \E a \in Agents : Assign(a)
  \/ \E i \in Ids : Begin(i) \/ Report(i) \/ Interrupt(i) \/ Withdraw(i)
  \/ StopAll

Spec == Init /\ [][Next]_taskVars

=============================================================================
