--------------------------- MODULE KeyedAdmission ---------------------------
(***************************************************************************)
(* The admission coordinator of core-server: threads reserve a set of      *)
(* conversations, or everything, in FIFO order among conflicting requests. *)
(*                                                                         *)
(* An action is one critical section of the registry's mutex, or what a    *)
(* thread does after it has left it: dropping a guard first updates the    *)
(* registry and then, without the mutex, notifies the condition variable.  *)
(* The queue is kept as the set of waiters ahead of each waiter; a thread  *)
(* waits at most once, so the thread stands for its ticket.                *)
(***************************************************************************)
CONSTANTS
  Threads,   \* the threads that ask for admission
  Keys       \* conversation ids

VARIABLES
  pc,          \* where each thread is
  scope,       \* the scope a thread waits for or holds
  ahead,       \* State.queue: the waiters queued before each waiter
  global,      \* State.global
  activeKeys,  \* State.active_keys
  owners       \* State.owners

vars == <<pc, scope, ahead, global, activeKeys, owners>>

\* enum Scope, and the value of a thread that neither waits nor holds.
Global   == [all |-> TRUE, keys |-> {}]
NoScope  == [all |-> FALSE, keys |-> {}]
Conversations == [all : {FALSE}, keys : (SUBSET Keys) \ {{}}]
Scopes   == Conversations \cup {Global}

\* A woken thread re-evaluates the wait's condition when it gets the mutex; a
\* notifying thread dropped its guard and has yet to notify.
Places == {"idle", "woken", "asleep", "holding", "notifying"}

Queued == {t \in Threads : pc[t] \in {"woken", "asleep"}}

TypeOK ==
  /\ pc \in [Threads -> Places]
  /\ scope \in [Threads -> Scopes \cup {NoScope}]
  /\ ahead \in [Threads -> SUBSET Threads]
  /\ global \in BOOLEAN
  /\ activeKeys \in SUBSET Keys
  /\ owners \in SUBSET Threads

Init ==
  /\ pc = [t \in Threads |-> "idle"]
  /\ scope = [t \in Threads |-> NoScope]
  /\ ahead = [t \in Threads |-> {}]
  /\ global = FALSE
  /\ activeKeys = {}
  /\ owners = {}

-----------------------------------------------------------------------------
\* Scope::conflicts
Conflicts(left, right) ==
  \/ left.all
  \/ right.all
  \/ left.keys \cap right.keys # {}

\* Mutant: a global request only looks at another global guard.
ReadyIgnoringKeys(s, earlier) ==
  /\ ~global
  /\ s.keys \cap activeKeys = {}
  /\ \A u \in earlier : ~Conflicts(s, scope[u])

\* Mutant: earlier waiters are overtaken.
ReadyOvertaking(s, earlier) ==
  /\ ~global
  /\ IF s.all THEN activeKeys = {} ELSE s.keys \cap activeKeys = {}

\* State::ready, for a waiter with scope s behind these earlier waiters.
Ready(s, earlier) ==
  /\ ~global
  /\ IF s.all THEN activeKeys = {} ELSE s.keys \cap activeKeys = {}
  /\ \A u \in earlier : ~Conflicts(s, scope[u])

\* A ready waiter leaves the queue with its guard.
Grant(t, s) ==
  /\ global' = (global \/ s.all)
  /\ activeKeys' = activeKeys \cup s.keys
  /\ owners' = owners \cup {t}
  /\ ahead' = [u \in Threads |-> IF u = t THEN {} ELSE ahead[u] \ {t}]

\* Condvar::notify_all
NotifyAll(places) ==
  [u \in Threads |-> IF places[u] = "asleep" THEN "woken" ELSE places[u]]

\* KeyedAdmission::acquire up to its first evaluation of the condition; a
\* nested request of an owner or a waiter panics before it changes anything.
Acquire(t, s) ==
  /\ pc[t] = "idle"
  /\ t \notin owners
  /\ scope' = [scope EXCEPT ![t] = s]
  /\ \/ /\ Ready(s, Queued)
        /\ pc' = [NotifyAll(pc) EXCEPT ![t] = "holding"]
        /\ Grant(t, s)
     \/ /\ ~Ready(s, Queued)
        /\ pc' = [NotifyAll(pc) EXCEPT ![t] = "asleep"]
        /\ ahead' = [ahead EXCEPT ![t] = Queued]
        /\ UNCHANGED <<global, activeKeys, owners>>

\* One more round of the wait loop.
Recheck(t) ==
  /\ pc[t] = "woken"
  /\ \/ /\ Ready(scope[t], ahead[t])
        /\ pc' = [pc EXCEPT ![t] = "holding"]
        /\ Grant(t, scope[t])
     \/ /\ ~Ready(scope[t], ahead[t])
        /\ pc' = [pc EXCEPT ![t] = "asleep"]
        /\ UNCHANGED <<ahead, global, activeKeys, owners>>
  /\ UNCHANGED scope

\* A condition variable may wake a waiter for no reason.
SpuriousWakeup(t) ==
  /\ pc[t] = "asleep"
  /\ pc' = [pc EXCEPT ![t] = "woken"]
  /\ UNCHANGED <<scope, ahead, global, activeKeys, owners>>

\* Mutant: the guard is dropped without a notification.
ReleaseSilently(t) ==
  /\ pc[t] = "holding"
  /\ pc' = [pc EXCEPT ![t] = "idle"]
  /\ global' = (global /\ ~scope[t].all)
  /\ activeKeys' = activeKeys \ scope[t].keys
  /\ owners' = owners \ {t}
  /\ scope' = [scope EXCEPT ![t] = NoScope]
  /\ UNCHANGED ahead

\* Mutant: dropping a global guard also clears the keys, whoever holds them,
\* and dropping a conversation guard clears the global flag.
ReleaseEverything(t) ==
  /\ pc[t] = "holding"
  /\ pc' = [pc EXCEPT ![t] = "notifying"]
  /\ global' = FALSE
  /\ activeKeys' = {}
  /\ owners' = owners \ {t}
  /\ scope' = [scope EXCEPT ![t] = NoScope]
  /\ UNCHANGED ahead

\* AdmissionGuard::drop, under the mutex.
Release(t) ==
  /\ pc[t] = "holding"
  /\ pc' = [pc EXCEPT ![t] = "notifying"]
  /\ global' = (global /\ ~scope[t].all)
  /\ activeKeys' = activeKeys \ scope[t].keys
  /\ owners' = owners \ {t}
  /\ scope' = [scope EXCEPT ![t] = NoScope]
  /\ UNCHANGED ahead

\* AdmissionGuard::drop, after the mutex.
NotifyReleased(t) ==
  /\ pc[t] = "notifying"
  /\ pc' = [NotifyAll(pc) EXCEPT ![t] = "idle"]
  /\ UNCHANGED <<scope, ahead, global, activeKeys, owners>>

Step(t) ==
  \/ \E s \in Scopes : Acquire(t, s)
  \/ Recheck(t)
  \/ SpuriousWakeup(t)
  \/ Release(t)
  \/ NotifyReleased(t)

Next == \E t \in Threads : Step(t)

Spec == Init /\ [][Next]_vars

\* A woken thread gets the mutex, a guard is dropped and its drop completes.
Fairness ==
  \A t \in Threads :
    /\ WF_vars(Recheck(t))
    /\ WF_vars(Release(t))
    /\ WF_vars(NotifyReleased(t))

LiveSpec == Spec /\ Fairness

-----------------------------------------------------------------------------
Holders == {t \in Threads : pc[t] = "holding"}

\* Two threads never hold conflicting guards: neither one conversation twice
\* nor anything beside a global guard.
MutualExclusion ==
  \A t, u \in Holders : t # u => ~Conflicts(scope[t], scope[u])

\* The registry describes exactly the guards that exist: nothing stays reserved
\* that nobody holds, and nothing held is free for the taking.
RegistryMatchesGuards ==
  /\ owners = Holders
  /\ global <=> \E t \in Holders : scope[t].all
  /\ activeKeys = UNION {scope[t].keys : t \in Holders}

\* No wakeup is lost: while nobody is about to notify, a sleeping thread waits
\* for a holder or for an earlier waiter that conflicts with its own scope, and
\* for nothing else (an unrelated conversation passes blocked work).
SleepersAreBlocked ==
  (\A t \in Threads : pc[t] # "notifying") =>
    \A t \in Threads : pc[t] = "asleep" =>
      \E u \in Holders \cup ahead[t] : Conflicts(scope[t], scope[u])

\* Nobody starves, and a stream of conversation guards cannot keep a global
\* fence out: every request is admitted in the end.
EveryRequestAdmitted ==
  \A t \in Threads : pc[t] \in {"woken", "asleep"} ~> pc[t] = "holding"

=============================================================================
