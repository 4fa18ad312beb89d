-------------------------- MODULE BlockingExecutor --------------------------
(***************************************************************************)
(* The bounded executor of blocking work: clients reserve a share of the   *)
(* job and byte budget, alone or as a pair, submit their reservations as   *)
(* jobs, and a fixed set of workers runs them until the executor is shut   *)
(* down.                                                                   *)
(*                                                                         *)
(* An action is one critical section of the state mutex.  Notifications    *)
(* are sent after the mutex was released: owed[a] lists the ones actor a   *)
(* still has to send before it does anything else.                         *)
(***************************************************************************)
EXTENDS Integers, Sequences, FiniteSets

CONSTANTS
  Clients,    \* tasks that use the executor
  Workers,    \* its worker threads
  MaxJobs,    \* Shared.max_jobs
  MaxBytes,   \* Shared.max_bytes
  Sizes,      \* the byte estimates clients ask for
  Closer      \* the task that shuts the executor down

ASSUME Limits ==
  /\ MaxJobs \in Nat /\ MaxBytes \in Nat \ {0} /\ Sizes \subseteq Nat
  /\ IsFiniteSet(Workers) /\ Workers # {} /\ Cardinality(Workers) <= MaxJobs
  /\ IsFiniteSet(Clients) /\ Closer \notin Clients \cup Workers
  /\ Clients \cap Workers = {}

VARIABLES
  queue,                             \* State.queue, the reservations of its jobs
  accepting, allowReserved,          \* State.accepting, State.allow_reserved
  submitted, jobs, bytes,            \* State.submitted, State.jobs, State.bytes
  phase, size,                       \* each reservation: where it is, its bytes
  task,                              \* the progress of reserve() and wait_drained()
  want,                              \* each client: what it is asking for
  told,                              \* a notified() future that has completed
  wpc, wjob,                         \* each worker's place and job
  owed,                              \* notifications still to be sent
  drain                              \* the kind of shutdown asked for

budget == <<accepting, allowReserved, submitted, jobs, bytes>>
vars == <<queue, budget, phase, size, task, want, told, wpc, wjob, owed, drain>>

Actors       == Clients \cup Workers \cup {Closer}
Reservations == Clients \X {1, 2}
Requests     == [count : {1, 2}, bytes : Sizes]
NoRequest    == [count |-> 0, bytes |-> 0]
NoJob        == <<>>

Listeners    == Clients \cup {Closer}

\* armed: notified() is enabled and the state not yet read; refused: the state
\* was read and the mutex released, the future is not yet awaited.
Tasks  == {"idle", "armed", "refused", "awaiting", "closing", "done"}

TypeOK ==
  /\ queue \in Seq(Reservations)
  /\ accepting \in BOOLEAN /\ allowReserved \in BOOLEAN
  /\ submitted \in Nat /\ jobs \in Nat /\ bytes \in Nat
  /\ phase \in [Reservations -> {"free", "reserved", "queued", "running"}]
  /\ size \in [Reservations -> Nat]
  /\ task \in [Listeners -> Tasks]
  /\ want \in [Clients -> Requests \cup {NoRequest}]
  /\ told \in [Listeners -> BOOLEAN]
  /\ wpc \in [Workers -> {"check", "asleep", "running", "exited"}]
  /\ wjob \in [Workers -> Reservations \cup {NoJob}]
  /\ owed \in [Actors -> Seq({"changed", "ready", "ready_one"})]
  /\ drain \in {"none", "submitted", "all"}

Init ==
  /\ queue = <<>>
  /\ accepting = TRUE /\ allowReserved = TRUE
  /\ submitted = 0 /\ jobs = 0 /\ bytes = 0
  /\ phase = [r \in Reservations |-> "free"]
  /\ size = [r \in Reservations |-> 0]
  /\ task = [a \in Listeners |-> "idle"]
  /\ want = [c \in Clients |-> NoRequest]
  /\ told = [a \in Listeners |-> FALSE]
  /\ wpc = [w \in Workers |-> "check"]
  /\ wjob = [w \in Workers |-> NoJob]
  /\ owed = [a \in Actors |-> <<>>]
  /\ drain = "none"

Owe(a, notifications) == owed' = [owed EXCEPT ![a] = notifications]
Ready(a) == owed[a] = <<>>
Idle(c)  == task[c] = "idle" /\ Ready(c)
HoldsNothing(c) == \A i \in {1, 2} : phase[<<c, i>>] = "free"

-----------------------------------------------------------------------------
\* Reservations

TooLarge(q) ==
  \/ q.count * q.bytes > MaxBytes
  \/ q.count = 2 /\ MaxJobs < 2

\* Mutant: the pair is checked as if it were one job.
FitsOneOfPair(q) ==
  /\ jobs < MaxJobs
  /\ q.bytes <= MaxBytes - bytes

Fits(q) ==
  /\ jobs <= MaxJobs - q.count
  /\ q.count * q.bytes <= MaxBytes - bytes

\* The reservations handed out for a request.
Reserve(c, q) ==
  /\ jobs' = jobs + q.count
  /\ bytes' = bytes + q.count * q.bytes
  /\ phase' = [r \in Reservations |->
                 IF r[1] = c /\ r[2] <= q.count THEN "reserved" ELSE phase[r]]
  /\ size' = [r \in Reservations |->
                 IF r[1] = c /\ r[2] <= q.count THEN q.bytes ELSE size[r]]
  /\ UNCHANGED <<accepting, allowReserved, submitted>>

\* try_reserve by a caller that does not wait (submit, run); a refusal changes
\* nothing.
TryReserve(c, b) ==
  /\ Idle(c) /\ HoldsNothing(c)
  /\ accepting
  /\ LET q == [count |-> 1, bytes |-> b] IN ~TooLarge(q) /\ Fits(q) /\ Reserve(c, q)
  /\ UNCHANGED <<queue, task, want, told, wpc, wjob, owed, drain>>

\* reserve, reserve_pair: notified() and enable(), before the state is read.
Enable(c, q) ==
  /\ \/ Idle(c) /\ HoldsNothing(c)
     \/ task[c] = "awaiting" /\ told[c] /\ q = want[c]
  /\ task' = [task EXCEPT ![c] = "armed"]
  /\ want' = [want EXCEPT ![c] = q]
  /\ told' = [told EXCEPT ![c] = FALSE]
  /\ UNCHANGED <<queue, budget, phase, size, wpc, wjob, owed, drain>>

\* reserve, reserve_pair return; their notified() future goes with them.
Answered(c) ==
  /\ task' = [task EXCEPT ![c] = "idle"]
  /\ want' = [want EXCEPT ![c] = NoRequest]
  /\ told' = [told EXCEPT ![c] = FALSE]

\* changed.await is polled.
Await(a) ==
  /\ task[a] = "refused"
  /\ task' = [task EXCEPT ![a] = "awaiting"]
  /\ UNCHANGED <<queue, budget, phase, size, want, told, wpc, wjob, owed, drain>>

\* Mutant: a waiter keeps the first half of its pair while it waits for the
\* second.
AttemptByHalves(c) ==
  /\ task[c] = "armed"
  /\ LET q == want[c]
         missing == [count |-> q.count - Cardinality({i \in {1, 2} : phase[<<c, i>>] # "free"}),
                     bytes |-> q.bytes] IN
     \/ /\ ~accepting \/ TooLarge(q)
        /\ Answered(c)
        /\ UNCHANGED <<budget, phase, size>>
     \/ /\ accepting /\ ~TooLarge(q) /\ Fits(missing)
        /\ Answered(c)
        /\ jobs' = jobs + missing.count
        /\ bytes' = bytes + missing.count * q.bytes
        /\ phase' = [r \in Reservations |->
                       IF r[1] = c /\ r[2] <= q.count THEN "reserved" ELSE phase[r]]
        /\ size' = [r \in Reservations |->
                       IF r[1] = c /\ r[2] <= q.count THEN q.bytes ELSE size[r]]
        /\ UNCHANGED <<accepting, allowReserved, submitted>>
     \/ /\ accepting /\ ~TooLarge(q) /\ ~Fits(missing)
        /\ task' = [task EXCEPT ![c] = "refused"]
        /\ UNCHANGED <<want, told>>
        /\ IF missing.count = 2 /\ Fits([count |-> 1, bytes |-> q.bytes])
             THEN Reserve(c, [count |-> 1, bytes |-> q.bytes])
             ELSE UNCHANGED <<budget, phase, size>>
  /\ UNCHANGED <<queue, wpc, wjob, owed, drain>>

\* reserve, reserve_pair: the attempt, and what follows from its result.
Attempt(c) ==
  /\ task[c] = "armed"
  /\ LET q == want[c] IN
     \/ /\ ~accepting \/ TooLarge(q)
        /\ Answered(c)
        /\ UNCHANGED <<budget, phase, size>>
     \/ /\ accepting /\ ~TooLarge(q) /\ Fits(q)
        /\ Answered(c)
        /\ Reserve(c, q)
     \/ /\ accepting /\ ~TooLarge(q) /\ ~Fits(q)
        /\ task' = [task EXCEPT ![c] = "refused"]
        /\ UNCHANGED <<want, told>>
        /\ UNCHANGED <<budget, phase, size>>
  /\ UNCHANGED <<queue, wpc, wjob, owed, drain>>

\* BlockingReservation::try_resize
Resize(r, b) ==
  /\ Idle(r[1]) /\ phase[r] = "reserved"
  /\ allowReserved
  /\ b <= MaxBytes
  /\ b <= MaxBytes - (bytes - size[r])
  /\ bytes' = bytes - size[r] + b
  /\ size' = [size EXCEPT ![r] = b]
  /\ Owe(r[1], <<"changed">>)
  /\ UNCHANGED <<queue, accepting, allowReserved, submitted, jobs, phase, task, want, told,
                 wpc, wjob, drain>>

\* Mutant: a reservation that was never submitted is counted out as a job.
ReleaseAsSubmitted(r, wasSubmitted) ==
  /\ jobs' = jobs - 1
  /\ submitted' = submitted - 1
  /\ bytes' = bytes - size[r]
  /\ phase' = [phase EXCEPT ![r] = "free"]
  /\ size' = [size EXCEPT ![r] = 0]
  /\ UNCHANGED <<accepting, allowReserved>>

\* BlockingReservation::drop of a reservation that was submitted or not.
Release(r, wasSubmitted) ==
  /\ jobs' = jobs - 1
  /\ submitted' = submitted - (IF wasSubmitted THEN 1 ELSE 0)
  /\ bytes' = bytes - size[r]
  /\ phase' = [phase EXCEPT ![r] = "free"]
  /\ size' = [size EXCEPT ![r] = 0]
  /\ UNCHANGED <<accepting, allowReserved>>

\* Mutant: no worker is told of the new job.
SubmitSilently(r) ==
  /\ Idle(r[1]) /\ phase[r] = "reserved"
  /\ allowReserved
  /\ submitted' = submitted + 1
  /\ phase' = [phase EXCEPT ![r] = "queued"]
  /\ queue' = Append(queue, r)
  /\ UNCHANGED <<accepting, allowReserved, jobs, bytes, size, task, want, told, wpc, wjob,
                 owed, drain>>

\* BlockingReservation::submit; a refused submission drops the reservation.
Submit(r) ==
  /\ Idle(r[1]) /\ phase[r] = "reserved"
  /\ \/ /\ allowReserved
        /\ submitted' = submitted + 1
        /\ phase' = [phase EXCEPT ![r] = "queued"]
        /\ queue' = Append(queue, r)
        /\ Owe(r[1], <<"ready_one">>)
        /\ UNCHANGED <<accepting, allowReserved, jobs, bytes, size>>
     \/ /\ ~allowReserved
        /\ Release(r, FALSE)
        /\ Owe(r[1], <<"changed", "ready">>)
        /\ UNCHANGED queue
  /\ UNCHANGED <<task, want, told, wpc, wjob, drain>>

\* A reservation that is never submitted goes out of scope.
DropReservation(r) ==
  /\ Idle(r[1]) /\ phase[r] = "reserved"
  /\ Release(r, FALSE)
  /\ Owe(r[1], <<"changed", "ready">>)
  /\ UNCHANGED <<queue, task, want, told, wpc, wjob, drain>>

-----------------------------------------------------------------------------
\* worker_loop

\* Mutant: a closed executor's worker leaves whatever is reserved.
MayExitAtClose == ~accepting

\* When a worker that finds no job leaves.
MayExit == ~accepting /\ (jobs = 0 \/ ~allowReserved)

Take(w) ==
  /\ wpc[w] = "check" /\ Ready(w)
  /\ queue # <<>>
  /\ queue' = Tail(queue)
  /\ phase' = [phase EXCEPT ![Head(queue)] = "running"]
  /\ wjob' = [wjob EXCEPT ![w] = Head(queue)]
  /\ wpc' = [wpc EXCEPT ![w] = "running"]
  /\ UNCHANGED <<budget, size, task, want, told, owed, drain>>

Exit(w) ==
  /\ wpc[w] = "check" /\ Ready(w)
  /\ queue = <<>> /\ MayExit
  /\ wpc' = [wpc EXCEPT ![w] = "exited"]
  /\ Owe(w, <<"changed">>)
  /\ UNCHANGED <<queue, budget, phase, size, task, want, told, wjob, drain>>

Wait(w) ==
  /\ wpc[w] = "check" /\ Ready(w)
  /\ queue = <<>> /\ ~MayExit
  /\ wpc' = [wpc EXCEPT ![w] = "asleep"]
  /\ UNCHANGED <<queue, budget, phase, size, task, want, told, wjob, owed, drain>>

\* A condition variable may wake a worker for no reason.
SpuriousWakeup(w) ==
  /\ wpc[w] = "asleep"
  /\ wpc' = [wpc EXCEPT ![w] = "check"]
  /\ UNCHANGED <<queue, budget, phase, size, task, want, told, wjob, owed, drain>>

\* The job returned or panicked: its budget is dropped before the result is sent.
Finish(w) ==
  /\ wpc[w] = "running"
  /\ Release(wjob[w], TRUE)
  /\ Owe(w, <<"changed", "ready">>)
  /\ wpc' = [wpc EXCEPT ![w] = "check"]
  /\ wjob' = [wjob EXCEPT ![w] = NoJob]
  /\ UNCHANGED <<queue, task, want, told, drain>>

-----------------------------------------------------------------------------
\* Closing

CloseNotices == <<"ready", "changed">>

\* close, called on its own.
Close ==
  /\ drain = "none" /\ Idle(Closer) /\ accepting
  /\ accepting' = FALSE
  /\ Owe(Closer, CloseNotices)
  /\ UNCHANGED <<queue, allowReserved, submitted, jobs, bytes, phase, size, task, want, told,
                 wpc, wjob, drain>>

\* shutdown_submitted closes twice before it waits, shutdown once.
ShutdownSubmitted ==
  /\ drain = "none" /\ Idle(Closer)
  /\ allowReserved' = FALSE
  /\ accepting' = FALSE
  /\ drain' = "submitted"
  /\ task' = [task EXCEPT ![Closer] = "closing"]
  /\ Owe(Closer, CloseNotices \o CloseNotices)
  /\ UNCHANGED <<queue, submitted, jobs, bytes, phase, size, want, told, wpc, wjob>>

Shutdown ==
  /\ drain = "none" /\ Idle(Closer)
  /\ accepting' = FALSE
  /\ drain' = "all"
  /\ task' = [task EXCEPT ![Closer] = "closing"]
  /\ Owe(Closer, CloseNotices)
  /\ UNCHANGED <<queue, allowReserved, submitted, jobs, bytes, phase, size, want, told,
                 wpc, wjob>>

\* wait_drained: notified() and enable(), before the counters are read.
DrainEnable ==
  /\ \/ task[Closer] = "closing" /\ Ready(Closer)
     \/ task[Closer] = "awaiting" /\ told[Closer]
  /\ task' = [task EXCEPT ![Closer] = "armed"]
  /\ told' = [told EXCEPT ![Closer] = FALSE]
  /\ UNCHANGED <<queue, budget, phase, size, want, wpc, wjob, owed, drain>>

WorkersLeft == Cardinality({w \in Workers : wpc[w] # "exited"})

\* What a shutdown waits for: reservations, or only what was submitted.
LeftToDrain == IF drain = "all" THEN jobs ELSE submitted

\* Mutant: a shutdown looks only at the queue, not at running jobs.
DrainCheckQueue ==
  /\ task[Closer] = "armed"
  /\ task' = [task EXCEPT ![Closer] = IF queue = <<>> THEN "done" ELSE "refused"]
  /\ UNCHANGED <<queue, budget, phase, size, want, told, wpc, wjob, owed, drain>>

DrainCheck ==
  /\ task[Closer] = "armed"
  /\ task' = [task EXCEPT ![Closer] =
                IF LeftToDrain = 0 /\ WorkersLeft = 0 THEN "done" ELSE "refused"]
  /\ UNCHANGED <<queue, budget, phase, size, want, told, wpc, wjob, owed, drain>>

-----------------------------------------------------------------------------
\* Mutant: the notified() future is created only when it is awaited.
ListeningLate(a) == task[a] = "awaiting"

\* Notify::notify_waiters completes every notified() future that exists; a
\* condition variable's notify_all and notify_one wake sleeping threads.
Listening(a) == task[a] \in {"armed", "refused", "awaiting"}

Wake(ws) == wpc' = [w \in Workers |-> IF w \in ws THEN "check" ELSE wpc[w]]

Asleep == {w \in Workers : wpc[w] = "asleep"}

Notify(a) ==
  /\ owed[a] # <<>>
  /\ owed' = [owed EXCEPT ![a] = Tail(@)]
  /\ \/ /\ Head(owed[a]) = "changed"
        /\ told' = [x \in Listeners |-> told[x] \/ Listening(x)]
        /\ UNCHANGED wpc
     \/ /\ Head(owed[a]) = "ready"
        /\ Wake(Asleep)
        /\ UNCHANGED told
     \/ /\ Head(owed[a]) = "ready_one"
        /\ IF Asleep = {} THEN UNCHANGED wpc ELSE \E w \in Asleep : Wake({w})
        /\ UNCHANGED told
  /\ UNCHANGED <<queue, budget, phase, size, task, want, wjob, drain>>

-----------------------------------------------------------------------------
ClientStep(c) ==
  \/ \E b \in Sizes : TryReserve(c, b)
  \/ \E q \in Requests : Enable(c, q)
  \/ Attempt(c)
  \/ \E i \in {1, 2} :
       \/ \E b \in Sizes : Resize(<<c, i>>, b)
       \/ Submit(<<c, i>>)
       \/ DropReservation(<<c, i>>)

WorkerStep(w) == Take(w) \/ Exit(w) \/ Wait(w) \/ SpuriousWakeup(w) \/ Finish(w)

CloserStep == Close \/ ShutdownSubmitted \/ Shutdown \/ DrainEnable \/ DrainCheck

Next ==
  \/ \E c \in Clients : ClientStep(c)
  \/ \E w \in Workers : WorkerStep(w)
  \/ CloserStep
  \/ \E a \in Listeners : Await(a)
  \/ \E a \in Actors : Notify(a)

Spec == Init /\ [][Next]_vars

\* Threads run and jobs end; clients are not assumed to use their reservations.
Fairness ==
  /\ \A w \in Workers : WF_vars(Take(w) \/ Exit(w) \/ Wait(w) \/ Finish(w))
  /\ \A a \in Actors : WF_vars(Notify(a))
  /\ WF_vars(DrainEnable \/ DrainCheck)
  /\ \A a \in Listeners : WF_vars(Await(a))
  /\ \A c \in Clients : WF_vars(Attempt(c)) /\ WF_vars(Enable(c, want[c]) /\ told[c])

LiveSpec == Spec /\ Fairness

\* Every client submits or drops what it reserved.
ClientsDispose ==
  \A r \in Reservations : WF_vars(Submit(r) \/ DropReservation(r))

-----------------------------------------------------------------------------
Live      == {r \in Reservations : phase[r] # "free"}
InFlight  == {r \in Reservations : phase[r] \in {"queued", "running"}}

\* Every byte a live reservation holds, named by its reservation.
HeldBytes == UNION {{r} \X (1..size[r]) : r \in Live}

\* The counters describe exactly the reservations that exist, whatever mix of
\* pairs, resizes, refused submissions and drops happened, and never exceed the
\* executor's limits.
BudgetIsExact ==
  /\ jobs = Cardinality(Live) /\ jobs <= MaxJobs
  /\ bytes = Cardinality(HeldBytes) /\ bytes <= MaxBytes
  /\ submitted = Cardinality(InFlight)

\* A reservation that may still become a job always has a worker to run it.
NoStrandedWork ==
  (InFlight # {} \/ (allowReserved /\ Live # {})) => WorkersLeft > 0

\* notify_one is enough: a job waits only while no worker sleeps, or while a
\* worker is about to look at the queue for each waiting job.
NoIdleWorkerWhileJobsWait ==
  Asleep # {} =>
    Len(queue) <= Cardinality({w \in Workers : wpc[w] = "check"})
                    + Cardinality({a \in Actors : owed[a] # <<>> /\ Head(owed[a]) = "ready_one"})

\* When shutdown_submitted has returned, no job runs or will run; when shutdown
\* has returned, nothing is reserved either.
DrainedMeansQuiet ==
  task[Closer] = "done" =>
    /\ InFlight = {} /\ WorkersLeft = 0
    /\ drain = "all" => Live = {}

\* No notification is lost between reading the state and awaiting: once none is
\* owed, a client that waits would be refused again if it retried, and the
\* shutdown still has something to wait for.
WaitersAreBlocked ==
  (\A a \in Actors : \A i \in DOMAIN owed[a] : owed[a][i] # "changed") =>
    /\ \A c \in Clients : task[c] = "awaiting" /\ ~told[c] => accepting /\ ~Fits(want[c])
    /\ task[Closer] = "awaiting" /\ ~told[Closer] => LeftToDrain > 0 \/ WorkersLeft > 0

\* shutdown_submitted returns whatever clients do with unused reservations.
ShutdownReturns ==
  drain = "submitted" ~> task[Closer] = "done"

\* If clients dispose of their reservations, nobody awaits capacity for ever
\* without another attempt: turns that wait for a pair cannot block each other.
EveryWaiterRetries ==
  ClientsDispose => \A c \in Clients : task[c] = "awaiting" ~> task[c] # "awaiting"

=============================================================================
