----------------------- MODULE BlockingExecutor_proofs -----------------------
(***************************************************************************)
(* Proofs of the safety properties of the blocking executor, for any       *)
(* number of clients and workers and any budget.                           *)
(*                                                                         *)
(* The inductive invariant EInv says which reservation each queue slot and *)
(* each worker stands for (JobsAreHeld), that the counters count them      *)
(* (Counted), in which order the executor closes and its workers leave     *)
(* (ClosesInOrder), who holds or owes what while it waits (HandsAreEmpty), *)
(* and that a state which would let a waiter go on is always followed by a *)
(* notification that is still owed (RefusalStands and, for the workers,    *)
(* NoIdleWorkerWhileJobsWait).                                             *)
(***************************************************************************)
EXTENDS BlockingExecutor, FiniteSetTheorems, SequenceTheorems, TLAPS

USE Limits

\* The queue lists exactly the queued reservations, each once, and a running
\* reservation is the job of exactly one worker.
JobsAreHeld ==
  /\ \A i, j \in DOMAIN queue : queue[i] = queue[j] => i = j
  /\ \A r \in Reservations : phase[r] = "queued" <=> \E i \in DOMAIN queue : queue[i] = r
  /\ \A w \in Workers : wjob[w] # NoJob <=> wpc[w] = "running"
  /\ \A w \in Workers : wjob[w] # NoJob => phase[wjob[w]] = "running"
  /\ \A v, w \in Workers : wjob[v] = wjob[w] /\ wjob[v] # NoJob => v = w
  /\ \A r \in Reservations : phase[r] = "running" => \E w \in Workers : wjob[w] = r

\* BudgetIsExact over sets known to be finite.
Counted ==
  /\ IsFiniteSet(HeldBytes)
  /\ BudgetIsExact

\* A shutdown closes before it drains; a worker leaves only a closed executor
\* that will accept no job, and the last one leaves no job behind.
ClosesInOrder ==
  /\ task[Closer] = "idle" <=> drain = "none"
  /\ drain # "none" => ~accepting
  /\ ~allowReserved <=> drain = "submitted"
  /\ (\E w \in Workers : wpc[w] = "exited") => ~accepting /\ (jobs = 0 \/ ~allowReserved)
  /\ (\A w \in Workers : wpc[w] = "exited") => queue = <<>>
  /\ task[Closer] = "done" =>
       /\ \A w \in Workers : wpc[w] = "exited"
       /\ LeftToDrain = 0

\* A client that waits for capacity holds none and owes nothing; nor does a
\* worker that runs a job, or the closer once it waits, owe a notification.
HandsAreEmpty ==
  /\ \A c \in Clients : task[c] # "idle" =>
       task[c] \in {"armed", "refused", "awaiting"} /\ HoldsNothing(c) /\ want[c] \in Requests
  /\ \A a \in Listeners : Listening(a) => Ready(a)
  /\ \A w \in Workers : wpc[w] = "running" => Ready(w)

\* Somebody is about to complete the notified() futures.
ChangeIsOwed == \E a \in Actors : \E i \in DOMAIN owed[a] : owed[a][i] = "changed"

\* From the moment an attempt is refused, and not only once it awaits, its
\* reason still stands or a notification is on its way.
RefusalStands ==
  /\ \A c \in Clients : task[c] \in {"refused", "awaiting"} /\ ~told[c] =>
       ChangeIsOwed \/ (accepting /\ ~Fits(want[c]))
  /\ task[Closer] \in {"refused", "awaiting"} /\ ~told[Closer] =>
       ChangeIsOwed \/ LeftToDrain # 0 \/ \E w \in Workers : wpc[w] # "exited"

EInv ==
  /\ TypeOK
  /\ JobsAreHeld
  /\ Counted
  /\ ClosesInOrder
  /\ HandsAreEmpty
  /\ RefusalStands
  /\ NoIdleWorkerWhileJobsWait

-----------------------------------------------------------------------------
\* Counting

\* The bytes of the reservations in S when f gives their sizes.
Cells(S, f) == UNION {{r} \X (1..f[r]) : r \in S}

\* A reservation holds as many bytes as its size says.
LEMMA OneReservationsBytes ==
  ASSUME NEW r, NEW n \in Nat
  PROVE  IsFiniteSet({r} \X (1..n)) /\ Cardinality({r} \X (1..n)) = n
<1>1. IsFiniteSet({r}) /\ Cardinality({r}) = 1
  BY FS_Singleton
<1>2. IsFiniteSet(1..n) /\ Cardinality(1..n) = n
  BY FS_Interval
<1>3. /\ IsFiniteSet({r} \X (1..n))
      /\ Cardinality({r} \X (1..n)) = Cardinality({r}) * Cardinality(1..n)
  BY <1>1, <1>2, FS_Product
<1>4. Cardinality({r}) * Cardinality(1..n) = n
  BY <1>1, <1>2
<1>5. QED BY <1>3, <1>4

\* Adding a reservation adds its bytes.
LEMMA CellsAdd ==
  ASSUME NEW S, NEW f, NEW g, NEW r, r \notin S, g[r] \in Nat,
         \A s \in S : g[s] = f[s], IsFiniteSet(Cells(S, f))
  PROVE  /\ IsFiniteSet(Cells(S \cup {r}, g))
         /\ Cardinality(Cells(S \cup {r}, g)) = Cardinality(Cells(S, f)) + g[r]
<1> DEFINE B == {r} \X (1..g[r])
<1>1. Cells(S \cup {r}, g) = Cells(S, f) \cup B
  BY DEF Cells
<1>2. Cells(S, f) \cap B = {}
  BY DEF Cells
<1>3. IsFiniteSet(B) /\ Cardinality(B) = g[r]
  BY OneReservationsBytes
<1> HIDE DEF B
<1>4. Cardinality(Cells(S, f)) \in Nat /\ Cardinality({}) = 0
  BY FS_CardinalityType, FS_EmptySet
<1>5. /\ IsFiniteSet(Cells(S, f) \cup B)
      /\ Cardinality(Cells(S, f) \cup B)
           = Cardinality(Cells(S, f)) + Cardinality(B) - Cardinality(Cells(S, f) \cap B)
  BY <1>3, FS_Union
<1>6. Cardinality(Cells(S, f) \cap B) = 0
  BY <1>2, <1>4
<1>7. Cardinality(Cells(S, f) \cup B) = Cardinality(Cells(S, f)) + g[r]
  BY <1>3, <1>4, <1>5, <1>6
<1>8. QED BY <1>1, <1>5, <1>7

\* Removing a reservation removes its bytes, which were counted.
LEMMA CellsRemove ==
  ASSUME NEW S, NEW f, NEW g, NEW r \in S, f[r] \in Nat,
         \A s \in S \ {r} : g[s] = f[s], IsFiniteSet(Cells(S, f))
  PROVE  /\ IsFiniteSet(Cells(S \ {r}, g))
         /\ Cardinality(Cells(S \ {r}, g)) = Cardinality(Cells(S, f)) - f[r]
         /\ f[r] <= Cardinality(Cells(S, f))
<1> DEFINE B == {r} \X (1..f[r])
<1>1. Cells(S \ {r}, g) = Cells(S, f) \ B
  BY DEF Cells
<1>2. Cells(S, f) \cap B = B /\ B \in SUBSET Cells(S, f)
  BY DEF Cells
<1>3. IsFiniteSet(B) /\ Cardinality(B) = f[r]
  BY OneReservationsBytes
<1> HIDE DEF B
<1>4. Cardinality(Cells(S, f)) \in Nat
  BY FS_CardinalityType
<1>5. /\ IsFiniteSet(Cells(S, f) \ B)
      /\ Cardinality(Cells(S, f) \ B)
           = Cardinality(Cells(S, f)) - Cardinality(Cells(S, f) \cap B)
  BY FS_Difference
<1>6. Cardinality(B) <= Cardinality(Cells(S, f))
  BY <1>2, FS_Subset
<1>7. QED BY <1>1, <1>2, <1>3, <1>4, <1>5, <1>6

\* There are finitely many reservations, so the counted sets are finite.
LEMMA FiniteReservations ==
  /\ IsFiniteSet(Reservations)
  /\ \A S \in SUBSET Reservations : IsFiniteSet(S) /\ Cardinality(S) \in Nat
<1>1. IsFiniteSet({1, 2})
  <2>1. IsFiniteSet({1})
    BY FS_Singleton
  <2>2. IsFiniteSet({1} \cup {2})
    BY <2>1, FS_AddElement
  <2>3. {1} \cup {2} = {1, 2}
    OBVIOUS
  <2>4. QED BY <2>2, <2>3
<1>2. IsFiniteSet(Reservations)
  BY <1>1, FS_Product DEF Limits, Reservations
<1>3. QED BY <1>2, FS_Subset, FS_CardinalityType

\* The counters and what they count, without the limits.
Exact ==
  /\ IsFiniteSet(HeldBytes)
  /\ jobs = Cardinality(Live) /\ bytes = Cardinality(HeldBytes)
  /\ submitted = Cardinality(InFlight)

\* The counters are natural numbers when they are exact.
LEMMA CountersAreNatural ==
  ASSUME Exact
  PROVE  jobs \in Nat /\ bytes \in Nat /\ submitted \in Nat
<1>1. Live \in SUBSET Reservations /\ InFlight \in SUBSET Reservations
  BY DEF Live, InFlight
<1>2. QED BY <1>1, FiniteReservations, FS_CardinalityType DEF Exact

\* Taking one free reservation adds it to the counts.
LEMMA TakingCounts ==
  ASSUME NEW S \in SUBSET Reservations, NEW r \in Reservations, r \notin S
  PROVE  Cardinality(S \cup {r}) = Cardinality(S) + 1
BY FiniteReservations, FS_AddElement

\* Giving one up removes it.
LEMMA LeavingCounts ==
  ASSUME NEW S \in SUBSET Reservations, NEW r \in S
  PROVE  Cardinality(S \ {r}) = Cardinality(S) - 1 /\ Cardinality(S) >= 1
<1>1. IsFiniteSet(S) /\ Cardinality(S) \in Nat /\ S # {}
  BY FiniteReservations
<1>2. Cardinality(S) # 0
  BY <1>1, FS_EmptySet
<1>3. Cardinality(S \ {r}) = Cardinality(S) - 1
  BY <1>1, FS_RemoveElement
<1>4. QED BY <1>1, <1>2, <1>3

\* Nothing is counted differently while phases and sizes stay.
LEMMA StillCounted ==
  ASSUME Counted, UNCHANGED <<phase, size, jobs, bytes, submitted>>
  PROVE  Counted'
BY DEF Counted, BudgetIsExact, HeldBytes, Live, InFlight

\* Reserving one or two reservations keeps the budget exact and within limits.
LEMMA ReserveCounts ==
  ASSUME TypeOK, Counted, NEW c \in Clients, NEW q \in Requests,
         HoldsNothing(c), Fits(q), Reserve(c, q)
  PROVE  /\ Counted'
         /\ jobs' \in Nat /\ bytes' \in Nat /\ submitted' \in Nat
<1> DEFINE r1 == <<c, 1>>  r2 == <<c, 2>>
<1>1. /\ r1 \in Reservations /\ r2 \in Reservations /\ r1 # r2
      /\ phase[r1] = "free" /\ phase[r2] = "free"
  BY DEF Reservations, HoldsNothing
<1>2. \A r \in Reservations : r[1] = c => r = r1 \/ r = r2
  BY DEF Reservations
<1>3. q.count \in {1, 2} /\ q.bytes \in Nat
  BY DEF Requests, Limits
<1>4. submitted' = submitted /\ InFlight' = InFlight
  BY <1>1, <1>2 DEF Reserve, InFlight, TypeOK
<1>5. Live \in SUBSET Reservations /\ r1 \notin Live /\ r2 \notin Live
  BY <1>1 DEF Live
<1>6. Exact
  BY DEF Counted, BudgetIsExact, Exact
<1>7. jobs \in Nat /\ bytes \in Nat /\ submitted \in Nat
  BY <1>6, CountersAreNatural
<1>8. \A r \in Live : size'[r] = size[r]
  BY <1>1, <1>2 DEF Reserve, Live
<1>9. HeldBytes = Cells(Live, size) /\ HeldBytes' = Cells(Live', size')
  BY DEF HeldBytes, Cells
<1>10. CASE q.count = 1
  <2>1. Live' = Live \cup {r1}
    BY <1>1, <1>2, <1>10 DEF Reserve, Live
  <2>2. Cardinality(Live') = Cardinality(Live) + 1
    BY <1>1, <1>5, <2>1, TakingCounts
  <2>3. size'[r1] = q.bytes
    BY <1>1, <1>10 DEF Reserve
  <2>4. IsFiniteSet(HeldBytes') /\ Cardinality(HeldBytes') = Cardinality(HeldBytes) + q.bytes
    <3> HIDE DEF r1, r2
    <3>1. IsFiniteSet(Cells(Live, size)) /\ size'[r1] \in Nat /\ r1 \notin Live
      BY <1>3, <1>5, <1>6, <1>9, <2>3 DEF Exact
    <3>2. /\ IsFiniteSet(Cells(Live \cup {r1}, size'))
          /\ Cardinality(Cells(Live \cup {r1}, size')) = Cardinality(Cells(Live, size)) + size'[r1]
      BY <1>8, <3>1, CellsAdd, SMT
    <3>3. QED BY <1>9, <2>1, <2>3, <3>2
  <2>5. jobs' = jobs + 1 /\ bytes' = bytes + q.bytes
    BY <1>3, <1>7, <1>10 DEF Reserve
  <2>6. jobs + 1 <= MaxJobs /\ bytes + q.bytes <= MaxBytes
    BY <1>3, <1>7, <1>10 DEF Fits, Limits
  <2>7. QED BY <1>3, <1>4, <1>6, <1>7, <2>2, <2>4, <2>5, <2>6 DEF Exact, Counted, BudgetIsExact
<1>11. CASE q.count = 2
  <2>1. Live' = (Live \cup {r1}) \cup {r2}
    BY <1>1, <1>2, <1>11 DEF Reserve, Live
  <2>2. Cardinality(Live') = Cardinality(Live) + 2
    <3>1. Cardinality(Live \cup {r1}) = Cardinality(Live) + 1
      BY <1>1, <1>5, TakingCounts
    <3>2. Cardinality((Live \cup {r1}) \cup {r2}) = Cardinality(Live \cup {r1}) + 1
      <4>1. Live \cup {r1} \in SUBSET Reservations /\ r2 \notin Live \cup {r1}
        BY <1>1, <1>5
      <4>2. QED BY <1>1, <4>1, TakingCounts
    <3>3. Cardinality(Live) \in Nat
      BY <1>5, FiniteReservations
    <3>4. QED BY <2>1, <3>1, <3>2, <3>3
  <2>3. size'[r1] = q.bytes /\ size'[r2] = q.bytes
    BY <1>1, <1>11 DEF Reserve
  <2>4. IsFiniteSet(HeldBytes')
        /\ Cardinality(HeldBytes') = Cardinality(HeldBytes) + q.bytes + q.bytes
    <3> HIDE DEF r1, r2
    <3>1. IsFiniteSet(Cells(Live, size)) /\ size'[r1] \in Nat /\ r1 \notin Live
      BY <1>3, <1>5, <1>6, <1>9, <2>3 DEF Exact
    <3>2. /\ IsFiniteSet(Cells(Live \cup {r1}, size'))
          /\ Cardinality(Cells(Live \cup {r1}, size')) = Cardinality(Cells(Live, size)) + size'[r1]
      BY <1>8, <3>1, CellsAdd, SMT
    <3>3. /\ IsFiniteSet(Cells((Live \cup {r1}) \cup {r2}, size'))
          /\ Cardinality(Cells((Live \cup {r1}) \cup {r2}, size'))
               = Cardinality(Cells(Live \cup {r1}, size')) + size'[r2]
      <4>1. r2 \notin Live \cup {r1} /\ size'[r2] \in Nat
        BY <1>1, <1>3, <1>5, <2>3
      <4>2. IsFiniteSet(Cells(Live \cup {r1}, size'))
        BY <3>2
      <4>3. \A s \in Live \cup {r1} : size'[s] = size'[s]
        OBVIOUS
      <4>4. QED BY <4>1, <4>2, <4>3, CellsAdd, SMT
    <3>4. QED BY <1>9, <2>1, <2>3, <3>2, <3>3
  <2>5. jobs' = jobs + 2 /\ bytes' = bytes + q.bytes + q.bytes
    BY <1>3, <1>7, <1>11 DEF Reserve
  <2>6. jobs + 2 <= MaxJobs /\ bytes + q.bytes + q.bytes <= MaxBytes
    BY <1>3, <1>7, <1>11 DEF Fits, Limits
  <2>7. QED BY <1>3, <1>4, <1>6, <1>7, <2>2, <2>4, <2>5, <2>6 DEF Exact, Counted, BudgetIsExact
<1>12. QED BY <1>3, <1>10, <1>11

\* Dropping a reservation takes its job and its bytes out of the budget, and out
\* of the submitted jobs exactly when it had been submitted.
LEMMA ReleaseCounts ==
  ASSUME TypeOK, Counted, NEW r \in Reservations, phase[r] # "free",
         NEW was \in BOOLEAN, was <=> phase[r] \in {"queued", "running"}, Release(r, was)
  PROVE  /\ Counted'
         /\ jobs' \in Nat /\ bytes' \in Nat /\ submitted' \in Nat
         /\ jobs' = jobs - 1
<1>1. Exact
  BY DEF Counted, BudgetIsExact, Exact
<1>2. jobs \in Nat /\ bytes \in Nat /\ submitted \in Nat
  BY <1>1, CountersAreNatural
<1>3. /\ Live \in SUBSET Reservations /\ InFlight \in SUBSET Reservations
      /\ r \in Live /\ (was <=> r \in InFlight)
  BY DEF Live, InFlight
<1>4. Live' = Live \ {r} /\ InFlight' = InFlight \ {r}
  BY DEF Release, Live, InFlight, TypeOK
<1>5. Cardinality(Live') = jobs - 1 /\ jobs >= 1
  BY <1>1, <1>3, <1>4, LeavingCounts DEF Exact
<1>6. /\ Cardinality(InFlight') = submitted - (IF was THEN 1 ELSE 0)
      /\ submitted - (IF was THEN 1 ELSE 0) \in Nat
  <2>1. CASE was
    BY <1>1, <1>2, <1>3, <1>4, <2>1, LeavingCounts DEF Exact
  <2>2. CASE ~was
    <3>1. InFlight' = InFlight
      BY <1>3, <1>4, <2>2
    <3>2. QED BY <1>1, <1>2, <2>2, <3>1 DEF Exact
  <2>3. QED BY <2>1, <2>2
<1>7. /\ IsFiniteSet(HeldBytes')
      /\ Cardinality(HeldBytes') = bytes - size[r] /\ size[r] <= bytes /\ size[r] \in Nat
  <2>1. HeldBytes = Cells(Live, size) /\ HeldBytes' = Cells(Live', size')
    BY DEF HeldBytes, Cells
  <2>2. \A s \in Live \ {r} : size'[s] = size[s]
    BY <1>3 DEF Release, TypeOK
  <2>3. size[r] \in Nat /\ r \in Live /\ IsFiniteSet(Cells(Live, size))
    BY <1>1, <1>3, <2>1 DEF TypeOK, Exact
  <2>4. /\ IsFiniteSet(Cells(Live \ {r}, size'))
        /\ Cardinality(Cells(Live \ {r}, size')) = Cardinality(Cells(Live, size)) - size[r]
        /\ size[r] <= Cardinality(Cells(Live, size))
    BY <2>2, <2>3, CellsRemove, SMT
  <2>5. QED BY <1>1, <1>4, <2>1, <2>3, <2>4 DEF Exact
<1>8. /\ jobs' = jobs - 1 /\ bytes' = bytes - size[r]
      /\ submitted' = submitted - (IF was THEN 1 ELSE 0)
  BY DEF Release
<1>9. jobs <= MaxJobs /\ bytes <= MaxBytes /\ MaxJobs \in Nat /\ MaxBytes \in Nat
  BY DEF Counted, BudgetIsExact, Limits
<1>10. jobs - 1 <= MaxJobs /\ bytes - size[r] <= MaxBytes /\ jobs - 1 \in Nat
       /\ bytes - size[r] \in Nat
  BY <1>2, <1>5, <1>7, <1>9
<1>11. QED BY <1>5, <1>6, <1>7, <1>8, <1>10 DEF Counted, BudgetIsExact

\* A reservation that becomes a job is counted as submitted.
LEMMA SubmissionCounts ==
  ASSUME TypeOK, Counted, NEW r \in Reservations, phase[r] = "reserved",
         phase' = [phase EXCEPT ![r] = "queued"], submitted' = submitted + 1,
         UNCHANGED <<size, jobs, bytes>>
  PROVE  Counted' /\ submitted' \in Nat
<1>1. Exact
  BY DEF Counted, BudgetIsExact, Exact
<1>2. submitted \in Nat
  BY <1>1, CountersAreNatural
<1>3. InFlight \in SUBSET Reservations /\ r \notin InFlight
  BY DEF InFlight
<1>4. Live' = Live /\ InFlight' = InFlight \cup {r}
  BY DEF Live, InFlight, TypeOK
<1>5. Cardinality(InFlight') = submitted + 1
  BY <1>1, <1>3, <1>4, TakingCounts DEF Exact
<1>6. HeldBytes' = HeldBytes
  BY <1>4 DEF HeldBytes
<1>7. QED BY <1>2, <1>4, <1>5, <1>6 DEF Counted, BudgetIsExact

\* A queued job that a worker takes stays counted.
LEMMA TakingAJobCounts ==
  ASSUME TypeOK, Counted, NEW r \in Reservations, phase[r] = "queued",
         phase' = [phase EXCEPT ![r] = "running"], UNCHANGED <<size, jobs, bytes, submitted>>
  PROVE  Counted'
<1>1. Live' = Live /\ InFlight' = InFlight
  BY DEF Live, InFlight, TypeOK
<1>2. HeldBytes' = HeldBytes
  BY <1>1 DEF HeldBytes
<1>3. QED BY <1>1, <1>2 DEF Counted, BudgetIsExact

\* Resizing a reservation replaces its bytes, whichever way it goes.
LEMMA ResizingCounts ==
  ASSUME TypeOK, Counted, NEW r \in Reservations, phase[r] # "free", NEW b \in Nat,
         b <= MaxBytes - (bytes - size[r]), bytes' = bytes - size[r] + b,
         size' = [size EXCEPT ![r] = b], UNCHANGED <<phase, jobs, submitted>>
  PROVE  Counted' /\ bytes' \in Nat
<1>1. Exact
  BY DEF Counted, BudgetIsExact, Exact
<1>2. bytes \in Nat
  BY <1>1, CountersAreNatural
<1>3. Live' = Live /\ InFlight' = InFlight /\ r \in Live
  BY DEF Live, InFlight
<1>4. HeldBytes = Cells(Live, size) /\ HeldBytes' = Cells(Live, size')
  BY <1>3 DEF HeldBytes, Cells
<1>5. /\ IsFiniteSet(Cells(Live \ {r}, size'))
      /\ Cardinality(Cells(Live \ {r}, size')) = Cardinality(Cells(Live, size)) - size[r]
      /\ size[r] <= Cardinality(Cells(Live, size))
  <2>1. \A s \in Live \ {r} : size'[s] = size[s]
    BY DEF Live, TypeOK
  <2>2. size[r] \in Nat /\ r \in Live /\ IsFiniteSet(Cells(Live, size))
    BY <1>1, <1>3, <1>4 DEF TypeOK, Exact
  <2>3. QED BY ONLY <2>1, <2>2, CellsRemove, SMT
<1>6. /\ IsFiniteSet(Cells((Live \ {r}) \cup {r}, size'))
      /\ Cardinality(Cells((Live \ {r}) \cup {r}, size'))
           = Cardinality(Cells(Live \ {r}, size')) + size'[r]
  <2>1. \A s \in Live \ {r} : size'[s] = size'[s]
    OBVIOUS
  <2>2. size'[r] \in Nat /\ r \notin Live \ {r} /\ IsFiniteSet(Cells(Live \ {r}, size'))
    BY <1>5 DEF TypeOK
  <2>3. QED BY ONLY <2>1, <2>2, CellsAdd, SMT
<1>7. (Live \ {r}) \cup {r} = Live /\ size'[r] = b
  BY <1>3 DEF TypeOK
<1>8. IsFiniteSet(HeldBytes') /\ Cardinality(HeldBytes') = bytes - size[r] + b
      /\ size[r] <= bytes
  BY <1>1, <1>4, <1>5, <1>6, <1>7 DEF Exact
<1>9. size[r] \in Nat /\ MaxBytes \in Nat
  BY DEF TypeOK, Limits
<1>10. bytes' \in Nat /\ bytes' <= MaxBytes
  BY <1>2, <1>8, <1>9
<1>11. QED BY <1>3, <1>8, <1>10 DEF Counted, BudgetIsExact

-----------------------------------------------------------------------------
\* Types and counters

Notices == {"changed", "ready", "ready_one"}

\* What an action leaves owed is a sequence of notifications, and so is the rest
\* of one.
LEMMA NoticesAreTyped ==
  /\ <<>> \in Seq(Notices)
  /\ <<"changed">> \in Seq(Notices) /\ <<"ready_one">> \in Seq(Notices)
  /\ <<"changed", "ready">> \in Seq(Notices)
  /\ CloseNotices \in Seq(Notices) /\ CloseNotices \o CloseNotices \in Seq(Notices)
  /\ \A s \in Seq(Notices) : s # <<>> => Head(s) \in Notices /\ Tail(s) \in Seq(Notices)
BY HeadTailProperties DEF Notices, CloseNotices

\* The closer is a listener but neither a client nor a worker.
LEMMA Roles ==
  /\ Clients \subseteq Listeners /\ Closer \in Listeners /\ Closer \notin Clients
  /\ Listeners \subseteq Actors /\ Workers \subseteq Actors
  /\ \A a \in Listeners : a \notin Workers
  /\ \A a \in Listeners : a = Closer \/ a \in Clients
BY DEF Limits, Listeners, Actors

\* A reservation belongs to one client, and NoJob is not one.
LEMMA OwnersOfReservations ==
  /\ \A c \in Clients : \A i \in {1, 2} : <<c, i>> \in Reservations /\ <<c, i>>[1] = c
  /\ \A r \in Reservations : r[1] \in Clients
  /\ NoJob \notin Reservations
BY DEF Reservations, NoJob

\* Every step of a client keeps the types and the counts.
LEMMA ClientCounts ==
  ASSUME EInv, NEW c \in Clients, ClientStep(c)
  PROVE  TypeOK' /\ Counted'
<1> USE DEF EInv
<1>1. CASE \E b \in Sizes : TryReserve(c, b)
  <2>1. PICK b \in Sizes : TryReserve(c, b)
    BY <1>1
  <2> DEFINE q == [count |-> 1, bytes |-> b]
  <2>2. q \in Requests /\ q.bytes \in Nat
    BY DEF Requests, Limits
  <2>3. HoldsNothing(c) /\ Fits(q) /\ Reserve(c, q)
    BY <2>1 DEF TryReserve
  <2>4. Counted' /\ jobs' \in Nat /\ bytes' \in Nat /\ submitted' \in Nat
    BY <2>2, <2>3, ReserveCounts
  <2>5. /\ phase' \in [Reservations -> {"free", "reserved", "queued", "running"}]
        /\ size' \in [Reservations -> Nat]
    BY <2>2, <2>3 DEF Reserve, TypeOK
  <2>6. QED BY <2>1, <2>3, <2>4, <2>5 DEF TryReserve, Reserve, TypeOK
<1>2. CASE \E q \in Requests : Enable(c, q)
  <2>1. PICK q \in Requests : Enable(c, q)
    BY <1>2
  <2>2. Counted'
    BY <2>1, StillCounted DEF Enable, budget
  <2>3. QED BY <2>1, <2>2, Roles DEF Enable, budget, TypeOK, Tasks
<1>3. CASE Attempt(c)
  <2>1. task[c] = "armed" /\ HoldsNothing(c) /\ want[c] \in Requests
    BY <1>3 DEF Attempt, HandsAreEmpty
  <2>2. /\ task' \in [Listeners -> Tasks] /\ told' \in [Listeners -> BOOLEAN]
        /\ want' \in [Clients -> Requests \cup {NoRequest}]
    BY <1>3, Roles DEF Attempt, Answered, TypeOK, Tasks
  <2>3. UNCHANGED <<queue, wpc, wjob, owed, drain>>
    BY <1>3 DEF Attempt
  <2>4. CASE UNCHANGED <<budget, phase, size>>
    <3>1. Counted'
      BY <2>4, StillCounted DEF budget
    <3>2. QED BY <2>2, <2>3, <2>4, <3>1 DEF budget, TypeOK
  <2>5. CASE Fits(want[c]) /\ Reserve(c, want[c])
    <3>1. Counted' /\ jobs' \in Nat /\ bytes' \in Nat /\ submitted' \in Nat
      BY <2>1, <2>5, ReserveCounts
    <3>2. want[c].bytes \in Nat
      BY <2>1 DEF Requests, Limits
    <3>3. /\ phase' \in [Reservations -> {"free", "reserved", "queued", "running"}]
          /\ size' \in [Reservations -> Nat]
      BY <2>5, <3>2 DEF Reserve, TypeOK
    <3>4. QED BY <2>2, <2>3, <2>5, <3>1, <3>3 DEF Reserve, TypeOK
  <2>6. QED BY <1>3, <2>4, <2>5 DEF Attempt
<1>4. ASSUME NEW i \in {1, 2}, NEW b \in Sizes, Resize(<<c, i>>, b)
      PROVE  TypeOK' /\ Counted'
  <2>1. <<c, i>> \in Reservations /\ <<c, i>>[1] = c /\ b \in Nat /\ c \in Actors
    BY OwnersOfReservations, Roles DEF Limits
  <2>2. /\ phase[<<c, i>>] # "free" /\ b <= MaxBytes - (bytes - size[<<c, i>>])
        /\ bytes' = bytes - size[<<c, i>>] + b /\ size' = [size EXCEPT ![<<c, i>>] = b]
        /\ UNCHANGED <<phase, jobs, submitted>>
    BY <1>4 DEF Resize
  <2>3. Counted' /\ bytes' \in Nat
    BY <2>1, <2>2, ResizingCounts
  <2>4. owed' \in [Actors -> Seq(Notices)]
    BY <1>4, <2>1, NoticesAreTyped DEF Resize, Owe, TypeOK, Notices
  <2>5. size' \in [Reservations -> Nat]
    BY <2>1, <2>2 DEF TypeOK
  <2>6. QED BY <1>4, <2>2, <2>3, <2>4, <2>5 DEF Resize, TypeOK, Notices
<1>5. ASSUME NEW i \in {1, 2}, phase[<<c, i>>] = "reserved", Release(<<c, i>>, FALSE),
             Owe(c, <<"changed", "ready">>),
             UNCHANGED <<queue, task, want, told, wpc, wjob, drain>>
      PROVE  TypeOK' /\ Counted'
  <2>1. <<c, i>> \in Reservations /\ c \in Actors
    BY OwnersOfReservations, Roles
  <2>2. Counted' /\ jobs' \in Nat /\ bytes' \in Nat /\ submitted' \in Nat
    BY <1>5, <2>1, ReleaseCounts
  <2>3. owed' \in [Actors -> Seq(Notices)]
    BY <1>5, <2>1, NoticesAreTyped DEF Owe, TypeOK, Notices
  <2>4. /\ phase' \in [Reservations -> {"free", "reserved", "queued", "running"}]
        /\ size' \in [Reservations -> Nat]
    BY <1>5, <2>1 DEF Release, TypeOK
  <2>5. QED BY <1>5, <2>2, <2>3, <2>4 DEF Release, TypeOK, Notices
<1>6. ASSUME NEW i \in {1, 2}, DropReservation(<<c, i>>)
      PROVE  TypeOK' /\ Counted'
  BY <1>5, <1>6, OwnersOfReservations DEF DropReservation
<1>7. ASSUME NEW i \in {1, 2}, Submit(<<c, i>>)
      PROVE  TypeOK' /\ Counted'
  <2>1. <<c, i>> \in Reservations /\ <<c, i>>[1] = c /\ c \in Actors
    BY OwnersOfReservations, Roles
  <2>2. CASE ~allowReserved
    BY <1>5, <1>7, <2>1, <2>2 DEF Submit
  <2>3. CASE allowReserved
    <3>1. /\ phase[<<c, i>>] = "reserved" /\ submitted' = submitted + 1
          /\ phase' = [phase EXCEPT ![<<c, i>>] = "queued"]
          /\ queue' = Append(queue, <<c, i>>) /\ Owe(c, <<"ready_one">>)
          /\ UNCHANGED <<accepting, allowReserved, jobs, bytes, size>>
          /\ UNCHANGED <<task, want, told, wpc, wjob, drain>>
      BY <1>7, <2>1, <2>3 DEF Submit
    <3>2. Counted' /\ submitted' \in Nat
      BY <2>1, <3>1, SubmissionCounts
    <3>3. owed' \in [Actors -> Seq(Notices)]
      BY <2>1, <3>1, NoticesAreTyped DEF Owe, TypeOK, Notices
    <3>4. /\ phase' \in [Reservations -> {"free", "reserved", "queued", "running"}]
          /\ queue' \in Seq(Reservations)
      BY <2>1, <3>1 DEF TypeOK
    <3>5. QED BY <3>1, <3>2, <3>3, <3>4 DEF TypeOK, Notices
  <2>4. QED BY <2>2, <2>3
<1>8. QED BY <1>1, <1>2, <1>3, <1>4, <1>6, <1>7 DEF ClientStep

\* The job a worker takes is the queued reservation at the head.
LEMMA HeadIsQueued ==
  ASSUME TypeOK, JobsAreHeld, queue # <<>>
  PROVE  /\ Head(queue) \in Reservations /\ phase[Head(queue)] = "queued"
         /\ Tail(queue) \in Seq(Reservations)
         /\ 1 \in DOMAIN queue /\ queue[1] = Head(queue)
<1>1. /\ Head(queue) \in Reservations /\ Tail(queue) \in Seq(Reservations)
      /\ 1 \in DOMAIN queue /\ queue[1] = Head(queue)
  BY HeadTailProperties, EmptySeq, LenProperties DEF TypeOK
<1>2. QED BY <1>1 DEF JobsAreHeld

\* Every step of a worker keeps the types and the counts.
LEMMA WorkerCounts ==
  ASSUME EInv, NEW w \in Workers, WorkerStep(w)
  PROVE  TypeOK' /\ Counted'
<1> USE DEF EInv
<1>1. CASE Take(w)
  <2>1. /\ Head(queue) \in Reservations /\ phase[Head(queue)] = "queued"
        /\ Tail(queue) \in Seq(Reservations)
    BY <1>1, HeadIsQueued DEF Take
  <2>2. Counted'
    BY <1>1, <2>1, TakingAJobCounts DEF Take, budget
  <2>3. QED BY <1>1, <2>1, <2>2 DEF Take, budget, TypeOK
<1>2. CASE Exit(w)
  <2>1. Counted'
    BY <1>2, StillCounted DEF Exit, budget
  <2>2. owed' \in [Actors -> Seq(Notices)]
    BY <1>2, NoticesAreTyped, Roles DEF Exit, Owe, TypeOK, Notices
  <2>3. QED BY <1>2, <2>1, <2>2 DEF Exit, budget, TypeOK, Notices
<1>3. CASE Wait(w) \/ SpuriousWakeup(w)
  <2>1. Counted'
    BY <1>3, StillCounted DEF Wait, SpuriousWakeup, budget
  <2>2. QED BY <1>3, <2>1 DEF Wait, SpuriousWakeup, budget, TypeOK
<1>4. CASE Finish(w)
  <2>1. wjob[w] \in Reservations /\ phase[wjob[w]] = "running"
    BY <1>4 DEF Finish, JobsAreHeld, TypeOK
  <2>2. Counted' /\ jobs' \in Nat /\ bytes' \in Nat /\ submitted' \in Nat
    BY <1>4, <2>1, ReleaseCounts DEF Finish
  <2>3. owed' \in [Actors -> Seq(Notices)]
    BY <1>4, NoticesAreTyped, Roles DEF Finish, Owe, TypeOK, Notices
  <2>4. /\ phase' \in [Reservations -> {"free", "reserved", "queued", "running"}]
        /\ size' \in [Reservations -> Nat]
    BY <1>4, <2>1 DEF Finish, Release, TypeOK
  <2>5. QED BY <1>4, <2>2, <2>3, <2>4 DEF Finish, Release, TypeOK, Notices
<1>5. QED BY <1>1, <1>2, <1>3, <1>4 DEF WorkerStep

\* Every other step leaves the budget alone.
LEMMA OtherCounts ==
  ASSUME EInv,
         \/ CloserStep
         \/ \E a \in Listeners : Await(a)
         \/ \E a \in Actors : Notify(a)
  PROVE  TypeOK' /\ Counted'
<1> USE DEF EInv
<1>1. Counted'
  BY StillCounted DEF CloserStep, Close, ShutdownSubmitted, Shutdown, DrainEnable, DrainCheck,
                      Await, Notify, budget
<1>2. CASE CloserStep
  <2>1. owed' \in [Actors -> Seq(Notices)]
    BY <1>2, NoticesAreTyped, Roles
       DEF CloserStep, Close, ShutdownSubmitted, Shutdown, DrainEnable, DrainCheck, Owe,
           TypeOK, Notices
  <2>2. task' \in [Listeners -> Tasks] /\ told' \in [Listeners -> BOOLEAN]
    BY <1>2, Roles
       DEF CloserStep, Close, ShutdownSubmitted, Shutdown, DrainEnable, DrainCheck, TypeOK, Tasks
  <2>3. QED BY <1>1, <1>2, <2>1, <2>2
            DEF CloserStep, Close, ShutdownSubmitted, Shutdown, DrainEnable, DrainCheck,
                TypeOK, Notices, budget
<1>3. CASE \E a \in Listeners : Await(a)
  BY <1>1, <1>3 DEF Await, TypeOK, Tasks, budget
<1>4. CASE \E a \in Actors : Notify(a)
  <2>1. PICK a \in Actors : Notify(a)
    BY <1>4
  <2>2. owed' \in [Actors -> Seq(Notices)]
    BY <2>1, NoticesAreTyped DEF Notify, TypeOK, Notices
  <2>3. told' \in [Listeners -> BOOLEAN]
    BY <2>1 DEF Notify, TypeOK
  <2>4. wpc' \in [Workers -> {"check", "asleep", "running", "exited"}]
    BY <2>1 DEF Notify, Wake, TypeOK
  <2>5. QED BY <1>1, <2>1, <2>2, <2>3, <2>4 DEF Notify, TypeOK, Notices, budget
<1>5. QED BY <1>2, <1>3, <1>4

\* Every step keeps the types and the counts.
LEMMA StepCounts ==
  ASSUME EInv, Next
  PROVE  TypeOK' /\ Counted'
BY ClientCounts, WorkerCounts, OtherCounts DEF Next

-----------------------------------------------------------------------------
\* Jobs

\* Reservations may come and go freely as long as no job is touched.
LEMMA JobsUntouched ==
  ASSUME TypeOK, JobsAreHeld, UNCHANGED <<queue, wjob>>,
         \A r \in Reservations : \/ phase'[r] = phase[r]
                                 \/ /\ phase[r] \in {"free", "reserved"}
                                    /\ phase'[r] \in {"free", "reserved"},
         \A w \in Workers : wpc'[w] = "running" <=> wpc[w] = "running"
  PROVE  JobsAreHeld'
<1>1. \A r \in Reservations : (phase'[r] = "queued" <=> phase[r] = "queued")
                              /\ (phase'[r] = "running" <=> phase[r] = "running")
  OBVIOUS
<1>2. \A w \in Workers : wjob[w] # NoJob => wjob[w] \in Reservations
  BY DEF TypeOK
<1>3. QED BY <1>1, <1>2 DEF JobsAreHeld

\* A client's step touches a job only when it submits one.
LEMMA ClientJobs ==
  ASSUME EInv, NEW c \in Clients, ClientStep(c)
  PROVE  JobsAreHeld'
<1> USE DEF EInv
<1>1. ASSUME NEW q \in Requests, HoldsNothing(c), Reserve(c, q), UNCHANGED <<queue, wpc, wjob>>
      PROVE  JobsAreHeld'
  <2>1. \A r \in Reservations : r[1] = c => phase[r] = "free"
    BY <1>1 DEF HoldsNothing, Reservations
  <2>2. \A r \in Reservations : \/ phase'[r] = phase[r]
                                \/ phase[r] = "free" /\ phase'[r] = "reserved"
    BY <1>1, <2>1 DEF Reserve
  <2>3. QED BY <1>1, <2>2, JobsUntouched
<1>2. CASE \E b \in Sizes : TryReserve(c, b)
  <2>1. PICK b \in Sizes : TryReserve(c, b)
    BY <1>2
  <2>2. [count |-> 1, bytes |-> b] \in Requests
    BY DEF Requests
  <2>3. QED BY <1>1, <2>1, <2>2 DEF TryReserve
<1>3. CASE \E q \in Requests : Enable(c, q)
  BY <1>3, JobsUntouched DEF Enable, budget
<1>4. CASE Attempt(c)
  <2>1. HoldsNothing(c) /\ want[c] \in Requests
    BY <1>4 DEF Attempt, HandsAreEmpty
  <2>2. CASE UNCHANGED phase
    BY <1>4, <2>2, JobsUntouched DEF Attempt
  <2>3. CASE Reserve(c, want[c])
    BY <1>1, <1>4, <2>1, <2>3 DEF Attempt
  <2>4. QED BY <1>4, <2>2, <2>3 DEF Attempt
<1>5. ASSUME NEW i \in {1, 2}, NEW b \in Sizes, Resize(<<c, i>>, b)
      PROVE  JobsAreHeld'
  BY <1>5, JobsUntouched DEF Resize
<1>6. ASSUME NEW i \in {1, 2}, phase[<<c, i>>] = "reserved", Release(<<c, i>>, FALSE),
             UNCHANGED <<queue, wpc, wjob>>
      PROVE  JobsAreHeld'
  <2>1. \A r \in Reservations : \/ phase'[r] = phase[r]
                                \/ phase[r] = "reserved" /\ phase'[r] = "free"
    BY <1>6 DEF Release, TypeOK
  <2>2. QED BY <1>6, <2>1, JobsUntouched
<1>7. ASSUME NEW i \in {1, 2}, DropReservation(<<c, i>>)
      PROVE  JobsAreHeld'
  BY <1>6, <1>7 DEF DropReservation
<1>8. ASSUME NEW i \in {1, 2}, Submit(<<c, i>>)
      PROVE  JobsAreHeld'
  <2>1. CASE ~allowReserved
    BY <1>6, <1>8, <2>1 DEF Submit
  <2>2. CASE allowReserved
    <3> DEFINE r == <<c, i>>
    <3>1. /\ r \in Reservations /\ phase[r] = "reserved"
          /\ phase' = [phase EXCEPT ![r] = "queued"]
          /\ queue' = Append(queue, r) /\ UNCHANGED <<wpc, wjob>>
      BY <1>8, <2>2, OwnersOfReservations DEF Submit
    <3> HIDE DEF r
    <3>2. /\ queue \in Seq(Reservations) /\ Len(queue) \in Nat
          /\ DOMAIN queue = 1..Len(queue) /\ DOMAIN queue' = 1..(Len(queue) + 1)
          /\ \A k \in 1..Len(queue) : queue'[k] = queue[k]
          /\ queue'[Len(queue) + 1] = r
      BY <3>1, AppendProperties, LenProperties DEF TypeOK
    <3>3. \A k \in DOMAIN queue : queue[k] # r
      BY <3>1 DEF JobsAreHeld
    <3>4. \A k \in DOMAIN queue' : k \in DOMAIN queue \/ k = Len(queue) + 1
      BY <3>2
    <3>5. \A k, l \in DOMAIN queue' : queue'[k] = queue'[l] => k = l
      BY <3>2, <3>3, <3>4 DEF JobsAreHeld
    <3>6. \A s \in Reservations :
            phase'[s] = "queued" <=> \E k \in DOMAIN queue' : queue'[k] = s
      <4>1. TAKE s \in Reservations
      <4>2. CASE s = r
        <5>1. phase'[s] = "queued"
          BY <3>1, <4>2 DEF TypeOK
        <5>2. Len(queue) + 1 \in DOMAIN queue' /\ queue'[Len(queue) + 1] = s
          BY <3>2, <4>2
        <5>3. QED BY <5>1, <5>2
      <4>3. CASE s # r
        <5>1. phase'[s] = phase[s]
          BY <3>1, <4>3
        <5>2. (\E k \in DOMAIN queue : queue[k] = s) <=> (\E k \in DOMAIN queue' : queue'[k] = s)
          BY <3>2, <3>4, <4>3
        <5>3. QED BY <5>1, <5>2 DEF JobsAreHeld
      <4>4. QED BY <4>2, <4>3
    <3>7. \A w \in Workers : wjob[w] # NoJob => phase'[wjob[w]] = "running"
      BY <3>1 DEF JobsAreHeld, TypeOK
    <3>8. \A s \in Reservations : phase'[s] = "running" => phase[s] = "running"
      BY <3>1 DEF TypeOK
    <3>9. QED BY <3>1, <3>5, <3>6, <3>7, <3>8 DEF JobsAreHeld
  <2>3. QED BY <2>1, <2>2
<1>9. QED BY <1>2, <1>3, <1>4, <1>5, <1>7, <1>8 DEF ClientStep

\* A worker's step moves a job from the queue to that worker, or ends it.
LEMMA WorkerJobs ==
  ASSUME EInv, NEW w \in Workers, WorkerStep(w)
  PROVE  JobsAreHeld'
<1> USE DEF EInv
<1>1. CASE Take(w)
  <2> DEFINE r == Head(queue)
  <2>1. /\ r \in Reservations /\ phase[r] = "queued" /\ queue # <<>>
        /\ 1 \in DOMAIN queue /\ queue[1] = r
    BY <1>1, HeadIsQueued DEF Take
  <2>2. /\ queue' = Tail(queue) /\ phase' = [phase EXCEPT ![r] = "running"]
        /\ wjob' = [wjob EXCEPT ![w] = r] /\ wpc' = [wpc EXCEPT ![w] = "running"]
    BY <1>1 DEF Take
  <2> HIDE DEF r
  <2>3. /\ Len(queue) \in Nat \ {0}
        /\ DOMAIN queue = 1..Len(queue) /\ DOMAIN queue' = 1..(Len(queue) - 1)
        /\ \A k \in 1..(Len(queue) - 1) : queue'[k] = queue[k + 1]
    BY <2>1, <2>2, HeadTailProperties, LenProperties, EmptySeq DEF TypeOK
  <2>4. \A k, l \in DOMAIN queue' : queue'[k] = queue'[l] => k = l
    <3>1. TAKE k, l \in DOMAIN queue'
    <3>2. /\ k + 1 \in DOMAIN queue /\ l + 1 \in DOMAIN queue /\ k \in Int /\ l \in Int
          /\ queue'[k] = queue[k + 1] /\ queue'[l] = queue[l + 1]
      BY <2>3, <3>1
    <3>3. queue[k + 1] = queue[l + 1] => k + 1 = l + 1
      BY <3>2 DEF JobsAreHeld
    <3>4. QED BY <3>2, <3>3
  <2>5. \A s \in Reservations :
          phase'[s] = "queued" <=> \E k \in DOMAIN queue' : queue'[k] = s
    <3>1. TAKE s \in Reservations
    <3>2. CASE s = r
      <4>1. phase'[s] # "queued"
        BY <2>1, <2>2, <3>2 DEF TypeOK
      <4>2. ASSUME NEW k \in DOMAIN queue', queue'[k] = s PROVE FALSE
        <5>1. k + 1 \in DOMAIN queue /\ queue[k + 1] = r /\ k + 1 # 1
          BY <2>3, <3>2, <4>2
        <5>2. QED BY <2>1, <5>1 DEF JobsAreHeld
      <4>3. QED BY <4>1, <4>2
    <3>3. CASE s # r
      <4>1. phase'[s] = phase[s]
        BY <2>2, <3>3
      <4>2. ASSUME NEW k \in DOMAIN queue, queue[k] = s
            PROVE  \E l \in DOMAIN queue' : queue'[l] = s
        <5>1. k # 1 /\ k \in 1..Len(queue)
          BY <2>1, <2>3, <3>3, <4>2
        <5>2. k - 1 \in DOMAIN queue' /\ queue'[k - 1] = queue[(k - 1) + 1] /\ (k - 1) + 1 = k
          BY <2>3, <5>1
        <5>3. QED BY <4>2, <5>2
      <4>3. ASSUME NEW l \in DOMAIN queue', queue'[l] = s
            PROVE  \E k \in DOMAIN queue : queue[k] = s
        <5>1. l + 1 \in DOMAIN queue /\ queue[l + 1] = s
          BY <2>3, <4>3
        <5>2. QED BY <5>1
      <4>4. QED BY <4>1, <4>2, <4>3 DEF JobsAreHeld
    <3>4. QED BY <3>2, <3>3
  <2>6. \A v \in Workers : wjob[v] # r
    BY <2>1, OwnersOfReservations DEF JobsAreHeld
  <2>7. \A v \in Workers : v # w => wjob'[v] = wjob[v] /\ wpc'[v] = wpc[v]
    BY <2>2
  <2>8. wjob'[w] = r /\ wpc'[w] = "running" /\ r # NoJob
    BY <2>1, <2>2, OwnersOfReservations DEF TypeOK
  <2>9. \A v \in Workers : wjob'[v] # NoJob => phase'[wjob'[v]] = "running"
    BY <2>1, <2>2, <2>7, <2>8 DEF JobsAreHeld, TypeOK
  <2>10. \A s \in Reservations : phase'[s] = "running" => \E v \in Workers : wjob'[v] = s
    <3>1. TAKE s \in Reservations
    <3>2. HAVE phase'[s] = "running"
    <3>3. CASE s = r
      BY <2>8, <3>3
    <3>4. CASE s # r
      <4>1. phase[s] = "running"
        BY <2>2, <3>2, <3>4
      <4>2. PICK v \in Workers : wjob[v] = s
        BY <4>1 DEF JobsAreHeld
      <4>3. v # w
        <5>1. wpc[w] # "running"
          BY <1>1 DEF Take
        <5>2. wjob[w] = NoJob
          BY <5>1 DEF JobsAreHeld
        <5>3. QED BY <4>2, <5>2, OwnersOfReservations
      <4>4. QED BY <2>7, <4>2, <4>3
    <3>5. QED BY <3>3, <3>4
  <2>11. QED BY <2>4, <2>5, <2>6, <2>7, <2>8, <2>9, <2>10 DEF JobsAreHeld
<1>2. CASE Exit(w) \/ Wait(w) \/ SpuriousWakeup(w)
  <2>1. \A v \in Workers : wpc'[v] = "running" <=> wpc[v] = "running"
    BY <1>2 DEF Exit, Wait, SpuriousWakeup, TypeOK
  <2>2. UNCHANGED <<queue, phase, wjob>>
    BY <1>2 DEF Exit, Wait, SpuriousWakeup
  <2>3. QED BY <2>1, <2>2, JobsUntouched
<1>3. CASE Finish(w)
  <2> DEFINE r == wjob[w]
  <2>1. r \in Reservations /\ phase[r] = "running" /\ r # NoJob
    BY <1>3 DEF Finish, JobsAreHeld, TypeOK
  <2>2. /\ UNCHANGED queue /\ phase' = [phase EXCEPT ![r] = "free"]
        /\ wjob' = [wjob EXCEPT ![w] = NoJob] /\ wpc' = [wpc EXCEPT ![w] = "check"]
    BY <1>3 DEF Finish, Release
  <2>3. \A s \in Reservations : s # r => phase'[s] = phase[s]
    BY <2>2
  <2>4. phase'[r] = "free" /\ wjob'[w] = NoJob /\ wpc'[w] = "check"
    BY <2>1, <2>2 DEF TypeOK
  <2>5. \A v \in Workers : v # w => wjob'[v] = wjob[v] /\ wpc'[v] = wpc[v]
    BY <2>2
  <2>6. \A v \in Workers : v # w => wjob[v] # r
    BY <2>1 DEF JobsAreHeld
  <2>7. \A v \in Workers : wjob[v] = NoJob \/ wjob[v] \in Reservations
    BY DEF TypeOK
  <2> HIDE DEF r
  <2>8. \A s \in Reservations : phase'[s] = "running" => \E v \in Workers : wjob'[v] = s
    <3>1. TAKE s \in Reservations
    <3>2. HAVE phase'[s] = "running"
    <3>3. s # r /\ phase[s] = "running"
      BY <2>3, <2>4, <3>2
    <3>4. PICK v \in Workers : wjob[v] = s
      BY <3>3 DEF JobsAreHeld
    <3>5. v # w
      BY <3>3, <3>4 DEF r
    <3>6. QED BY <2>5, <3>4, <3>5
  <2>9. \A s \in Reservations : phase'[s] = "queued" <=> phase[s] = "queued"
    BY <2>1, <2>3, <2>4
  <2>10. \A v \in Workers : wjob'[v] # NoJob => phase'[wjob'[v]] = "running"
    BY <2>3, <2>4, <2>5, <2>6, <2>7 DEF JobsAreHeld
  <2>11. QED BY <2>2, <2>4, <2>5, <2>8, <2>9, <2>10 DEF JobsAreHeld
<1>4. QED BY <1>1, <1>2, <1>3 DEF WorkerStep

\* Every step keeps each job in its one place.
LEMMA StepJobs ==
  ASSUME EInv, Next
  PROVE  JobsAreHeld'
<1> USE DEF EInv
<1>1. CASE CloserStep \/ \E a \in Listeners : Await(a)
  <2>1. UNCHANGED <<queue, phase, wpc, wjob>>
    BY <1>1 DEF CloserStep, Close, ShutdownSubmitted, Shutdown, DrainEnable, DrainCheck, Await
  <2>2. QED BY <2>1, JobsUntouched
<1>2. CASE \E a \in Actors : Notify(a)
  <2>1. UNCHANGED <<queue, phase, wjob>>
    BY <1>2 DEF Notify
  <2>2. \A w \in Workers : wpc'[w] = "running" <=> wpc[w] = "running"
    BY <1>2 DEF Notify, Wake, Asleep, TypeOK
  <2>3. QED BY <2>1, <2>2, JobsUntouched
<1>3. QED BY <1>1, <1>2, ClientJobs, WorkerJobs DEF Next

-----------------------------------------------------------------------------
\* What the actors may do to each other

\* Actor a has told the waiters that capacity may have come free.
Announces(a) == \E i \in DOMAIN owed'[a] : owed'[a][i] = "changed"

\* A client's step as the others see it: it leaves them alone, adds work only
\* while the executor takes it, and announces whatever capacity it gives back.
ClientMoves(c) ==
  /\ UNCHANGED <<accepting, allowReserved, wpc, wjob, drain>>
  /\ \A x \in Listeners : x # c => task'[x] = task[x] /\ told'[x] = told[x]
  /\ \A x \in Clients : x # c => want'[x] = want[x] /\ (HoldsNothing(x) => HoldsNothing(x)')
  /\ \A a \in Actors : a # c => owed'[a] = owed[a]
  /\ owed'[c] = owed[c] \/ owed[c] = <<>>
  /\ jobs' = 0 \/ jobs # 0 \/ accepting
  /\ submitted' = submitted \/ (allowReserved /\ jobs # 0)
  /\ queue' = queue \/ (allowReserved /\ jobs # 0)
  /\ (jobs <= jobs' /\ bytes <= bytes') \/ (Announces(c) /\ jobs # 0)

\* Where a client's own step leaves it.
ClientLands(c) ==
  /\ task'[c] # "idle" =>
       /\ task'[c] \in {"armed", "refused"} /\ HoldsNothing(c)'
       /\ want'[c] \in Requests /\ owed'[c] = <<>>
  /\ task'[c] = "refused" =>
       accepting /\ ~Fits(want[c]) /\ UNCHANGED <<jobs, bytes, want>>

\* A reservation that exists is counted, and so is a job.
LEMMA HeldIsCounted ==
  ASSUME TypeOK, Counted
  PROVE  /\ \A r \in Reservations : phase[r] # "free" => jobs # 0
         /\ \A r \in Reservations : phase[r] \in {"queued", "running"} => submitted # 0
         /\ (\A r \in Reservations : phase[r] = "free") => jobs = 0
<1>1. Live \in SUBSET Reservations /\ InFlight \in SUBSET Reservations
  BY DEF Live, InFlight
<1>2. IsFiniteSet(Live) /\ IsFiniteSet(InFlight)
  BY <1>1, FiniteReservations
<1>3. (jobs = 0 <=> Live = {}) /\ (submitted = 0 <=> InFlight = {})
  BY <1>2, FS_EmptySet DEF Counted, BudgetIsExact
<1>4. QED BY <1>3 DEF Live, InFlight

\* Reserving touches no other client and only adds to the counters.
LEMMA ReservingMoves ==
  ASSUME EInv, NEW c \in Clients, NEW q \in Requests, accepting, Reserve(c, q)
  PROVE  /\ \A x \in Clients : x # c => (HoldsNothing(x) => HoldsNothing(x)')
         /\ jobs <= jobs' /\ bytes <= bytes'
<1> USE DEF EInv
<1>1. q.count \in {1, 2} /\ q.bytes \in Nat
  BY DEF Requests, Limits
<1>2. jobs <= jobs' /\ bytes <= bytes'
  BY <1>1 DEF Reserve, TypeOK
<1>3. ASSUME NEW x \in Clients, x # c, HoldsNothing(x), NEW i \in {1, 2}
      PROVE  phase'[<<x, i>>] = "free"
  BY <1>3, OwnersOfReservations DEF Reserve, HoldsNothing
<1>4. QED BY <1>2, <1>3 DEF HoldsNothing

\* Nor does dropping one.
LEMMA DroppingMoves ==
  ASSUME EInv, NEW c \in Clients, NEW i \in {1, 2}, phase[<<c, i>>] # "free",
         NEW was \in BOOLEAN, Release(<<c, i>>, was)
  PROVE  /\ \A x \in Clients : HoldsNothing(x) => HoldsNothing(x)'
         /\ jobs # 0
<1> USE DEF EInv
<1>1. <<c, i>> \in Reservations
  BY OwnersOfReservations
<1>2. ASSUME NEW x \in Clients, HoldsNothing(x), NEW j \in {1, 2}
      PROVE  phase'[<<x, j>>] = "free"
  BY <1>1, <1>2, OwnersOfReservations DEF Release, HoldsNothing, TypeOK
<1>3. QED BY <1>1, <1>2, HeldIsCounted DEF HoldsNothing

\* Every step of a client is such a move and leaves the client so.
LEMMA ClientEffects ==
  ASSUME EInv, NEW c \in Clients, ClientStep(c)
  PROVE  ClientMoves(c) /\ ClientLands(c)
<1> USE DEF EInv
<1>0. c \in Listeners /\ c \in Actors /\ jobs \in Nat /\ bytes \in Nat
  BY Roles DEF TypeOK
<1>1. CASE \E b \in Sizes : TryReserve(c, b)
  <2>1. PICK b \in Sizes : TryReserve(c, b)
    BY <1>1
  <2> DEFINE q == [count |-> 1, bytes |-> b]
  <2>2. q \in Requests
    BY DEF Requests
  <2>3. /\ accepting /\ Reserve(c, q) /\ task[c] = "idle"
        /\ UNCHANGED <<queue, task, want, told, wpc, wjob, owed, drain>>
    BY <2>1 DEF TryReserve, Idle
  <2>4. /\ \A x \in Clients : x # c => (HoldsNothing(x) => HoldsNothing(x)')
        /\ jobs <= jobs' /\ bytes <= bytes'
    BY <2>2, <2>3, ReservingMoves
  <2>5. ClientMoves(c)
    BY <2>3, <2>4 DEF ClientMoves, Reserve
  <2>6. QED BY <2>3, <2>5 DEF ClientLands
<1>2. CASE \E q \in Requests : Enable(c, q)
  <2>1. PICK q \in Requests : Enable(c, q)
    BY <1>2
  <2>2. HoldsNothing(c) /\ Ready(c)
    BY <1>0, <2>1 DEF Enable, Idle, HandsAreEmpty, Listening
  <2>3. /\ UNCHANGED <<queue, budget, phase, size, wpc, wjob, owed, drain>>
        /\ task' = [task EXCEPT ![c] = "armed"] /\ want' = [want EXCEPT ![c] = q]
        /\ told' = [told EXCEPT ![c] = FALSE]
    BY <2>1 DEF Enable
  <2>4. ClientMoves(c)
    BY <1>0, <2>3 DEF ClientMoves, HoldsNothing, budget, TypeOK
  <2>5. task'[c] = "armed" /\ want'[c] = q /\ owed'[c] = <<>> /\ HoldsNothing(c)'
    BY <1>0, <2>2, <2>3 DEF HoldsNothing, Ready, TypeOK
  <2>6. QED BY <2>4, <2>5 DEF ClientLands
<1>3. CASE Attempt(c)
  <2>1. task[c] = "armed" /\ HoldsNothing(c) /\ want[c] \in Requests /\ Ready(c)
    BY <1>0, <1>3 DEF Attempt, HandsAreEmpty, Listening
  <2>2. UNCHANGED <<queue, wpc, wjob, owed, drain>>
    BY <1>3 DEF Attempt
  <2>3. CASE Answered(c)
    <3>1. CASE UNCHANGED <<budget, phase, size>>
      BY <1>0, <2>2, <2>3, <3>1
         DEF ClientMoves, ClientLands, Answered, HoldsNothing, budget, TypeOK
    <3>2. CASE accepting /\ Reserve(c, want[c])
      <4>1. /\ \A x \in Clients : x # c => (HoldsNothing(x) => HoldsNothing(x)')
            /\ jobs <= jobs' /\ bytes <= bytes'
        BY <2>1, <3>2, ReservingMoves
      <4>2. ClientMoves(c)
        BY <1>0, <2>2, <2>3, <3>2, <4>1 DEF ClientMoves, Answered, Reserve, TypeOK
      <4>3. task'[c] = "idle"
        BY <1>0, <2>3 DEF Answered, TypeOK
      <4>4. QED BY <4>2, <4>3 DEF ClientLands
    <3>3. QED BY <1>3, <2>1, <2>3, <3>1, <3>2 DEF Attempt, Answered
  <2>4. CASE ~Answered(c)
    <3>1. /\ accepting /\ ~Fits(want[c]) /\ task' = [task EXCEPT ![c] = "refused"]
          /\ UNCHANGED <<want, told, budget, phase, size>>
      BY <1>3, <2>4 DEF Attempt
    <3>2. ClientMoves(c)
      BY <1>0, <2>2, <3>1 DEF ClientMoves, HoldsNothing, budget, TypeOK
    <3>3. task'[c] = "refused" /\ want'[c] \in Requests /\ owed'[c] = <<>> /\ HoldsNothing(c)'
      BY <1>0, <2>1, <2>2, <3>1 DEF HoldsNothing, Ready, TypeOK
    <3>4. QED BY <3>1, <3>2, <3>3 DEF ClientLands, budget
  <2>5. QED BY <2>3, <2>4
<1>4. ASSUME NEW i \in {1, 2}, NEW b \in Sizes, Resize(<<c, i>>, b)
      PROVE  ClientMoves(c) /\ ClientLands(c)
  <2>1. <<c, i>> \in Reservations /\ <<c, i>>[1] = c
    BY OwnersOfReservations
  <2>2. task[c] = "idle" /\ owed[c] = <<>> /\ phase[<<c, i>>] = "reserved"
        /\ owed' = [owed EXCEPT ![c] = <<"changed">>]
    BY <1>4, <2>1 DEF Resize, Idle, Ready, Owe
  <2>3. owed'[c] = <<"changed">> /\ \A a \in Actors : a # c => owed'[a] = owed[a]
    BY <1>0, <2>2 DEF TypeOK
  <2>4. Announces(c) /\ jobs # 0
    BY <2>1, <2>2, <2>3, HeldIsCounted DEF Announces
  <2>5. QED BY <1>4, <2>2, <2>3, <2>4 DEF Resize, ClientMoves, ClientLands, HoldsNothing
<1>5. ASSUME NEW i \in {1, 2}, Idle(c), phase[<<c, i>>] = "reserved", Release(<<c, i>>, FALSE),
             Owe(c, <<"changed", "ready">>),
             UNCHANGED <<queue, task, want, told, wpc, wjob, drain>>
      PROVE  ClientMoves(c) /\ ClientLands(c)
  <2>1. (\A x \in Clients : HoldsNothing(x) => HoldsNothing(x)') /\ jobs # 0
    BY <1>5, DroppingMoves
  <2>2. task[c] = "idle" /\ owed[c] = <<>>
    BY <1>5 DEF Idle, Ready
  <2>3. owed'[c] = <<"changed", "ready">> /\ \A a \in Actors : a # c => owed'[a] = owed[a]
    BY <1>0, <1>5 DEF Owe, TypeOK
  <2>4. Announces(c)
    <3>1. 1 \in DOMAIN owed'[c] /\ owed'[c][1] = "changed"
      BY <2>3
    <3>2. QED BY <3>1 DEF Announces
  <2>5. submitted' = submitted /\ UNCHANGED <<accepting, allowReserved>>
    BY <1>5 DEF Release, TypeOK
  <2>6. QED BY <1>5, <2>1, <2>2, <2>3, <2>4, <2>5 DEF ClientMoves, ClientLands
<1>6. ASSUME NEW i \in {1, 2}, DropReservation(<<c, i>>)
      PROVE  ClientMoves(c) /\ ClientLands(c)
  BY <1>5, <1>6, OwnersOfReservations DEF DropReservation
<1>7. ASSUME NEW i \in {1, 2}, Submit(<<c, i>>)
      PROVE  ClientMoves(c) /\ ClientLands(c)
  <2>1. <<c, i>> \in Reservations /\ <<c, i>>[1] = c
    BY OwnersOfReservations
  <2>2. CASE ~allowReserved
    BY <1>5, <1>7, <2>1, <2>2 DEF Submit
  <2>3. CASE allowReserved
    <3>1. /\ task[c] = "idle" /\ owed[c] = <<>> /\ phase[<<c, i>>] = "reserved"
          /\ phase' = [phase EXCEPT ![<<c, i>>] = "queued"]
          /\ owed' = [owed EXCEPT ![c] = <<"ready_one">>]
          /\ UNCHANGED <<accepting, allowReserved, jobs, bytes>>
          /\ UNCHANGED <<task, want, told, wpc, wjob, drain>>
      BY <1>7, <2>1, <2>3 DEF Submit, Idle, Ready, Owe
    <3>2. jobs # 0
      BY <2>1, <3>1, HeldIsCounted
    <3>3. \A x \in Clients : x # c => (HoldsNothing(x) => HoldsNothing(x)')
      <4>1. ASSUME NEW x \in Clients, x # c, HoldsNothing(x), NEW j \in {1, 2}
            PROVE  phase'[<<x, j>>] = "free"
        BY <3>1, <4>1, OwnersOfReservations DEF HoldsNothing
      <4>2. QED BY <4>1 DEF HoldsNothing
    <3>4. \A a \in Actors : a # c => owed'[a] = owed[a]
      BY <3>1
    <3>5. QED BY <1>0, <2>3, <3>1, <3>2, <3>3, <3>4 DEF ClientMoves, ClientLands
  <2>4. QED BY <2>2, <2>3
<1>8. QED BY <1>1, <1>2, <1>3, <1>4, <1>6, <1>7 DEF ClientStep

-----------------------------------------------------------------------------
\* Closing

\* WorkersLeft is zero exactly when every worker has left.
LEMMA NobodyLeft ==
  WorkersLeft = 0 <=> \A w \in Workers : wpc[w] = "exited"
<1> DEFINE Left == {w \in Workers : wpc[w] # "exited"}
<1>1. IsFiniteSet(Left)
  BY FS_Subset DEF Limits
<1>2. Cardinality(Left) = 0 <=> Left = {}
  BY <1>1, FS_EmptySet
<1>3. QED BY <1>2 DEF WorkersLeft

\* A client cannot add to an executor its workers have left.
LEMMA ClientCloses ==
  ASSUME EInv, NEW c \in Clients, ClientStep(c)
  PROVE  ClosesInOrder'
<1> USE DEF EInv
<1>1. ClientMoves(c)
  BY ClientEffects
<1>2. UNCHANGED <<accepting, allowReserved, wpc, drain>> /\ task'[Closer] = task[Closer]
  BY <1>1, Roles DEF ClientMoves
<1>3. (\E w \in Workers : wpc[w] = "exited") /\ jobs = 0 => jobs' = 0
  BY <1>1 DEF ClientMoves, ClosesInOrder
<1>4. (\A w \in Workers : wpc[w] = "exited") => queue' = queue
  <2>1. \E w \in Workers : TRUE
    BY DEF Limits
  <2>2. QED BY <1>1, <2>1 DEF ClientMoves, ClosesInOrder
<1>5. task[Closer] = "done" => LeftToDrain' = 0
  <2>1. HAVE task[Closer] = "done"
  <2>2. LeftToDrain = 0 /\ (drain = "all" \/ drain = "submitted")
        /\ \E w \in Workers : wpc[w] = "exited"
    BY <2>1 DEF ClosesInOrder, TypeOK, Limits
  <2>3. CASE drain = "all"
    BY <1>2, <1>3, <2>2, <2>3 DEF LeftToDrain
  <2>4. CASE drain = "submitted"
    <3>1. submitted' = submitted
      BY <1>1, <2>4 DEF ClosesInOrder, ClientMoves
    <3>2. QED BY <1>2, <2>2, <2>4, <3>1 DEF LeftToDrain
  <2>5. QED BY <2>2, <2>3, <2>4
<1>6. QED BY <1>2, <1>3, <1>4, <1>5 DEF ClosesInOrder

\* A worker leaves in order, and while it is there nothing has been drained.
LEMMA WorkerCloses ==
  ASSUME EInv, NEW w \in Workers, WorkerStep(w)
  PROVE  ClosesInOrder'
<1> USE DEF EInv
<1>1. wpc[w] # "exited" /\ task[Closer] # "done"
  BY DEF WorkerStep, Take, Exit, Wait, SpuriousWakeup, Finish, ClosesInOrder
<1>2. UNCHANGED <<accepting, allowReserved, task, drain>>
  BY DEF WorkerStep, Take, Exit, Wait, SpuriousWakeup, Finish, Release, budget
<1>3. CASE Exit(w)
  <2>1. queue' = <<>> /\ ~accepting' /\ (jobs' = 0 \/ ~allowReserved')
    BY <1>3 DEF Exit, MayExit, budget
  <2>2. QED BY <1>1, <1>2, <2>1 DEF ClosesInOrder
<1>4. CASE ~Exit(w)
  <2>1. wpc'[w] # "exited" /\ \A v \in Workers : v # w => wpc'[v] = wpc[v]
    BY <1>4 DEF WorkerStep, Take, Wait, SpuriousWakeup, Finish, TypeOK
  <2>2. jobs' = jobs \/ jobs # 0
    <3>1. CASE Finish(w)
      <4>1. wjob[w] \in Reservations /\ phase[wjob[w]] = "running"
        BY <3>1 DEF Finish, JobsAreHeld, TypeOK
      <4>2. QED BY <4>1, HeldIsCounted
    <3>2. CASE ~Finish(w)
      BY <1>4, <3>2 DEF WorkerStep, Take, Wait, SpuriousWakeup, budget
    <3>3. QED BY <3>1, <3>2
  <2>3. (\E v \in Workers : wpc'[v] = "exited") => \E v \in Workers : wpc[v] = "exited"
    BY <2>1
  <2>4. ~ \A v \in Workers : wpc'[v] = "exited"
    BY <2>1
  <2>5. QED BY <1>1, <1>2, <2>2, <2>3, <2>4 DEF ClosesInOrder
<1>5. QED BY <1>3, <1>4

\* Every step keeps the closing in order.
LEMMA StepCloses ==
  ASSUME EInv, Next
  PROVE  ClosesInOrder'
<1> USE DEF EInv
<1>1. CASE Close \/ ShutdownSubmitted \/ Shutdown
  <2>1. UNCHANGED <<queue, submitted, jobs, bytes, wpc>> /\ drain = "none" /\ ~accepting'
    BY <1>1 DEF Close, ShutdownSubmitted, Shutdown
  <2>2. CASE Close
    BY <2>1, <2>2 DEF Close, ClosesInOrder
  <2>3. CASE ShutdownSubmitted
    <3>1. task'[Closer] = "closing" /\ drain' = "submitted" /\ ~allowReserved'
      BY <2>3, Roles DEF ShutdownSubmitted, TypeOK
    <3>2. QED BY <2>1, <3>1 DEF ClosesInOrder
  <2>4. CASE Shutdown
    <3>1. task'[Closer] = "closing" /\ drain' = "all" /\ allowReserved' = allowReserved
      BY <2>4, Roles DEF Shutdown, TypeOK
    <3>2. QED BY <2>1, <3>1 DEF ClosesInOrder
  <2>5. QED BY <1>1, <2>2, <2>3, <2>4
<1>2. CASE DrainEnable \/ DrainCheck
  <2>1. /\ UNCHANGED <<queue, budget, wpc, drain>> /\ task[Closer] # "idle"
        /\ task'[Closer] # "idle"
    BY <1>2, Roles DEF DrainEnable, DrainCheck, TypeOK
  <2>2. LeftToDrain' = LeftToDrain
    BY <2>1 DEF LeftToDrain, budget
  <2>3. task'[Closer] = "done" => LeftToDrain = 0 /\ \A w \in Workers : wpc[w] = "exited"
    BY <1>2, Roles, NobodyLeft DEF DrainEnable, DrainCheck, TypeOK
  <2>4. QED BY <2>1, <2>2, <2>3 DEF ClosesInOrder, budget
<1>3. CASE \E a \in Listeners : Await(a)
  <2>1. UNCHANGED <<queue, budget, wpc, drain>>
    BY <1>3 DEF Await
  <2>2. (task'[Closer] = "idle" <=> task[Closer] = "idle")
        /\ (task'[Closer] = "done" => task[Closer] = "done")
    BY <1>3, Roles DEF Await, TypeOK
  <2>3. QED BY <2>1, <2>2 DEF ClosesInOrder, LeftToDrain, budget
<1>4. CASE \E a \in Actors : Notify(a)
  <2>1. UNCHANGED <<queue, budget, task, drain>>
    BY <1>4 DEF Notify
  <2>2. \A w \in Workers : wpc'[w] = "exited" <=> wpc[w] = "exited"
    BY <1>4 DEF Notify, Wake, Asleep, TypeOK
  <2>3. QED BY <2>1, <2>2 DEF ClosesInOrder, LeftToDrain, budget
<1>5. QED BY <1>1, <1>2, <1>3, <1>4, ClientCloses, WorkerCloses DEF Next, CloserStep

-----------------------------------------------------------------------------
\* Empty hands

\* Every step keeps the hands of those who wait empty.
LEMMA StepHands ==
  ASSUME EInv, Next
  PROVE  HandsAreEmpty'
<1> USE DEF EInv
<1>1. ASSUME NEW c \in Clients, ClientStep(c) PROVE HandsAreEmpty'
  <2>1. ClientMoves(c) /\ ClientLands(c)
    BY <1>1, ClientEffects
  <2>2. \A x \in Clients : task'[x] # "idle" =>
          task'[x] \in {"armed", "refused", "awaiting"} /\ HoldsNothing(x)' /\ want'[x] \in Requests
    BY <2>1, Roles DEF ClientMoves, ClientLands, HandsAreEmpty
  <2>3. \A a \in Listeners : Listening(a)' => Ready(a)'
    BY <2>1, Roles DEF ClientMoves, ClientLands, HandsAreEmpty, Listening, Ready
  <2>4. \A w \in Workers : wpc'[w] = "running" => Ready(w)'
    BY <2>1, Roles DEF ClientMoves, HandsAreEmpty, Ready
  <2>5. QED BY <2>2, <2>3, <2>4 DEF HandsAreEmpty
<1>2. ASSUME NEW w \in Workers, WorkerStep(w) PROVE HandsAreEmpty'
  <2>1. UNCHANGED <<task, want>>
    BY <1>2 DEF WorkerStep, Take, Exit, Wait, SpuriousWakeup, Finish
  <2>2. \A a \in Actors : a # w => owed'[a] = owed[a]
    BY <1>2 DEF WorkerStep, Take, Exit, Wait, SpuriousWakeup, Finish, Owe, TypeOK
  <2>3. \A v \in Workers : v # w => wpc'[v] = wpc[v]
    BY <1>2 DEF WorkerStep, Take, Exit, Wait, SpuriousWakeup, Finish, TypeOK
  <2>4. wpc'[w] = "running" => owed'[w] = <<>>
    BY <1>2 DEF WorkerStep, Take, Exit, Wait, SpuriousWakeup, Finish, Ready, TypeOK
  <2>5. \A r \in Reservations : phase[r] = "free" => phase'[r] = "free"
    <3>1. CASE Take(w)
      BY <3>1, HeadIsQueued DEF Take
    <3>2. CASE Finish(w)
      BY <3>2 DEF Finish, Release, TypeOK
    <3>3. CASE Exit(w) \/ Wait(w) \/ SpuriousWakeup(w)
      BY <3>3 DEF Exit, Wait, SpuriousWakeup
    <3>4. QED BY <1>2, <3>1, <3>2, <3>3 DEF WorkerStep
  <2>6. \A c \in Clients : HoldsNothing(c) => HoldsNothing(c)'
    BY <2>5, OwnersOfReservations DEF HoldsNothing
  <2>7. QED BY <2>1, <2>2, <2>3, <2>4, <2>6, Roles DEF HandsAreEmpty, Listening, Ready
<1>3. CASE CloserStep
  <2>1. UNCHANGED <<phase, want, wpc>>
    BY <1>3 DEF CloserStep, Close, ShutdownSubmitted, Shutdown, DrainEnable, DrainCheck
  <2>2. /\ \A a \in Actors : a # Closer => owed'[a] = owed[a]
        /\ \A a \in Listeners : a # Closer => task'[a] = task[a]
    BY <1>3 DEF CloserStep, Close, ShutdownSubmitted, Shutdown, DrainEnable, DrainCheck, Owe,
           TypeOK
  <2>3. Listening(Closer)' => Ready(Closer)'
    BY <1>3, Roles DEF CloserStep, Close, ShutdownSubmitted, Shutdown, DrainEnable, DrainCheck,
                       Idle, Listening, Ready, HandsAreEmpty, TypeOK
  <2>4. QED BY <2>1, <2>2, <2>3, Roles DEF HandsAreEmpty, HoldsNothing, Listening, Ready
<1>4. CASE \E a \in Listeners : Await(a)
  <2>1. PICK a \in Listeners : Await(a)
    BY <1>4
  <2>2. UNCHANGED <<phase, want, wpc, owed>> /\ task[a] = "refused" /\ task'[a] = "awaiting"
        /\ \A x \in Listeners : x # a => task'[x] = task[x]
    BY <2>1 DEF Await, TypeOK
  <2>3. QED BY <2>2, Roles DEF HandsAreEmpty, HoldsNothing, Listening, Ready
<1>5. CASE \E a \in Actors : Notify(a)
  <2>1. PICK a \in Actors : Notify(a)
    BY <1>5
  <2>2. UNCHANGED <<phase, task, want>> /\ owed[a] # <<>>
        /\ \A x \in Actors : x # a => owed'[x] = owed[x]
    BY <2>1 DEF Notify
  <2>3. \A w \in Workers : wpc'[w] = "running" => wpc[w] = "running"
    BY <2>1 DEF Notify, Wake, Asleep, TypeOK
  <2>4. QED BY <2>2, <2>3, Roles DEF HandsAreEmpty, HoldsNothing, Listening, Ready
<1>6. QED BY <1>1, <1>2, <1>3, <1>4, <1>5 DEF Next

-----------------------------------------------------------------------------
\* Refusals

\* What did not fit does not fit after the counters grew.
LEMMA FitsShrinks ==
  ASSUME TypeOK, TypeOK', NEW q \in Requests, jobs <= jobs', bytes <= bytes', ~Fits(q)
  PROVE  ~Fits(q)'
<1>1. q.count \in {1, 2} /\ q.bytes \in Nat
  BY DEF Requests, Limits
<1>2. CASE q.count = 1
  BY <1>1, <1>2 DEF Fits, TypeOK, Limits
<1>3. CASE q.count = 2
  BY <1>1, <1>3 DEF Fits, TypeOK, Limits
<1>4. QED BY <1>1, <1>2, <1>3

\* A notification stays owed while nobody's list is overwritten.
LEMMA ChangeStaysOwed ==
  ASSUME ChangeIsOwed, \A a \in Actors : owed'[a] = owed[a] \/ owed[a] = <<>>
  PROVE  ChangeIsOwed'
<1>1. PICK a \in Actors : \E i \in DOMAIN owed[a] : owed[a][i] = "changed"
  BY DEF ChangeIsOwed
<1>2. owed[a] # <<>>
  BY <1>1
<1>3. QED BY <1>1, <1>2 DEF ChangeIsOwed

\* A client that gives capacity back tells those it may help.
LEMMA ClientRefusals ==
  ASSUME EInv, NEW c \in Clients, ClientStep(c)
  PROVE  RefusalStands'
<1> USE DEF EInv
<1>1. ClientMoves(c) /\ ClientLands(c) /\ TypeOK'
  BY ClientEffects, ClientCounts
<1>2. ChangeIsOwed => ChangeIsOwed'
  <2>1. \A a \in Actors : owed'[a] = owed[a] \/ owed[a] = <<>>
    BY <1>1 DEF ClientMoves
  <2>2. QED BY <2>1, ChangeStaysOwed
<1>3. CASE ChangeIsOwed'
  BY <1>3 DEF RefusalStands
<1>4. CASE ~ChangeIsOwed'
  <2>1. ~ChangeIsOwed /\ jobs <= jobs' /\ bytes <= bytes'
    BY <1>1, <1>2, <1>4, Roles DEF ClientMoves, Announces, ChangeIsOwed
  <2>2. ASSUME NEW x \in Clients, task'[x] \in {"refused", "awaiting"}, ~told'[x]
        PROVE  accepting' /\ ~Fits(want[x])' /\ want'[x] = want[x]
    <3>1. CASE x = c
      BY <1>1, <2>2, <3>1 DEF ClientLands, ClientMoves, Fits
    <3>2. CASE x # c
      <4>1. task[x] \in {"refused", "awaiting"} /\ ~told[x] /\ want'[x] = want[x]
            /\ accepting' = accepting
        BY <1>1, <2>2, <3>2, Roles DEF ClientMoves
      <4>2. accepting /\ ~Fits(want[x]) /\ want[x] \in Requests
        BY <2>1, <4>1 DEF RefusalStands, HandsAreEmpty
      <4>3. DEFINE q == want[x]
      <4>4. ~(jobs' <= MaxJobs - q.count /\ q.count * q.bytes <= MaxBytes - bytes')
        BY <1>1, <2>1, <4>2, FitsShrinks DEF Fits
      <4>5. QED BY <4>1, <4>2, <4>4 DEF Fits
    <3>3. QED BY <3>1, <3>2
  <2>3. ASSUME task'[Closer] \in {"refused", "awaiting"}, ~told'[Closer]
        PROVE  LeftToDrain' # 0 \/ \E w \in Workers : wpc'[w] # "exited"
    <3>1. /\ task[Closer] \in {"refused", "awaiting"} /\ ~told[Closer]
          /\ UNCHANGED <<wpc, drain, allowReserved>>
      BY <1>1, <2>3, Roles DEF ClientMoves
    <3>2. LeftToDrain # 0 \/ \E w \in Workers : wpc[w] # "exited"
      BY <2>1, <3>1 DEF RefusalStands
    <3>3. drain = "all" \/ drain = "submitted"
      BY <3>1 DEF ClosesInOrder, TypeOK
    <3>4. LeftToDrain # 0 => LeftToDrain' # 0
      <4>1. CASE drain = "all"
        BY <1>1, <2>1, <3>1, <4>1 DEF LeftToDrain, TypeOK
      <4>2. CASE drain = "submitted"
        BY <1>1, <3>1, <4>2 DEF LeftToDrain, ClientMoves, ClosesInOrder
      <4>3. QED BY <3>3, <4>1, <4>2
    <3>5. QED BY <3>1, <3>2, <3>4
  <2>4. QED BY <2>2, <2>3 DEF RefusalStands, Fits
<1>5. QED BY <1>3, <1>4

\* Nothing changes for the waiters while these parts of the state stay.
LEMMA RefusalUntouched ==
  ASSUME RefusalStands, UNCHANGED <<budget, want, owed, drain>>,
         \A a \in Listeners : task'[a] \in {"refused", "awaiting"} /\ ~told'[a] =>
                                task[a] \in {"refused", "awaiting"} /\ ~told[a],
         \A w \in Workers : wpc'[w] = "exited" => wpc[w] = "exited"
  PROVE  RefusalStands'
<1>1. (ChangeIsOwed' <=> ChangeIsOwed) /\ LeftToDrain' = LeftToDrain
      /\ \A c \in Clients : Fits(want[c])' <=> Fits(want[c])
  BY DEF ChangeIsOwed, LeftToDrain, Fits, budget
<1>2. QED BY <1>1, Roles DEF RefusalStands, budget

\* A worker that ends a job or leaves tells the waiters.
LEMMA WorkerRefusals ==
  ASSUME EInv, NEW w \in Workers, WorkerStep(w)
  PROVE  RefusalStands'
<1> USE DEF EInv
<1>1. CASE Take(w) \/ Wait(w) \/ SpuriousWakeup(w)
  <2>1. UNCHANGED <<budget, task, want, told, owed, drain>>
    BY <1>1 DEF Take, Wait, SpuriousWakeup
  <2>2. \A v \in Workers : wpc'[v] = "exited" => wpc[v] = "exited"
    BY <1>1 DEF Take, Wait, SpuriousWakeup, TypeOK
  <2>3. QED BY <2>1, <2>2, RefusalUntouched
<1>2. CASE Exit(w) \/ Finish(w)
  <2>0. owed'[w] = <<"changed">> \/ owed'[w] = <<"changed", "ready">>
    BY <1>2, Roles DEF Exit, Finish, Owe, TypeOK
  <2>1. 1 \in DOMAIN owed'[w] /\ owed'[w][1] = "changed"
    BY <2>0
  <2>2. ChangeIsOwed'
    BY <2>1, Roles DEF ChangeIsOwed
  <2>3. QED BY <2>2 DEF RefusalStands
<1>3. QED BY <1>1, <1>2 DEF WorkerStep

\* A notification reaches everyone whose refusal it may have ended.
LEMMA NotifyRefusals ==
  ASSUME EInv, NEW a \in Actors, Notify(a)
  PROVE  RefusalStands'
<1> USE DEF EInv
<1>1. UNCHANGED <<budget, task, want, drain>> /\ owed[a] # <<>> /\ owed[a] \in Seq(Notices)
      /\ owed' = [owed EXCEPT ![a] = Tail(owed[a])]
  BY DEF Notify, TypeOK, Notices
<1>2. CASE Head(owed[a]) = "changed"
  <2>1. \A x \in Listeners : task'[x] \in {"refused", "awaiting"} => told'[x]
    BY <1>1, <1>2 DEF Notify, Listening
  <2>2. QED BY <2>1, Roles DEF RefusalStands
<1>3. CASE Head(owed[a]) # "changed"
  <2>1. told' = told
    BY <1>3 DEF Notify
  <2>2. \A w \in Workers : wpc'[w] = "exited" => wpc[w] = "exited"
    BY DEF Notify, Wake, TypeOK
  <2>3. ChangeIsOwed => ChangeIsOwed'
    <3>1. HAVE ChangeIsOwed
    <3>2. PICK x \in Actors : \E i \in DOMAIN owed[x] : owed[x][i] = "changed"
      BY <3>1 DEF ChangeIsOwed
    <3>3. CASE x # a
      <4>1. owed'[x] = owed[x]
        BY <1>1, <3>3 DEF TypeOK
      <4>2. QED BY <3>2, <4>1 DEF ChangeIsOwed
    <3>4. CASE x = a
      <4>0. PICK i \in DOMAIN owed[a] : owed[a][i] = "changed"
        BY <3>2, <3>4
      <4>1. i # 1
        BY <1>1, <1>3, <4>0
      <4>2. owed'[a] = Tail(owed[a])
        BY <1>1 DEF TypeOK
      <4>3. i \in 1..Len(owed[a]) /\ Len(owed[a]) \in Nat
        BY <1>1, <4>0, LenProperties
      <4>4. i - 1 \in DOMAIN Tail(owed[a]) /\ Tail(owed[a])[i - 1] = owed[a][i]
        BY <1>1, <4>1, <4>3, HeadTailProperties
      <4>5. QED BY <4>0, <4>2, <4>4 DEF ChangeIsOwed
    <3>5. QED BY <3>3, <3>4
  <2>4. LeftToDrain' = LeftToDrain /\ \A c \in Clients : Fits(want[c])' <=> Fits(want[c])
    BY <1>1 DEF LeftToDrain, Fits, budget
  <2>5. QED BY <1>1, <2>1, <2>2, <2>3, <2>4, Roles DEF RefusalStands, budget
<1>4. QED BY <1>2, <1>3

\* Every step keeps the reason of a refusal standing, or announced.
LEMMA StepRefusals ==
  ASSUME EInv, Next
  PROVE  RefusalStands'
<1> USE DEF EInv
<1>1. CASE Close \/ ShutdownSubmitted \/ Shutdown
  <2>1. 2 \in DOMAIN owed'[Closer] /\ owed'[Closer][2] = "changed"
    BY <1>1, Roles DEF Close, ShutdownSubmitted, Shutdown, Owe, CloseNotices, TypeOK
  <2>2. ChangeIsOwed'
    BY <2>1, Roles DEF ChangeIsOwed
  <2>3. QED BY <2>2 DEF RefusalStands
<1>2. CASE DrainEnable
  <2>1. UNCHANGED <<budget, want, owed, drain, wpc>>
    BY <1>2 DEF DrainEnable
  <2>2. \A a \in Listeners : task'[a] \in {"refused", "awaiting"} /\ ~told'[a] =>
                               task[a] \in {"refused", "awaiting"} /\ ~told[a]
    BY <1>2 DEF DrainEnable, TypeOK
  <2>3. QED BY <2>1, <2>2, RefusalUntouched
<1>3. CASE DrainCheck
  <2>1. UNCHANGED <<budget, want, told, owed, drain, wpc>>
        /\ \A a \in Listeners : a # Closer => task'[a] = task[a]
    BY <1>3 DEF DrainCheck, TypeOK
  <2>2. task'[Closer] \in {"refused", "awaiting"} =>
          LeftToDrain # 0 \/ \E w \in Workers : wpc[w] # "exited"
    BY <1>3, Roles, NobodyLeft DEF DrainCheck, TypeOK
  <2>3. (ChangeIsOwed' <=> ChangeIsOwed) /\ LeftToDrain' = LeftToDrain
        /\ \A c \in Clients : Fits(want[c])' <=> Fits(want[c])
    BY <2>1 DEF ChangeIsOwed, LeftToDrain, Fits, budget
  <2>4. QED BY <2>1, <2>2, <2>3, Roles DEF RefusalStands, budget
<1>4. CASE \E a \in Listeners : Await(a)
  <2>1. UNCHANGED <<budget, want, told, owed, drain, wpc>>
    BY <1>4 DEF Await
  <2>2. \A a \in Listeners : task'[a] \in {"refused", "awaiting"} =>
                               task[a] \in {"refused", "awaiting"}
    BY <1>4 DEF Await, TypeOK
  <2>3. QED BY <2>1, <2>2, RefusalUntouched
<1>5. QED BY <1>1, <1>2, <1>3, <1>4, ClientRefusals, WorkerRefusals, NotifyRefusals
          DEF Next, CloserStep

-----------------------------------------------------------------------------
\* Sleeping workers

\* The workers about to look at the queue, and the actors about to wake one.
Lookers == {w \in Workers : wpc[w] = "check"}
Callers == {a \in Actors : owed[a] # <<>> /\ Head(owed[a]) = "ready_one"}

\* Both are finite.
LEMMA FiniteActors ==
  /\ \A S \in SUBSET Workers : IsFiniteSet(S) /\ Cardinality(S) \in Nat
  /\ \A S \in SUBSET Actors : IsFiniteSet(S) /\ Cardinality(S) \in Nat
<1>1. IsFiniteSet(Clients \cup Workers)
  BY FS_Union DEF Limits
<1>2. IsFiniteSet(Actors)
  BY <1>1, FS_AddElement DEF Actors
<1>3. QED BY <1>2, FS_Subset, FS_CardinalityType DEF Limits

\* Sleepers stay spare while the queue does not grow and nobody who looks or
\* calls stops doing so.
LEMMA SleepersUntouched ==
  ASSUME NoIdleWorkerWhileJobsWait, queue' = queue, Len(queue) \in Nat, Asleep' \subseteq Asleep,
         Lookers \subseteq Lookers', Callers \subseteq Callers'
  PROVE  NoIdleWorkerWhileJobsWait'
<1>1. /\ Lookers \in SUBSET Workers /\ Lookers' \in SUBSET Workers
      /\ Callers \in SUBSET Actors /\ Callers' \in SUBSET Actors
  BY DEF Lookers, Callers
<1>2. /\ Cardinality(Lookers) \in Nat /\ Cardinality(Lookers') \in Nat
      /\ Cardinality(Callers) \in Nat /\ Cardinality(Callers') \in Nat
      /\ IsFiniteSet(Lookers') /\ IsFiniteSet(Callers')
  BY <1>1, FiniteActors
<1>3. /\ Cardinality(Lookers) <= Cardinality(Lookers')
      /\ Cardinality(Callers) <= Cardinality(Callers')
  BY <1>2, FS_Subset
<1>4. Asleep # {} => Len(queue) <= Cardinality(Lookers) + Cardinality(Callers)
  BY DEF NoIdleWorkerWhileJobsWait, Lookers, Callers
<1>5. Asleep' # {} => Len(queue') <= Cardinality(Lookers') + Cardinality(Callers')
  BY <1>2, <1>3, <1>4
<1>6. QED BY <1>5 DEF NoIdleWorkerWhileJobsWait, Lookers, Callers

\* An empty queue leaves nothing to wait for.
LEMMA EmptyQueueSpares ==
  ASSUME queue' = <<>>
  PROVE  NoIdleWorkerWhileJobsWait'
<1>1. Lookers' \in SUBSET Workers /\ Callers' \in SUBSET Actors
  BY DEF Lookers, Callers
<1>2. Cardinality(Lookers') \in Nat /\ Cardinality(Callers') \in Nat
  BY <1>1, FiniteActors
<1>3. Len(queue') <= Cardinality(Lookers') + Cardinality(Callers')
  BY <1>2
<1>4. QED BY <1>3 DEF NoIdleWorkerWhileJobsWait, Lookers, Callers

\* Each submitted job comes with its own call.
LEMMA ClientSleepers ==
  ASSUME EInv, NEW c \in Clients, ClientStep(c)
  PROVE  NoIdleWorkerWhileJobsWait'
<1> USE DEF EInv
<1>1. ClientMoves(c) /\ Len(queue) \in Nat /\ c \in Actors
  BY ClientEffects, LenProperties, Roles DEF TypeOK
<1>2. Asleep' = Asleep /\ Lookers' = Lookers
  BY <1>1 DEF ClientMoves, Asleep, Lookers
<1>3. CASE queue' = queue
  <2>1. Callers \subseteq Callers'
    BY <1>1 DEF ClientMoves, Callers
  <2>2. QED BY <1>1, <1>2, <1>3, <2>1, SleepersUntouched
<1>4. CASE queue' # queue
  <2>1. PICK i \in {1, 2} : Submit(<<c, i>>)
    BY <1>4 DEF ClientStep, TryReserve, Enable, Attempt, Resize, DropReservation
  <2>2. <<c, i>>[1] = c
    BY OwnersOfReservations
  <2>3. owed[c] = <<>> /\ queue' = Append(queue, <<c, i>>)
        /\ owed' = [owed EXCEPT ![c] = <<"ready_one">>]
    BY <1>4, <2>1, <2>2 DEF Submit, Idle, Ready, Owe
  <2>4. Len(queue') = Len(queue) + 1
    BY <2>3, AppendProperties, OwnersOfReservations DEF TypeOK
  <2>5. owed'[c] = <<"ready_one">> /\ \A a \in Actors : a # c => owed'[a] = owed[a]
    BY <1>1, <2>3 DEF TypeOK
  <2>6. Callers' = Callers \cup {c} /\ c \notin Callers
    <3>1. owed'[c] # <<>> /\ Head(owed'[c]) = "ready_one"
      BY <2>5
    <3>2. c \in Callers' /\ c \notin Callers
      BY <1>1, <2>3, <3>1 DEF Callers
    <3>3. \A a \in Actors : a # c => (a \in Callers' <=> a \in Callers)
      BY <2>5 DEF Callers
    <3>4. \A a : (a \in Callers => a \in Actors) /\ (a \in Callers' => a \in Actors)
      BY DEF Callers
    <3>5. QED BY <3>2, <3>3, <3>4
  <2>7. Callers \in SUBSET Actors /\ Lookers \in SUBSET Workers
    BY DEF Callers, Lookers
  <2>8. IsFiniteSet(Callers) /\ Cardinality(Callers) \in Nat /\ Cardinality(Lookers) \in Nat
    BY <2>7, FiniteActors
  <2>9. Cardinality(Callers') = Cardinality(Callers) + 1
    <3>1. Cardinality(Callers \cup {c}) =
            IF c \in Callers THEN Cardinality(Callers) ELSE Cardinality(Callers) + 1
      BY <2>8, FS_AddElement
    <3>2. QED BY <2>6, <3>1
  <2>10. Asleep # {} => Len(queue) <= Cardinality(Lookers) + Cardinality(Callers)
    BY DEF NoIdleWorkerWhileJobsWait, Lookers, Callers
  <2>11. Asleep' # {} => Len(queue') <= Cardinality(Lookers') + Cardinality(Callers')
    BY <1>1, <1>2, <2>4, <2>8, <2>9, <2>10
  <2>12. QED BY <2>11 DEF NoIdleWorkerWhileJobsWait, Lookers, Callers
<1>5. QED BY <1>3, <1>4

\* A worker that stops looking took a job or found none.
LEMMA WorkerSleepers ==
  ASSUME EInv, NEW w \in Workers, WorkerStep(w)
  PROVE  NoIdleWorkerWhileJobsWait'
<1> USE DEF EInv
<1>0. Len(queue) \in Nat
  BY LenProperties DEF TypeOK
<1>1. CASE Take(w)
  <2>1. Len(queue') = Len(queue) - 1
    BY <1>1, HeadTailProperties DEF Take, TypeOK
  <2>2. Lookers' = Lookers \ {w} /\ w \in Lookers /\ Callers' = Callers /\ Asleep' = Asleep
    BY <1>1 DEF Take, Lookers, Callers, Asleep, TypeOK
  <2>3. Callers \in SUBSET Actors /\ Lookers \in SUBSET Workers
    BY DEF Callers, Lookers
  <2>4. IsFiniteSet(Lookers) /\ Cardinality(Callers) \in Nat /\ Cardinality(Lookers) \in Nat
    BY <2>3, FiniteActors
  <2>5. Cardinality(Lookers') = Cardinality(Lookers) - 1
    BY <2>2, <2>4, FS_RemoveElement
  <2>6. Asleep # {} => Len(queue) <= Cardinality(Lookers) + Cardinality(Callers)
    BY DEF NoIdleWorkerWhileJobsWait, Lookers, Callers
  <2>7. Asleep' # {} => Len(queue') <= Cardinality(Lookers') + Cardinality(Callers')
    BY <1>0, <2>1, <2>2, <2>4, <2>5, <2>6
  <2>8. QED BY <2>7 DEF NoIdleWorkerWhileJobsWait, Lookers, Callers
<1>2. CASE Exit(w) \/ Wait(w)
  BY <1>2, EmptyQueueSpares DEF Exit, Wait
<1>3. CASE SpuriousWakeup(w) \/ Finish(w)
  <2>1. queue' = queue
    BY <1>3 DEF SpuriousWakeup, Finish
  <2>2. Asleep' \subseteq Asleep /\ Lookers \subseteq Lookers'
    BY <1>3 DEF SpuriousWakeup, Finish, Asleep, Lookers, TypeOK
  <2>3. Callers \subseteq Callers'
    BY <1>3 DEF SpuriousWakeup, Finish, Owe, Callers, HandsAreEmpty, Ready, TypeOK
  <2>4. QED BY <1>0, <2>1, <2>2, <2>3, SleepersUntouched
<1>4. QED BY <1>1, <1>2, <1>3 DEF WorkerStep

\* A call wakes a worker for the job it was made for.
LEMMA NotifySleepers ==
  ASSUME EInv, NEW a \in Actors, Notify(a)
  PROVE  NoIdleWorkerWhileJobsWait'
<1> USE DEF EInv
<1>1. /\ queue' = queue /\ Len(queue) \in Nat
      /\ \A x \in Actors : x # a => owed'[x] = owed[x]
  BY LenProperties DEF Notify, TypeOK
<1>2. CASE Head(owed[a]) = "changed"
  <2>1. Asleep' = Asleep /\ Lookers' = Lookers
    BY <1>2 DEF Notify, Asleep, Lookers
  <2>2. Callers \subseteq Callers'
    BY <1>1, <1>2 DEF Callers
  <2>3. QED BY <1>1, <2>1, <2>2, SleepersUntouched
<1>3. CASE Head(owed[a]) = "ready" \/ Asleep = {}
  <2>1. Asleep' = {}
    BY <1>3 DEF Notify, Wake, Asleep
  <2>2. QED BY <2>1 DEF NoIdleWorkerWhileJobsWait
<1>4. CASE Head(owed[a]) = "ready_one" /\ Asleep # {}
  <2>1. PICK w \in Asleep : Wake({w})
    BY <1>4 DEF Notify
  <2>2. Lookers' = Lookers \cup {w} /\ w \notin Lookers
    BY <2>1 DEF Wake, Lookers, Asleep
  <2>3. Callers \ {a} \subseteq Callers'
    BY <1>1 DEF Callers
  <2>4. /\ Callers \in SUBSET Actors /\ Callers' \in SUBSET Actors /\ Lookers \in SUBSET Workers
        /\ Callers \ {a} \in SUBSET Actors
    BY DEF Callers, Lookers
  <2>5. /\ IsFiniteSet(Lookers) /\ IsFiniteSet(Callers) /\ IsFiniteSet(Callers')
        /\ Cardinality(Callers) \in Nat /\ Cardinality(Lookers) \in Nat
        /\ Cardinality(Callers') \in Nat /\ Cardinality(Callers \ {a}) \in Nat
    BY <2>4, FiniteActors
  <2>6. Cardinality(Lookers') = Cardinality(Lookers) + 1
    BY <2>2, <2>5, FS_AddElement
  <2>7. Cardinality(Callers \ {a}) <= Cardinality(Callers')
    BY <2>3, <2>5, FS_Subset
  <2>8. Cardinality(Callers) - 1 <= Cardinality(Callers \ {a})
    <3>1. Cardinality(Callers \ {a}) =
            IF a \in Callers THEN Cardinality(Callers) - 1 ELSE Cardinality(Callers)
      BY <2>5, FS_RemoveElement
    <3>2. QED BY <2>5, <3>1
  <2>9. Len(queue) <= Cardinality(Lookers) + Cardinality(Callers)
    BY <1>4 DEF NoIdleWorkerWhileJobsWait, Lookers, Callers
  <2>10. Len(queue') <= Cardinality(Lookers') + Cardinality(Callers')
    BY <1>1, <2>5, <2>6, <2>7, <2>8, <2>9
  <2>11. QED BY <2>10 DEF NoIdleWorkerWhileJobsWait, Lookers, Callers
<1>5. QED BY <1>2, <1>3, <1>4 DEF Notify

\* Every step leaves a worker asleep only while it is spare.
LEMMA StepSleepers ==
  ASSUME EInv, Next
  PROVE  NoIdleWorkerWhileJobsWait'
<1> USE DEF EInv
<1>1. CASE CloserStep \/ \E a \in Listeners : Await(a)
  <2>1. queue' = queue /\ wpc' = wpc /\ Len(queue) \in Nat
    BY <1>1, LenProperties
       DEF CloserStep, Close, ShutdownSubmitted, Shutdown, DrainEnable, DrainCheck, Await, TypeOK
  <2>2. \A a \in Actors : owed'[a] = owed[a] \/ owed[a] = <<>>
    BY <1>1 DEF CloserStep, Close, ShutdownSubmitted, Shutdown, DrainEnable, DrainCheck, Await,
                Idle, Ready, Owe, TypeOK
  <2>3. Asleep' = Asleep /\ Lookers' = Lookers /\ Callers \subseteq Callers'
    BY <2>1, <2>2 DEF Asleep, Lookers, Callers
  <2>4. QED BY <2>1, <2>3, SleepersUntouched
<1>2. QED BY <1>1, ClientSleepers, WorkerSleepers, NotifySleepers DEF Next

-----------------------------------------------------------------------------
\* The executor starts empty, with every worker about to look at the queue.
LEMMA InitExecutor ==
  Init => EInv
<1> SUFFICES ASSUME Init PROVE EInv
  OBVIOUS
<1> USE DEF Init
<1>1. TypeOK
  <2>1. owed \in [Actors -> Seq(Notices)] /\ queue \in Seq(Reservations)
    BY NoticesAreTyped
  <2>2. QED BY <2>1 DEF TypeOK, Tasks, Notices
<1>2. JobsAreHeld
  BY DEF JobsAreHeld
<1>3. Counted
  <2>1. Live = {} /\ InFlight = {}
    BY DEF Live, InFlight
  <2>2. HeldBytes = {}
    BY <2>1 DEF HeldBytes
  <2>3. QED BY <2>1, <2>2, FS_EmptySet DEF Counted, BudgetIsExact, Limits
<1>4. ClosesInOrder
  BY Roles DEF ClosesInOrder
<1>5. HandsAreEmpty
  BY Roles DEF HandsAreEmpty, Listening, Ready
<1>6. RefusalStands
  BY Roles DEF RefusalStands
<1>7. NoIdleWorkerWhileJobsWait
  BY DEF NoIdleWorkerWhileJobsWait, Asleep
<1>8. QED BY <1>1, <1>2, <1>3, <1>4, <1>5, <1>6, <1>7 DEF EInv

\* The invariant is kept by every step, so it always holds.
THEOREM ExecutorInvariance ==
  Spec => []EInv
<1>1. EInv /\ [Next]_vars => EInv'
  <2>1. SUFFICES ASSUME EInv, [Next]_vars PROVE EInv'
    OBVIOUS
  <2>2. CASE Next
    <3>1. /\ TypeOK' /\ Counted' /\ JobsAreHeld' /\ ClosesInOrder' /\ HandsAreEmpty'
          /\ RefusalStands' /\ NoIdleWorkerWhileJobsWait'
      BY <2>1, <2>2, StepCounts, StepJobs, StepCloses, StepHands, StepRefusals, StepSleepers
    <3>2. QED BY <3>1 DEF EInv
  <2>3. CASE UNCHANGED vars
    <3>1. EInv
      BY <2>1
    <3>2. UNCHANGED <<phase, size, jobs, bytes, submitted>> /\ UNCHANGED <<queue, wjob, wpc>>
          /\ UNCHANGED <<budget, want, task, told, owed, drain>>
      BY <2>3 DEF vars, budget
    <3>3. TypeOK' /\ ClosesInOrder' /\ HandsAreEmpty'
      BY <2>3, <3>1 DEF EInv, vars, budget, TypeOK, ClosesInOrder, LeftToDrain, HandsAreEmpty,
                        HoldsNothing, Listening, Ready
    <3>4. Counted' /\ JobsAreHeld' /\ RefusalStands'
      BY <3>1, <3>2, StillCounted, JobsUntouched, RefusalUntouched DEF EInv
    <3>5. NoIdleWorkerWhileJobsWait'
      BY <3>1, <3>2 DEF EInv, NoIdleWorkerWhileJobsWait, Asleep
    <3>6. QED BY <3>3, <3>4, <3>5 DEF EInv
  <2>4. QED BY <2>1, <2>2, <2>3
<1>2. QED BY <1>1, InitExecutor, PTL DEF Spec

\* The executor's state keeps its types: no counter falls below zero.
THEOREM ExecutorTyped ==
  Spec => []TypeOK
<1>1. EInv => TypeOK
  BY DEF EInv
<1>2. QED BY <1>1, ExecutorInvariance, PTL

\* The job and byte budget counts exactly the live reservations and is never
\* exceeded, whatever mix of pairs, resizes, refusals and drops came before.
THEOREM BudgetStaysExact ==
  Spec => []BudgetIsExact
<1>1. EInv => BudgetIsExact
  BY DEF EInv, Counted
<1>2. QED BY <1>1, ExecutorInvariance, PTL

\* notify_one per submission is enough: no job waits for a sleeping worker that
\* nobody is about to wake.
THEOREM NoJobWaitsForASleeper ==
  Spec => []NoIdleWorkerWhileJobsWait
<1>1. EInv => NoIdleWorkerWhileJobsWait
  BY DEF EInv
<1>2. QED BY <1>1, ExecutorInvariance, PTL

\* The workers do not all leave while a job is queued or running, or while a
\* reservation may still be submitted.
THEOREM WorkIsNotStranded ==
  Spec => []NoStrandedWork
<1>1. EInv => NoStrandedWork
  <2>1. SUFFICES ASSUME EInv, InFlight # {} \/ (allowReserved /\ Live # {}),
                        \A w \in Workers : wpc[w] = "exited"
                 PROVE  FALSE
    <3>1. WorkersLeft \in Nat
      <4>1. {w \in Workers : wpc[w] # "exited"} \in SUBSET Workers
        OBVIOUS
      <4>2. QED BY <4>1, FiniteActors DEF WorkersLeft
    <3>2. WorkersLeft # 0 => WorkersLeft > 0
      BY <3>1
    <3>3. QED BY <2>1, <3>2, NobodyLeft DEF NoStrandedWork
  <2> USE DEF EInv
  <2>2. queue = <<>> /\ (jobs = 0 \/ ~allowReserved)
    BY <2>1 DEF ClosesInOrder, Limits
  <2>3. \A r \in Reservations : phase[r] # "queued"
    BY <2>1, <2>2 DEF JobsAreHeld
  <2>4. \A r \in Reservations : phase[r] # "running"
    <3>1. \A w \in Workers : wjob[w] = NoJob
      BY <2>1 DEF JobsAreHeld
    <3>2. QED BY <2>1, <3>1, OwnersOfReservations DEF JobsAreHeld
  <2>5. InFlight = {}
    BY <2>3, <2>4 DEF InFlight
  <2>6. jobs # 0
    BY <2>1, <2>5, HeldIsCounted DEF Live
  <2>7. QED BY <2>1, <2>2, <2>5, <2>6
<1>2. QED BY <1>1, ExecutorInvariance, PTL

\* When a shutdown has returned, no worker is left and no job runs or will run,
\* and after a full shutdown nothing is reserved either.
THEOREM ShutdownIsQuiet ==
  Spec => []DrainedMeansQuiet
<1>1. EInv /\ NoStrandedWork => DrainedMeansQuiet
  <2>1. SUFFICES ASSUME EInv, NoStrandedWork, task[Closer] = "done"
                 PROVE  InFlight = {} /\ WorkersLeft = 0 /\ (drain = "all" => Live = {})
    BY DEF DrainedMeansQuiet
  <2> USE DEF EInv
  <2>2. WorkersLeft = 0 /\ LeftToDrain = 0
    BY <2>1, NobodyLeft DEF ClosesInOrder
  <2>3. InFlight = {}
    BY <2>1, <2>2 DEF NoStrandedWork
  <2>4. drain = "all" => Live = {}
    BY <2>1, <2>2, HeldIsCounted DEF LeftToDrain, Live
  <2>5. QED BY <2>2, <2>3, <2>4
<1>2. QED BY <1>1, ExecutorInvariance, WorkIsNotStranded, PTL

\* No wakeup is lost between the read of the state and the await: when nobody
\* owes a notification, every waiter would be refused again.
THEOREM NoWakeupIsLost ==
  Spec => []WaitersAreBlocked
<1>1. EInv => WaitersAreBlocked
  <2>1. SUFFICES ASSUME EInv, ~ChangeIsOwed
                 PROVE  /\ \A c \in Clients : task[c] = "awaiting" /\ ~told[c] =>
                                               accepting /\ ~Fits(want[c])
                        /\ task[Closer] = "awaiting" /\ ~told[Closer] =>
                             LeftToDrain > 0 \/ WorkersLeft > 0
    BY DEF WaitersAreBlocked, ChangeIsOwed
  <2>2. WorkersLeft \in Nat /\ LeftToDrain \in Nat
    <3>1. {w \in Workers : wpc[w] # "exited"} \in SUBSET Workers
      OBVIOUS
    <3>2. QED BY <2>1, <3>1, FiniteActors DEF WorkersLeft, LeftToDrain, EInv, TypeOK
  <2>3. QED BY <2>1, <2>2, NobodyLeft DEF EInv, RefusalStands
<1>2. QED BY <1>1, ExecutorInvariance, PTL
=============================================================================
