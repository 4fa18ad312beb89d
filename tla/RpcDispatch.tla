------------------------------ MODULE RpcDispatch ------------------------------
(****************************************************************************)
(* The request dispatcher of the core server (transport/bounded_dispatch.rs *)
(* and bounded_dispatch_resources.rs) with the scope resolution of          *)
(* application/agent/rpc_resources.rs.                                      *)
(*                                                                          *)
(* Requests are admitted in order.  Each becomes a task that looks up which *)
(* conversations and projects it is about, publishes that scope, waits for  *)
(* the earlier requests it conflicts with, takes a worker of its lane and   *)
(* runs its handler.  Handlers change what the lookup of a later request    *)
(* returns: conversations are created, moved and deleted, turns register    *)
(* themselves while they prepare.  No position in this machinery is fixed   *)
(* but the order of admission: every await may be overtaken.                *)
(*                                                                          *)
(* Byte permits, timing probes and the artifact tasks are left out; the     *)
(* access token of a turn is checked by its handler and not modelled.       *)
(****************************************************************************)
EXTENDS Integers, Sequences, FiniteSets, SequencesExt, FiniteSetsExt

CONSTANTS
    Conversations, Projects,
    Root,           \* conversation -> the root conversation of its agent tree
    Homes,          \* the assignments of conversations to projects at the start
    Menu,           \* the requests a client may send
    MaxRequests,    \* bound: requests sent
    MaxFailures,    \* bound: scope lookups that fail
    Capacity,       \* lane -> requests it admits
    Concurrency,    \* lane -> workers
    None            \* no project, no predecessor, no root

Lanes == {"read", "write", "control", "approval"}

Ops == {"load", "overview", "save_meta", "delete_conversation",
        "delete_project", "turn", "configure", "cancel_run", "set_access",
        "approve"}

\* Every tree is named by its root conversation.
Tree(c) == {d \in Conversations : Root[d] = Root[c]}
\* The conversation has a node in an agent tree.
Bound(c) == Cardinality(Tree(c)) > 1

\* Requests that name no conversation.
Unscoped == {"delete_project", "configure", "set_access", "overview"}

ASSUME Sizes ==
    /\ IsFiniteSet(Conversations)
    /\ Root \in [Conversations -> Conversations]
    /\ \A c \in Conversations : Root[Root[c]] = Root[c]
    /\ Homes \subseteq [Conversations -> Projects \cup {None, "missing"}]
    /\ \A h \in Homes, c \in Conversations :
         Bound(c) => h[c] = h[Root[c]] /\ h[c] # "missing"
    /\ "missing" \notin Projects \cup {None} /\ None \notin Conversations \cup Projects
    /\ Menu \subseteq [op : Ops, conv : Conversations \cup {None},
                       project : Projects \cup {None}]
    /\ \A r \in Menu : /\ r.conv = None <=> r.op \in Unscoped
                       /\ r.op = "delete_project" => r.project \in Projects
    /\ MaxRequests \in Nat /\ MaxFailures \in Nat
    /\ Capacity \in [Lanes -> Nat \ {0}]
    /\ Concurrency \in [Lanes -> Nat \ {0}]

VARIABLES
    jobs,      \* the admitted requests, in the order of admission
    fair,      \* lane -> its FairExecution
    phase,     \* the dispatcher is "open" or its shutdown has "returned"
    stopping,  \* explicit shutdown began
    project,   \* conversation -> its project, None, or "missing"
    existing,  \* projects that exist
    buried,    \* conversations deleted in this process: no turn registers
    run,       \* conversation -> its turn: "none", "preparing", ...
    owner,     \* conversation -> the turn request that registered its run
    frozen,    \* conversation -> the project its turn froze
    cancelled  \* conversations whose preparing turn was cancelled

world == <<project, existing, buried, run, owner, frozen, cancelled>>
vars == <<jobs, fair, phase, stopping, world>>

(****************************************************************************)
(* Lanes and scopes                                                         *)
(****************************************************************************)
\* rpc_dispatch_class
Class(r) ==
    CASE r.op \in {"load", "overview"} -> "read"
      [] r.op \in {"cancel_run", "set_access"} -> "control"
      [] r.op = "approve" -> "approval"
      [] OTHER -> "write"

Scope(kind, conv, keys, root, policy) ==
    [kind |-> kind, conv |-> conv, keys |-> keys, root |-> root, policy |-> policy]

Global == Scope("global", None, {}, None, "ordered")
GlobalTurnPreparation(c) == Scope("global_turn", c, {}, None, "ordered")
ExecutionAccess == Scope("access", None, {}, None, "ordered")
Overview == Scope("overview", None, {}, None, "ordered")
Resources(c, keys, root, policy) == Scope("resources", c, keys, root, policy)

Member(p) == IF p = None THEN {} ELSE {<<"member", p>>}

\* The conversation has no metadata row: not created yet, or deleted.
Absent(c) == project[c] = "missing"

\* The projects a run owns besides its conversation's current one.
RunKeys(r) ==
    IF r.op \in {"cancel_run", "approve"}
    THEN {<<"run", r.conv>>} \cup Member(frozen[r.conv])
    ELSE {}

\* cancel_run: no Core-owned state names the run; approve: no pending action.
IdentityUnknown(r) ==
    /\ r.op \in {"cancel_run", "approve"}
    /\ \/ owner[r.conv] # r.run
       \/ r.op = "approve" /\ run[r.conv] # "active"

Policy(r) ==
    CASE r.op = "turn" -> "turn"
      [] r.op = "delete_conversation" -> "ownership"
      [] r.op = "save_meta" /\ project[r.conv] # r.project -> "ownership"
      [] r.op = "cancel_run" /\ run[r.conv] = "preparing" -> "cancel"
      [] OTHER -> "ordered"

\* The scope of a request whose conversation is absent.
MissingScope(r) ==
    CASE r.op = "turn" -> GlobalTurnPreparation(r.conv)
      [] /\ Policy(r) = "cancel"
         /\ ~Bound(r.conv)
         /\ frozen[r.conv] \in existing \cup {None} ->
            Resources(r.conv,
                      RunKeys(r) \cup {<<"conversation", r.conv>>, <<"tree", r.conv>>},
                      r.conv, "cancel")
      [] OTHER -> Global

\* The whole tree is stopped or deleted with the conversation.
TreeKeys(r) ==
    IF r.op \in {"cancel_run", "delete_conversation"}
    THEN {<<"tree", Root[r.conv]>>} \cup
         (IF Bound(r.conv)
          THEN UNION {Member(project[d]) : d \in {e \in Tree(r.conv) : ~Absent(e)}}
          ELSE {})
    ELSE {}

ConversationScope(r) ==
    IF r.op = "save_meta" /\ r.project # project[r.conv] /\ r.project \notin existing \cup {None}
    THEN Global
    ELSE Resources(r.conv,
                   {<<"conversation", r.conv>>} \cup RunKeys(r) \cup TreeKeys(r)
                     \cup Member(project[r.conv])
                     \cup (IF r.op = "save_meta" THEN Member(r.project) ELSE {}),
                   Root[r.conv], Policy(r))

\* rpc_resource_scope
ScopeOf(r) ==
    CASE r.op = "set_access" -> ExecutionAccess
      [] r.op = "overview" -> Overview
      [] r.op = "configure" -> Global
      [] r.op = "delete_project" ->
            IF r.project \in existing
            THEN Resources(None, {<<"marker", r.project>>}, <<"project", r.project>>, "ownership")
            ELSE Global
      [] OTHER ->
            IF IdentityUnknown(r) THEN Global
            ELSE IF Absent(r.conv) THEN MissingScope(r)
            ELSE ConversationScope(r)

IsTurnPreparation(s) == s.kind = "global_turn" \/ s.policy = "turn"

ChangesOwnership(s) == s.kind \in {"global", "global_turn"} \/ s.policy = "ownership"

\* The root a request is queued under; only resource scopes are one at a time.
FairnessRoot(s) == IF s.kind = "resources" THEN <<"root", s.root>> ELSE <<s.kind, None>>

\* Mutant: a project's deletion is not compared with its members.
KeysMeetExactly(s, t) ==
    \/ \E k \in s.keys : k[1] # "member" /\ k \in t.keys
    \/ <<"tree", t.root>> \in s.keys

KeysMeet(s, t) ==
    \/ \E k \in s.keys : k[1] # "member" /\ k \in t.keys
    \/ \E p \in Projects : <<"marker", p>> \in s.keys /\ <<"member", p>> \in t.keys
    \/ <<"tree", t.root>> \in s.keys

Overlaps(s, t) ==
    IF {s.kind, t.kind} \cap {"global", "global_turn", "access"} # {} THEN TRUE
    ELSE IF "overview" \in {s.kind, t.kind} THEN FALSE
    ELSE KeysMeet(s, t) \/ KeysMeet(t, s)

(****************************************************************************)
(* The fair execution of a lane: waiting requests by root, a queue of roots *)
(* served in turn, and the requests that hold a worker.                     *)
(****************************************************************************)
FairInit == [waiting |-> <<>>, roots |-> <<>>, holders |-> {}, last |-> <<None, None>>]

RootOf(js, j) == FairnessRoot(js[j].scope)

\* Mutant: a root may take every worker.
RootIsFreeAlways(js, f, r) == TRUE

\* "root:" roots take one worker at a time.
RootIsFree(js, f, r) == r[1] # "root" \/ \A h \in f.holders : RootOf(js, h) # r

\* One grant of the loop in drive: the first free root, those before it moved
\* behind, its oldest waiter granted.
GrantOne(js, f, limit) ==
    LET free == {k \in DOMAIN f.roots : RootIsFree(js, f, f.roots[k])}
    IN  IF Cardinality(f.holders) >= limit \/ free = {} THEN f
        ELSE LET k    == Min(free)
                 r    == f.roots[k]
                 at   == Min({n \in DOMAIN f.waiting : RootOf(js, f.waiting[n]) = r})
                 rest == RemoveAt(f.waiting, at)
                 more == \E w \in Range(rest) : RootOf(js, w) = r
             IN  [waiting |-> rest,
                  roots   |-> SubSeq(f.roots, k + 1, Len(f.roots)) \o SubSeq(f.roots, 1, k - 1)
                              \o (IF more THEN <<r>> ELSE <<>>),
                  holders |-> f.holders \cup {f.waiting[at]},
                  last    |-> r]

\* A root just served goes behind the others before the loop starts.
Rotated(f) ==
    IF Len(f.roots) > 1 /\ Head(f.roots) = f.last
    THEN [f EXCEPT !.roots = Append(Tail(@), Head(@))]
    ELSE f

\* Every drive follows one new waiter or one released worker, so its loop
\* grants at most once: LanesAreFair says that nothing is left to be granted.
Drive(js, f, limit) == GrantOne(js, Rotated(f), limit)

Enqueued(js, f, j) ==
    [f EXCEPT !.waiting = Append(@, j),
              !.roots = IF RootOf(js, j) \in Range(@) THEN @ ELSE Append(@, RootOf(js, j))]

(****************************************************************************)
(* Tasks                                                                    *)
(****************************************************************************)
Ids == DOMAIN jobs
Done(j) == jobs[j].pc = "done"
Lane(j) == Class(jobs[j].req)
InHandler(j) == jobs[j].pc = "running"

\* permits_preparing_cancel
PermitsPreparingCancel(j, i) ==
    /\ Lane(j) = "control"
    /\ jobs[i].started
    /\ jobs[j].scope.policy = "cancel"
    /\ IsTurnPreparation(jobs[i].scope)
    /\ jobs[i].scope.conv = jobs[j].scope.conv

\* The predecessor may change what the lookup returned: wait and look again.
MustObserve(j, i) ==
    /\ i \notin jobs[j].seen
    /\ Lane(i) # "read"
    /\ ChangesOwnership(jobs[i].scope)
    /\ Overlaps(jobs[j].scope, jobs[i].scope)
    /\ ~PermitsPreparingCancel(j, i)

\* Mutant: the kind of a request is published with its scope.
PassesPublished(j, i) ==
    jobs[j].scope.kind = "access" /\ jobs[i].kind = "turn" /\ jobs[i].published

\* set_access passes preparations, queued ones included.
PassesPreparation(j, i) ==
    jobs[j].scope.kind = "access" /\ jobs[i].kind = "turn"

\* conflicts: it can be decided once the predecessor published enough ...
Decided(j, i) ==
    \/ Lane(j) = "read" /\ Lane(i) = "read"
    \/ PassesPreparation(j, i)
    \/ jobs[i].published

\* ... and then tells whether to wait for the predecessor.
Conflicts(j, i) ==
    /\ ~(Lane(j) = "read" /\ Lane(i) = "read")
    /\ ~PassesPreparation(j, i)
    /\ ~(Lane(i) = "read" /\ jobs[i].scope.kind = "overview")
    /\ ~PermitsPreparingCancel(j, i)
    /\ Overlaps(jobs[j].scope, jobs[i].scope)

NewJob(r) ==
    [req |-> r, preds |-> {i \in Ids : ~Done(i)}, pc |-> "queued", scope |-> Global,
     published |-> FALSE, kind |-> "unknown", todo |-> {}, on |-> 0, seen |-> {},
     again |-> FALSE, started |-> FALSE, failed |-> FALSE, answers |-> 0]

Rejected(r) == [NewJob(r) EXCEPT !.preds = {}, !.pc = "done", !.answers = 1]

LaneIsFull(r) ==
    Cardinality({i \in Ids : ~Done(i) /\ Lane(i) = Class(r)}) >= Capacity[Class(r)]

\* try_submit_scoped.  A client knows a run once the turn has registered.
Submit(r) ==
    /\ phase = "open"
    /\ Len(jobs) < MaxRequests
    /\ r.op \in {"cancel_run", "approve"} => run[r.conv] # "none"
    /\ LET named == [op |-> r.op, conv |-> r.conv, project |-> r.project,
                     run |-> IF r.op \in {"cancel_run", "approve"} THEN owner[r.conv] ELSE 0]
       IN  jobs' = Append(jobs, IF stopping \/ LaneIsFull(r) THEN Rejected(named)
                                ELSE NewJob(named))
    /\ UNCHANGED <<fair, phase, stopping, world>>

\* The task continues with the scope it looked up: only an exact scope waits
\* for changes of ownership before it is published.
WithScope(job, s) ==
    IF s.kind = "resources"
    THEN [job EXCEPT !.scope = s, !.pc = "observing", !.todo = job.preds, !.on = 0, !.again = FALSE]
    ELSE [job EXCEPT !.scope = s, !.pc = "ordering", !.todo = job.preds, !.on = 0,
                     !.published = TRUE]

LookedUp(r) == IF stopping THEN Global ELSE ScopeOf(r)

\* execute_job up to the loop: the first lookup and the kind of the request.
Resolve(j) ==
    /\ jobs[j].pc = "queued"
    /\ LET s == LookedUp(jobs[j].req)
       IN  jobs' = [jobs EXCEPT ![j] =
                      [WithScope(@, s) EXCEPT
                         !.kind = IF IsTurnPreparation(s) THEN "turn" ELSE "other"]]
    /\ UNCHANGED <<fair, phase, stopping, world>>

\* The lookup itself fails: the request keeps the global fence and reports it.
ResolveFails(j) ==
    /\ jobs[j].pc = "queued"
    /\ Cardinality({i \in Ids : jobs[i].failed}) < MaxFailures
    /\ jobs' = [jobs EXCEPT ![j] =
                  [WithScope(@, Global) EXCEPT !.kind = "other", !.failed = TRUE]]
    /\ UNCHANGED <<fair, phase, stopping, world>>

\* Mutant: a request answered without being run does not signal completion.
ReachedIfRun(j) == jobs[j].on # 0 => Done(jobs[j].on) /\ jobs[jobs[j].on].started

\* The predecessor the task awaited has completed.
Reached(j) == jobs[j].on # 0 => Done(jobs[j].on)

\* The predecessor the task awaits from now on, and those after it.
AwaitIn(job, i) == [job EXCEPT !.on = i, !.todo = {k \in @ : k > i}]

\* One pass over the predecessors; a predecessor is passed over for good, so
\* the pass stops only where it has to wait.  A pass that waited is repeated
\* with a fresh lookup, one that did not publishes the scope.
ObserveStops(j) == {i \in jobs[j].todo : ~jobs[i].published \/ MustObserve(j, i)}

CanObserve(j) ==
    /\ jobs[j].pc = "observing"
    /\ Reached(j)
    /\ ObserveStops(j) # {} => jobs[Min(ObserveStops(j))].published

\* The task after the wait that Reached ended.
Resumed(j) ==
    IF jobs[j].on = 0 THEN jobs[j]
    ELSE [jobs[j] EXCEPT !.seen = @ \cup {jobs[j].on}, !.again = TRUE, !.on = 0]

Observe(j) ==
    /\ CanObserve(j)
    /\ LET job  == Resumed(j)
           stop == ObserveStops(j)
       IN  jobs' = [jobs EXCEPT ![j] =
             IF stop # {} THEN AwaitIn(job, Min(stop))
             ELSE IF job.again THEN WithScope(job, LookedUp(job.req))
             ELSE [job EXCEPT !.published = TRUE, !.pc = "ordering", !.todo = job.preds]]
    /\ UNCHANGED <<fair, phase, stopping, world>>

\* A repeated lookup can fail too, after the kind of the request is known.
RefreshFails(j) ==
    /\ CanObserve(j) /\ ObserveStops(j) = {} /\ Resumed(j).again
    /\ Cardinality({i \in Ids : jobs[i].failed}) < MaxFailures
    /\ jobs' = [jobs EXCEPT ![j] = [WithScope(Resumed(j), Global) EXCEPT !.failed = TRUE]]
    /\ UNCHANGED <<fair, phase, stopping, world>>

\* The wait for conflicting predecessors, then for a worker of the lane.
OrderStops(j) == {i \in jobs[j].todo : ~Decided(j, i) \/ Conflicts(j, i)}

CanOrder(j) ==
    /\ jobs[j].pc = "ordering"
    /\ Reached(j)
    /\ OrderStops(j) # {} => Decided(j, Min(OrderStops(j)))

Order(j) ==
    /\ CanOrder(j)
    /\ IF OrderStops(j) = {}
       THEN /\ jobs' = [jobs EXCEPT ![j].pc = "ready", ![j].on = 0]
            /\ fair' = [fair EXCEPT ![Lane(j)] =
                          Drive(jobs, Enqueued(jobs, @, j), Concurrency[Lane(j)])]
       ELSE /\ jobs' = [jobs EXCEPT ![j] = AwaitIn(@, Min(OrderStops(j)))]
            /\ UNCHANGED fair
    /\ UNCHANGED <<phase, stopping, world>>

\* The answer is sent and the completion signalled; the task is dropped.
Answered(job) ==
    [job EXCEPT !.pc = "done", !.answers = @ + 1, !.preds = {}, !.todo = {}, !.seen = {}]

\* The permit is dropped: the worker is free and the lane is driven.
Released(f, j, limit) == Drive(jobs, [f EXCEPT !.holders = @ \ {j}], limit)

Complete(j) ==
    /\ jobs' = [jobs EXCEPT ![j] = Answered(@)]
    /\ fair' = [fair EXCEPT ![Lane(j)] = Released(@, j, Concurrency[Lane(j)])]

\* The worker's closure: the handler starts unless the server is stopping.
CanStart(j) == jobs[j].pc = "ready" /\ j \in fair[Lane(j)].holders

\* Mutant: the branch answers and the end of the task answers again.
StartAnsweringTwice(j) ==
    /\ CanStart(j)
    /\ IF stopping \/ jobs[j].failed
       THEN /\ jobs' = [jobs EXCEPT ![j].pc = "done", ![j].answers = 2]
            /\ fair' = [fair EXCEPT ![Lane(j)].holders = @ \ {j}]
       ELSE /\ jobs' = [jobs EXCEPT ![j].pc = "running", ![j].started = TRUE]
            /\ UNCHANGED fair
    /\ UNCHANGED <<phase, stopping, world>>

Start(j) ==
    /\ CanStart(j)
    /\ IF stopping \/ jobs[j].failed
       THEN Complete(j)
       ELSE /\ jobs' = [jobs EXCEPT ![j].pc = "running", ![j].started = TRUE]
            /\ UNCHANGED fair
    /\ UNCHANGED <<phase, stopping, world>>

(****************************************************************************)
(* Handlers: their effect on what later lookups read.                       *)
(****************************************************************************)
\* The runs of these conversations leave the registries.
Ended(cs) ==
    /\ run' = [c \in Conversations |-> IF c \in cs THEN "none" ELSE run[c]]
    /\ owner' = [c \in Conversations |-> IF c \in cs THEN 0 ELSE owner[c]]
    /\ frozen' = [c \in Conversations |-> IF c \in cs THEN None ELSE frozen[c]]

ActiveIn(cs) == {c \in cs : run[c] = "active"}

Turn(j) == InHandler(j) /\ jobs[j].req.op = "turn"
Preparing(c) == run[c] \in {"preparing", "committing"}

\* The turn registers its preparation under a new run; the tombstones of
\* deleted conversations and projects refuse it.
Register(j) ==
    LET r == jobs[j].req
    IN  /\ Turn(j)
        /\ run[r.conv] = "none"
        /\ r.conv \notin buried
        /\ run' = [run EXCEPT ![r.conv] = "preparing"]
        /\ owner' = [owner EXCEPT ![r.conv] = j]
        /\ frozen' = [frozen EXCEPT ![r.conv] =
                        IF Absent(r.conv) THEN r.project ELSE project[r.conv]]
        /\ frozen'[r.conv] \in existing \cup {None}
        /\ UNCHANGED <<jobs, fair, phase, stopping, project, existing, buried, cancelled>>

MarkCommitting(j) ==
    LET c == jobs[j].req.conv
    IN  /\ Turn(j)
        /\ run[c] = "preparing" /\ c \notin cancelled
        /\ run' = [run EXCEPT ![c] = "committing"]
        /\ UNCHANGED <<jobs, fair, phase, stopping, project, existing, buried, owner, frozen, cancelled>>

\* The durable commit creates the conversation; the run goes on by itself.
Admit(j) ==
    LET c == jobs[j].req.conv
    IN  /\ Turn(j)
        /\ run[c] = "committing" /\ c \notin cancelled
        /\ run' = [run EXCEPT ![c] = "active"]
        /\ project' = [project EXCEPT ![c] = IF @ = "missing" THEN frozen[c] ELSE @]
        /\ Complete(j)
        /\ UNCHANGED <<phase, stopping, existing, buried, owner, frozen, cancelled>>

\* A cancelled preparation ends, an unregistered turn is refused.
AbandonTurn(j) ==
    LET c == jobs[j].req.conv
    IN  /\ Turn(j)
        /\ run[c] \in {"none", "active"} \/ c \in cancelled
        /\ Ended(IF Preparing(c) THEN {c} ELSE {})
        /\ cancelled' = cancelled \ {c}
        /\ Complete(j)
        /\ UNCHANGED <<phase, stopping, project, existing, buried>>

Removed(cs) ==
    /\ project' = [c \in Conversations |-> IF c \in cs THEN "missing" ELSE project[c]]
    /\ buried' = buried \cup cs
    /\ Ended(ActiveIn(cs))
    /\ cancelled' = cancelled \cup {c \in cs : Preparing(c)}

\* The row is written, or created; a tree's conversations keep their project.
SaveMeta(r) ==
    /\ ~Bound(r.conv)
    /\ r.project \in existing \cup {None}
    /\ project' = [project EXCEPT ![r.conv] = r.project]
    /\ UNCHANGED <<existing, buried, run, owner, frozen, cancelled>>

DeleteConversation(r) ==
    /\ r.conv = Root[r.conv]
    /\ Removed(Tree(r.conv))
    /\ UNCHANGED existing

DeleteProject(r) ==
    /\ existing' = existing \ {r.project}
    /\ Removed({c \in Conversations : project[c] = r.project})

\* A preparation is only told to stop; an admitted run is stopped with its tree.
CancelRun(r) ==
    /\ owner[r.conv] = r.run
    /\ LET stopped == IF Preparing(r.conv) THEN {r.conv} ELSE Tree(r.conv)
       IN  /\ cancelled' = cancelled \cup {c \in stopped : Preparing(c)}
           /\ Ended(ActiveIn(stopped))
    /\ UNCHANGED <<project, existing, buried>>

Effect(r) ==
    \/ r.op = "save_meta" /\ SaveMeta(r)
    \/ r.op = "delete_conversation" /\ DeleteConversation(r)
    \/ r.op = "delete_project" /\ DeleteProject(r)
    \/ r.op = "cancel_run" /\ CancelRun(r)
    \/ UNCHANGED world     \* nothing a lookup reads, or the handler failed

Finish(j) ==
    /\ InHandler(j) /\ jobs[j].req.op # "turn"
    /\ Effect(jobs[j].req)
    /\ Complete(j)
    /\ UNCHANGED <<phase, stopping>>

\* The asynchronous part of a turn ends.
RunEnds(c) ==
    /\ run[c] = "active"
    /\ Ended({c})
    /\ UNCHANGED <<jobs, fair, phase, stopping, project, existing, buried, cancelled>>

(****************************************************************************)
(* Shutdown                                                                 *)
(****************************************************************************)
BeginShutdown ==
    /\ phase = "open" /\ ~stopping
    /\ stopping' = TRUE
    /\ UNCHANGED <<jobs, fair, phase, world>>

\* Mutant: a manager leaves its loop without joining the running tasks.
ShutdownEarly ==
    /\ phase = "open"
    /\ \A j \in Ids : jobs[j].pc # "queued"
    /\ phase' = "returned"
    /\ UNCHANGED <<jobs, fair, stopping, world>>

\* shutdown closes the lanes and returns when their managers joined every task
\* they received; that nothing is submitted meanwhile is all the closed lanes
\* change, so the call and its return are one step.
Shutdown ==
    /\ phase = "open"
    /\ \A j \in Ids : Done(j)
    /\ phase' = "returned"
    /\ UNCHANGED <<jobs, fair, stopping, world>>

Init ==
    /\ jobs = <<>>
    /\ fair = [l \in Lanes |-> FairInit]
    /\ phase = "open" /\ stopping = FALSE
    /\ existing = Projects /\ buried = {}
    /\ project \in Homes
    /\ run = [c \in Conversations |-> "none"]
    /\ owner = [c \in Conversations |-> 0]
    /\ frozen = [c \in Conversations |-> None]
    /\ cancelled = {}

Next ==
    \/ \E r \in Menu : Submit(r)
    \/ \E j \in Ids :
         \/ Resolve(j) \/ ResolveFails(j) \/ Observe(j) \/ RefreshFails(j) \/ Order(j) \/ Start(j)
         \/ Register(j) \/ MarkCommitting(j) \/ Admit(j) \/ AbandonTurn(j) \/ Finish(j)
    \/ \E c \in Conversations : RunEnds(c)
    \/ BeginShutdown \/ Shutdown

Spec == Init /\ [][Next]_vars

(****************************************************************************)
(* Properties                                                               *)
(****************************************************************************)
Kinds == {"global", "global_turn", "access", "overview", "resources"}
Requests == [op : Ops, conv : Conversations \cup {None}, project : Projects \cup {None},
             run : 0..MaxRequests]
Keys == {"conversation", "run", "tree", "member", "marker"} \X (Conversations \cup Projects)
ScopeRoots == Conversations \cup {None} \cup ({"project"} \X Projects)
Scopes == [kind : Kinds, conv : Conversations \cup {None}, keys : SUBSET Keys,
           root : ScopeRoots, policy : {"ordered", "ownership", "turn", "cancel"}]
Tasks == [req : Requests, preds : SUBSET (1..MaxRequests),
          pc : {"queued", "observing", "ordering", "ready", "running", "done"},
          scope : Scopes, published : BOOLEAN, kind : {"unknown", "turn", "other"},
          todo : SUBSET (1..MaxRequests), on : 0..MaxRequests,
          seen : SUBSET (1..MaxRequests), again : BOOLEAN, started : BOOLEAN,
          failed : BOOLEAN, answers : 0..1]
FairRoots == ({"root"} \X ScopeRoots) \cup (Kinds \X {None})
FairStates == [waiting : Seq(1..MaxRequests), roots : Seq(FairRoots),
               holders : SUBSET (1..MaxRequests), last : FairRoots \cup {<<None, None>>}]

TypeOK ==
    /\ jobs \in Seq(Tasks) /\ Len(jobs) <= MaxRequests
    /\ fair \in [Lanes -> FairStates]
    /\ phase \in {"open", "returned"} /\ stopping \in BOOLEAN
    /\ project \in [Conversations -> Projects \cup {None, "missing"}]
    /\ buried \subseteq Conversations
    /\ existing \subseteq Projects
    /\ run \in [Conversations -> {"none", "preparing", "committing", "active"}]
    /\ owner \in [Conversations -> 0..MaxRequests]
    /\ frozen \in [Conversations -> Projects \cup {None}]
    /\ cancelled \subseteq Conversations

\* The conversations and projects a handler is about, as they are now.  A
\* cancellation whose run is over is about none.
ConversationsOf(r) ==
    CASE r.op = "cancel_run" -> IF owner[r.conv] = r.run THEN Tree(r.conv) ELSE {}
      [] r.op = "delete_conversation" -> Tree(r.conv)
      [] r.op = "delete_project" -> {c \in Conversations : project[c] = r.project}
      [] r.op \in Unscoped \ {"delete_project"} -> {}
      [] OTHER -> {r.conv}

ProjectsOf(r) ==
    {project[c] : c \in ConversationsOf(r)}
      \cup (IF r.op = "save_meta" THEN {r.project} ELSE {})

Clash(r, q) ==
    \/ "configure" \in {r.op, q.op}
    \/ ConversationsOf(r) \cap ConversationsOf(q) # {}
    \/ r.op = "delete_project" /\ r.project \in ProjectsOf(q)
    \/ q.op = "delete_project" /\ q.project \in ProjectsOf(r)

\* What a later request may overtake.
MayOvertake(j, i) ==
    \/ Lane(j) = "read" /\ Lane(i) = "read"
    \/ jobs[i].req.op = "overview"
    \/ jobs[j].req.op = "set_access" /\ jobs[i].req.op = "turn"
    \/ /\ jobs[j].req.op = "cancel_run" /\ jobs[i].req.op = "turn"
       /\ jobs[i].started /\ jobs[i].req.conv = jobs[j].req.conv

(* No handler runs before or beside an earlier request it clashes with,     *)
(* judged by what both are about at that moment and not by the scopes they  *)
(* looked up earlier: moves, deletions and new conversations in between are *)
(* observed (execute_job refreshes the scope).                              *)
InOrder ==
    \A j \in Ids : InHandler(j) =>
        \A i \in 1..(j - 1) :
            ~Done(i) /\ ~MayOvertake(j, i) => ~Clash(jobs[i].req, jobs[j].req)

(* When shutdown returns every request has been answered exactly once and   *)
(* no handler is left; unless the shutdown was explicit, every admitted     *)
(* request was also run (end of input drains the queue).                    *)
AnsweredBeforeReturn ==
    phase = "returned" =>
        \A j \in Ids :
            /\ jobs[j].pc = "done" /\ jobs[j].answers = 1
            /\ jobs[j].kind # "unknown" /\ ~stopping /\ ~jobs[j].failed => jobs[j].started

(* A lane never uses more than its workers and one root never holds two of  *)
(* them; a worker is idle only while every waiting request's root has one.  *)
LanesAreFair ==
    \A l \in Lanes :
        LET f == fair[l]
        IN  /\ Cardinality(f.holders) <= Concurrency[l]
            /\ \A j, k \in f.holders :
                 RootOf(jobs, j) = RootOf(jobs, k) /\ RootOf(jobs, j)[1] = "root" => j = k
            /\ Cardinality(f.holders) < Concurrency[l] =>
                 \A w \in Range(f.waiting) :
                    /\ RootOf(jobs, w)[1] = "root"
                    /\ \E h \in f.holders : RootOf(jobs, h) = RootOf(jobs, w)

\* A predecessor a cancellation or a grant must not be trapped behind.
Overtaken(j, i) ==
    \/ Done(i)
    \/ /\ jobs[i].req.op = "turn"
       /\ \/ jobs[j].req.op = "set_access"
          \/ /\ jobs[j].req.op = "cancel_run" /\ jobs[i].started
             /\ owner[jobs[j].req.conv] = i /\ jobs[j].req.run = i

\* The turn is at the one point where it may stay: it prepares, uncancelled.
Lingers(j) ==
    Turn(j) /\ run[jobs[j].req.conv] = "preparing" /\ jobs[j].req.conv \notin cancelled

\* Nothing goes on by itself: no task and no handler can take a step, but for
\* turns that prepare.  Every step brings a request nearer to its end, so with
\* fair scheduling the dispatcher always gets here unless a client or a
\* preparing turn moves.
Quiet ==
    \A j \in Ids :
        /\ jobs[j].pc # "queued" /\ ~CanObserve(j) /\ ~CanOrder(j) /\ ~CanStart(j)
        /\ InHandler(j) => Lingers(j)

(* A grant of execution access whose unfinished predecessors are turns, and *)
(* a cancellation behind nothing but the turn it cancels, never wait for    *)
(* good, however long those turns prepare.                                  *)
ControlReachesPreparation ==
    Quiet /\ ~stopping /\ (\A i \in Ids : ~jobs[i].failed) =>
        \A j \in Ids :
            jobs[j].req.op \in {"set_access", "cancel_run"}
              /\ (\A i \in jobs[j].preds : Overtaken(j, i)) => Done(j)

(* Nothing waits in a circle: when the dispatcher rests and no turn is      *)
(* preparing, every request has been answered, whatever it waited for:      *)
(* scopes, predecessors or workers.                                         *)
EveryRequestAnswered ==
    Quiet /\ (\A j \in Ids : ~Lingers(j)) => \A j \in Ids : Done(j)
=============================================================================
