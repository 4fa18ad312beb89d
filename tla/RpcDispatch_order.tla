------------------------ MODULE RpcDispatch_order ------------------------
EXTENDS RpcDispatch_proofs
(***************************************************************************)
(* Why clashing requests take effect in the order they arrived, and why a  *)
(* grant or a cancellation is never held up behind the turn it is for.     *)
(*                                                                         *)
(* The scope of a request is a guess: it is looked up before the requests  *)
(* ahead of it have had their effect.  The invariant says why the guess is *)
(* still good when the handler starts.                                     *)
(*   - A task knows every earlier request that is not answered, and what   *)
(*     its passes have passed over stays passed over (TasksAreOrdered,     *)
(*     PassesHold).                                                        *)
(*   - A published scope names what its request touches now, or the pass   *)
(*     still has to stop at a request that changed it (ScopesAreFresh).    *)
(*   - The registry of turns is about turns that exist and whose handlers  *)
(*     are where the registry says (RunsHaveOwners, RunsAreNamed), and the *)
(*     conversations of a tree move together (TreesStayTogether).          *)
(*   - Grants and cancellations pass the turns they are for (ControlsPass).*)
(***************************************************************************)

\* The task has made its first pass: its scope is settled.
Past(j) == jobs[j].pc \in {"ordering", "ready", "running"}

\* The scope of a request about one conversation, looked up at any time.
FitsConversation(r, s) ==
  /\ r.op \notin Unscoped
  /\ s.kind = "resources" /\ s.conv = r.conv /\ s.root = Root[r.conv]
  /\ <<"conversation", r.conv>> \in s.keys
  /\ r.op \in {"cancel_run", "delete_conversation"} => <<"tree", Root[r.conv]>> \in s.keys
  /\ r.op = "save_meta" => Member(r.project) \subseteq s.keys
  /\ s.policy = "turn" <=> r.op = "turn"
  /\ s.policy = "cancel" => r.op = "cancel_run"
  /\ r.op = "delete_conversation" => s.policy = "ownership"

\* The scopes a lookup for the request may return.
Fits(r, s) ==
  \/ s = Global
  \/ r.op = "set_access" /\ s = ExecutionAccess
  \/ r.op = "overview" /\ s = Overview
  \/ r.op = "turn" /\ s = GlobalTurnPreparation(r.conv)
  \/ /\ r.op = "delete_project"
     /\ s = Resources(None, {<<"marker", r.project>>}, <<"project", r.project>>, "ownership")
  \/ FitsConversation(r, s)

\* What the lookup for a request about one conversation read still holds, as
\* far as the keys show.
Fresh(r, s) ==
  IF s.policy = "cancel"
  THEN owner[r.conv] = r.run =>
         /\ project[r.conv] # "missing" => Member(project[r.conv]) \subseteq s.keys
         /\ Member(frozen[r.conv]) \subseteq s.keys
  ELSE /\ project[r.conv] # "missing" /\ Member(project[r.conv]) \subseteq s.keys
       /\ r.op = "save_meta" /\ s.policy # "ownership" => project[r.conv] = r.project

\* The scope of the task names one conversation.
Exact(j) == FitsConversation(jobs[j].req, jobs[j].scope)

\* What such a scope says of the conversation is still so.
StillFresh(j) == Exact(j) => Fresh(jobs[j].req, jobs[j].scope)

\* Nothing the task has to wait for, in its first and in its second pass.
Observed(j, i) == jobs[i].published /\ ~MustObserve(j, i)
Cleared(j, i) == Done(i) \/ (Decided(j, i) /\ ~Conflicts(j, i))

\* A task knows every earlier request that is not answered, and its scope is
\* one of its request.
TaskIsOrdered(j) ==
  /\ Fits(jobs[j].req, jobs[j].scope)
  /\ jobs[j].kind = "turn" => jobs[j].req.op = "turn"
  /\ jobs[j].published /\ ~Done(j) => Past(j)
  /\ jobs[j].pc = "observing" => jobs[j].scope.kind = "resources"
  /\ jobs[j].started => InHandler(j) \/ Done(j)
  /\ jobs[j].failed => ~jobs[j].started
  /\ jobs[j].pc = "queued" <=> ~Done(j) /\ jobs[j].kind = "unknown"
  /\ jobs[j].published \/ jobs[j].started => jobs[j].kind # "unknown"
  /\ ~Done(j) => \A i \in 1..(j - 1) : ~Done(i) => i \in jobs[j].preds
  /\ jobs[j].seen \subseteq jobs[j].preds /\ \A i \in jobs[j].seen : Done(i)

TasksAreOrdered == \A j \in Ids : TaskIsOrdered(j)

\* What a task has passed over, it has passed over for good.
PassHolds(j) ==
  /\ jobs[j].pc = "observing" =>
       /\ \A i \in jobs[j].preds \ (jobs[j].todo \cup {jobs[j].on}) : Observed(j, i)
       /\ jobs[j].on # 0 => jobs[jobs[j].on].published
  /\ Past(j) /\ jobs[j].scope.kind = "resources" => \A i \in jobs[j].preds : Observed(j, i)
  /\ jobs[j].pc = "ordering" =>
       \A i \in jobs[j].preds \ (jobs[j].todo \cup {jobs[j].on}) : Cleared(j, i)
  /\ jobs[j].pc \in {"ready", "running"} => \A i \in jobs[j].preds : Cleared(j, i)

PassesHold == \A j \in Ids : PassHolds(j)

\* A scope that is published or about to be is fresh, or the pass still has to
\* reach a request that will make it look again.
ScopeIsFresh(j) ==
  /\ Past(j) => StillFresh(j)
  /\ jobs[j].pc = "observing" /\ jobs[j].on = 0 /\ ~jobs[j].again =>
       \/ StillFresh(j)
       \/ \E k \in jobs[j].todo : jobs[k].published /\ jobs[k].started /\ MustObserve(j, k)

ScopesAreFresh == \A j \in Ids : ScopeIsFresh(j)

\* The turn that prepares a conversation's run is in its handler, the turn of
\* an active run has left it.
RunsHaveOwners ==
  \A c \in Conversations :
    /\ run[c] = "none" <=> owner[c] = 0
    /\ run[c] # "none" => owner[c] \in Ids /\ jobs[owner[c]].req.op = "turn"
                            /\ jobs[owner[c]].req.conv = c /\ jobs[owner[c]].started
    /\ Preparing(c) => InHandler(owner[c])
    /\ run[c] = "active" => Done(owner[c])
    /\ Preparing(c) /\ c \in buried => c \in cancelled
    /\ Preparing(c) => frozen[c] \in existing \cup {None}
    /\ Preparing(c) /\ jobs[owner[c]].scope.kind = "resources" => project[c] = frozen[c]

\* A request that names a run names a turn that registered before.
RunsAreNamed ==
  \A j \in Ids : jobs[j].req.op \in {"cancel_run", "approve"} =>
    LET r == jobs[j].req
    IN  /\ r.run \in 1..(j - 1) /\ jobs[r.run].req.op = "turn" /\ jobs[r.run].req.conv = r.conv
        /\ jobs[r.run].started
        /\ InHandler(r.run) => owner[r.conv] = r.run /\ Preparing(r.conv)

\* The conversations of a tree are in one project and are deleted together.
TreesStayTogether ==
  \A c \in Conversations : Bound(c) =>
    /\ project[c] = project[Root[c]]
    /\ project[c] = "missing" => c \in buried

\* Without a shutdown or a failed lookup, grants and turns have their own
\* scopes and a cancellation does not wait for the turn it cancels.
ControlPasses(j) ==
  ~stopping /\ jobs[j].kind # "unknown" /\ ~jobs[j].failed =>
    /\ jobs[j].req.op = "turn" => jobs[j].kind = "turn" /\ IsTurnPreparation(jobs[j].scope)
    /\ jobs[j].req.op = "set_access" =>
         /\ jobs[j].scope = ExecutionAccess
         /\ ~Done(j) /\ jobs[j].on # 0 => jobs[jobs[j].on].kind = "other"
    /\ /\ jobs[j].req.op = "cancel_run" /\ ~Done(j) /\ jobs[j].req.conv \notin cancelled
       /\ owner[jobs[j].req.conv] = jobs[j].req.run /\ run[jobs[j].req.conv] = "preparing"
       => jobs[j].scope.policy = "cancel" /\ jobs[j].on # jobs[j].req.run

ControlsPass == \A j \in Ids : ControlPasses(j)

\* Everything about the tasks, and about what the handlers write.
TasksInv == TasksAreOrdered /\ PassesHold /\ ScopesAreFresh /\ ControlsPass
WorldInv == RunsHaveOwners /\ RunsAreNamed /\ TreesStayTogether

OInv == TasksInv /\ WorldInv

(***************************************************************************)
(* Scopes                                                                  *)
(***************************************************************************)

\* A conversation without a tree is its own root.
LEMMA UnboundIsRoot ==
  ASSUME NEW c \in Conversations, ~Bound(c)
  PROVE  Root[c] = c
<1>0. Root[c] \in Conversations /\ c \in Tree(c) /\ Root[c] \in Tree(c)
  BY Sizes DEF Tree
<1>1. IsFiniteSet(Tree(c)) /\ Cardinality(Tree(c)) \in Nat
  <2>1. Tree(c) \in SUBSET Conversations
    BY DEF Tree
  <2> QED BY <2>1, Sizes, FS_Subset, FS_CardinalityType
<1>2. Cardinality(Tree(c)) = 1
  <2>1. Cardinality(Tree(c)) # 0
    BY <1>0, <1>1, FS_EmptySet
  <2> QED BY <1>1, <2>1 DEF Bound
<1>3. \E x : Tree(c) = {x}
  BY <1>1, <1>2, FS_Singleton
<1> QED BY <1>0, <1>3

\* What the fields of a scope say about the request it was looked up for.
LEMMA FitsShows ==
  ASSUME NEW r, NEW s, Fits(r, s)
  PROVE  /\ s.kind \in {"global", "global_turn", "access", "overview", "resources"}
         /\ s.kind = "access" => r.op = "set_access"
         /\ s.kind = "overview" => r.op = "overview"
         /\ s.kind = "global_turn" => r.op = "turn" /\ s.conv = r.conv
         /\ s.policy = "cancel" => FitsConversation(r, s)
         /\ s.policy = "turn" => FitsConversation(r, s)
         /\ s.kind = "resources" =>
              \/ FitsConversation(r, s)
              \/ r.op = "delete_project" /\ s.keys = {<<"marker", r.project>>} /\ s.policy = "ownership"
         /\ r.op = "configure" => s.kind = "global"
         /\ r.op \in {"delete_project", "delete_conversation"} =>
              s.kind = "global" \/ (s.kind = "resources" /\ s.policy = "ownership")
<1>1. CASE s = Global
  BY <1>1 DEF Global, Scope
<1>2. CASE r.op = "set_access" /\ s = ExecutionAccess
  BY <1>2 DEF ExecutionAccess, Scope
<1>3. CASE r.op = "overview" /\ s = Overview
  BY <1>3 DEF Overview, Scope
<1>4. CASE r.op = "turn" /\ s = GlobalTurnPreparation(r.conv)
  BY <1>4 DEF GlobalTurnPreparation, Scope
<1>5. CASE /\ r.op = "delete_project"
           /\ s = Resources(None, {<<"marker", r.project>>}, <<"project", r.project>>, "ownership")
  BY <1>5 DEF Resources, Scope
<1>6. CASE FitsConversation(r, s)
  BY <1>6 DEF FitsConversation, Unscoped
<1> QED BY <1>1, <1>2, <1>3, <1>4, <1>5, <1>6 DEF Fits

\* A lookup returns a scope of the request, fresh when it is exact.
LEMMA LookupFits ==
  ASSUME WorldTyped, NEW r \in Requests, WellFormed(r)
  PROVE  /\ Fits(r, LookedUp(r))
         /\ FitsConversation(r, LookedUp(r)) => Fresh(r, LookedUp(r))
<1>0. ~FitsConversation(r, Global)
  BY DEF FitsConversation, Global, Scope
<1>1. CASE stopping
  BY <1>0, <1>1 DEF LookedUp, Fits
<1>2. CASE ~stopping /\ r.op \in Unscoped
  <2>1. LookedUp(r) = ScopeOf(r)
    BY <1>2 DEF LookedUp
  <2>2. Fits(r, ScopeOf(r))
    BY <1>2 DEF ScopeOf, Fits, Unscoped
  <2>3. ~FitsConversation(r, ScopeOf(r))
    BY <1>2 DEF FitsConversation
  <2> QED BY <2>1, <2>2, <2>3
<1>3. CASE ~stopping /\ r.op \notin Unscoped
  <2> DEFINE c == r.conv
  <2>1. c \in Conversations /\ LookedUp(r) = ScopeOf(r)
    BY <1>3 DEF WellFormed, LookedUp
  <2>2. ScopeOf(r) = IF IdentityUnknown(r) THEN Global
                     ELSE IF Absent(c) THEN MissingScope(r) ELSE ConversationScope(r)
    BY <1>3 DEF ScopeOf, Unscoped
  <2>3. CASE IdentityUnknown(r)
    BY <1>0, <2>1, <2>2, <2>3 DEF Fits
  <2>4. CASE ~IdentityUnknown(r) /\ Absent(c)
    <3> DEFINE s == Resources(c, RunKeys(r) \cup {<<"conversation", c>>, <<"tree", c>>}, c, "cancel")
    <3>1. CASE r.op = "turn"
      <4>1. ScopeOf(r) = GlobalTurnPreparation(c)
        BY <2>2, <2>4, <3>1 DEF MissingScope, Policy
      <4> QED BY <2>1, <3>1, <4>1 DEF Fits, FitsConversation, GlobalTurnPreparation, Scope
    <3>2. CASE r.op # "turn" /\ Policy(r) = "cancel" /\ ~Bound(c) /\ frozen[c] \in existing \cup {None}
      <4>1. ScopeOf(r) = s
        BY <2>2, <2>4, <3>2 DEF MissingScope
      <4>2. r.op = "cancel_run"
        BY <3>2 DEF Policy
      <4>3. Root[c] = c
        BY <2>1, <3>2, UnboundIsRoot
      <4>4. /\ s.kind = "resources" /\ s.conv = c /\ s.root = c /\ s.policy = "cancel"
            /\ s.keys = RunKeys(r) \cup {<<"conversation", c>>, <<"tree", c>>}
        BY DEF Resources, Scope
      <4> HIDE DEF s
      <4>5. FitsConversation(r, s)
        BY <1>3, <4>2, <4>3, <4>4 DEF FitsConversation
      <4>6. Fresh(r, s)
        BY <2>4, <4>2, <4>4 DEF Fresh, RunKeys, Absent
      <4> QED BY <2>1, <4>1, <4>5, <4>6 DEF Fits
    <3>3. CASE r.op # "turn" /\ ~(Policy(r) = "cancel" /\ ~Bound(c) /\ frozen[c] \in existing \cup {None})
      <4>1. ScopeOf(r) = Global
        BY <2>2, <2>4, <3>3 DEF MissingScope
      <4> QED BY <1>0, <2>1, <4>1 DEF Fits
    <3> QED BY <3>1, <3>2, <3>3
  <2>5. CASE ~IdentityUnknown(r) /\ ~Absent(c)
    <3> DEFINE keys == {<<"conversation", c>>} \cup RunKeys(r) \cup TreeKeys(r)
                          \cup Member(project[c])
                          \cup (IF r.op = "save_meta" THEN Member(r.project) ELSE {})
               s == Resources(c, keys, Root[c], Policy(r))
    <3>1. CASE ScopeOf(r) = Global
      BY <1>0, <2>1, <3>1 DEF Fits
    <3>2. CASE ScopeOf(r) # Global
      <4>1. ScopeOf(r) = s
        BY <2>2, <2>5, <3>2 DEF ConversationScope
      <4>2. /\ s.kind = "resources" /\ s.conv = c /\ s.root = Root[c] /\ s.policy = Policy(r)
            /\ s.keys = keys
        BY DEF Resources, Scope
      <4> HIDE DEF s
      <4>3. /\ <<"conversation", c>> \in keys /\ Member(project[c]) \subseteq keys
            /\ r.op = "save_meta" => Member(r.project) \subseteq keys
            /\ r.op \in {"cancel_run", "delete_conversation"} => <<"tree", Root[c]>> \in keys
            /\ r.op = "cancel_run" => Member(frozen[c]) \subseteq keys
        BY DEF TreeKeys, RunKeys
      <4> HIDE DEF keys
      <4>4. /\ Policy(r) = "turn" <=> r.op = "turn"
            /\ Policy(r) = "cancel" => r.op = "cancel_run"
            /\ r.op = "delete_conversation" => Policy(r) = "ownership"
            /\ r.op = "save_meta" /\ Policy(r) # "ownership" => project[c] = r.project
        BY DEF Policy
      <4>5. FitsConversation(r, s)
        BY <1>3, <4>2, <4>3, <4>4 DEF FitsConversation
      <4>6. Fresh(r, s)
        BY <2>5, <4>2, <4>3, <4>4 DEF Fresh, Absent
      <4> QED BY <2>1, <4>1, <4>5, <4>6 DEF Fits
    <3> QED BY <3>1, <3>2
  <2> QED BY <2>3, <2>4, <2>5
<1> QED BY <1>1, <1>2, <1>3

\* Without a shutdown the lookup knows a turn, a grant and the cancellation of
\* a turn that prepares.
LEMMA LookupKnows ==
  ASSUME WorldTyped, ~stopping, NEW r \in Requests, WellFormed(r)
  PROVE  /\ r.op = "turn" => IsTurnPreparation(LookedUp(r))
         /\ r.op = "set_access" => LookedUp(r) = ExecutionAccess
         /\ /\ r.op = "cancel_run" /\ owner[r.conv] = r.run /\ run[r.conv] = "preparing"
            /\ Absent(r.conv) => ~Bound(r.conv) /\ frozen[r.conv] \in existing \cup {None}
            => LookedUp(r).policy = "cancel"
<1>0. LookedUp(r) = ScopeOf(r)
  BY DEF LookedUp
<1>1. ASSUME r.op = "turn" PROVE IsTurnPreparation(ScopeOf(r))
  <2>1. ~IdentityUnknown(r) /\ Policy(r) = "turn"
    BY <1>1 DEF IdentityUnknown, Policy
  <2>2. CASE Absent(r.conv)
    <3>1. ScopeOf(r) = GlobalTurnPreparation(r.conv)
      BY <1>1, <2>1, <2>2 DEF ScopeOf, MissingScope
    <3> QED BY <3>1 DEF GlobalTurnPreparation, Scope, IsTurnPreparation
  <2>3. CASE ~Absent(r.conv)
    <3>1. ScopeOf(r) = ConversationScope(r)
      BY <1>1, <2>1, <2>3 DEF ScopeOf
    <3>2. ConversationScope(r).policy = "turn"
      BY <1>1, <2>1 DEF ConversationScope, Resources, Scope
    <3> QED BY <3>1, <3>2 DEF IsTurnPreparation
  <2> QED BY <2>2, <2>3
<1>2. ASSUME r.op = "cancel_run", owner[r.conv] = r.run, run[r.conv] = "preparing",
             Absent(r.conv) => ~Bound(r.conv) /\ frozen[r.conv] \in existing \cup {None}
      PROVE  ScopeOf(r).policy = "cancel"
  <2>1. ~IdentityUnknown(r) /\ Policy(r) = "cancel"
    BY <1>2 DEF IdentityUnknown, Policy
  <2>2. CASE Absent(r.conv)
    <3>1. ScopeOf(r) = MissingScope(r)
      BY <1>2, <2>1, <2>2 DEF ScopeOf
    <3>2. MissingScope(r).policy = "cancel"
      BY <1>2, <2>1, <2>2 DEF MissingScope, Resources, Scope
    <3> QED BY <3>1, <3>2
  <2>3. CASE ~Absent(r.conv)
    <3>1. ScopeOf(r) = ConversationScope(r)
      BY <1>2, <2>1, <2>3 DEF ScopeOf
    <3>2. ConversationScope(r).policy = "cancel"
      BY <1>2, <2>1 DEF ConversationScope, Resources, Scope
    <3> QED BY <3>1, <3>2
  <2> QED BY <2>2, <2>3
<1>3. r.op = "set_access" => ScopeOf(r) = ExecutionAccess
  BY DEF ScopeOf
<1> QED BY <1>0, <1>1, <1>2, <1>3

\* Overlapping is symmetric.
LEMMA OverlapsBoth ==
  ASSUME NEW s, NEW t, Overlaps(s, t)
  PROVE  Overlaps(t, s)
<1>1. {s.kind, t.kind} = {t.kind, s.kind}
  OBVIOUS
<1> QED BY <1>1 DEF Overlaps

\* Requests about the same conversation overlap, whenever they looked it up.
LEMMA ConversationsOverlap ==
  ASSUME NEW r, NEW q, NEW s, NEW t, Fits(r, s), Fits(q, t),
         r.op \notin Unscoped, q.op \notin Unscoped, r.conv = q.conv
  PROVE  Overlaps(s, t)
<1>1. s.kind \in {"global", "global_turn"} \/ FitsConversation(r, s)
  BY FitsShows DEF Unscoped
<1>2. t.kind \in {"global", "global_turn"} \/ FitsConversation(q, t)
  BY FitsShows DEF Unscoped
<1>3. CASE FitsConversation(r, s) /\ FitsConversation(q, t)
  <2> DEFINE k == <<"conversation", r.conv>>
  <2>1. k \in s.keys /\ k \in t.keys /\ k[1] # "member"
    BY <1>3 DEF FitsConversation
  <2>2. KeysMeet(s, t)
    BY <2>1 DEF KeysMeet
  <2>3. s.kind = "resources" /\ t.kind = "resources"
    BY <1>3 DEF FitsConversation
  <2> QED BY <2>2, <2>3 DEF Overlaps
<1> QED BY <1>1, <1>2, <1>3 DEF Overlaps

\* A request about a whole tree overlaps the requests about its conversations.
LEMMA TreesOverlap ==
  ASSUME NEW r, NEW q, NEW s, NEW t, Fits(r, s), Fits(q, t),
         r.op \in {"cancel_run", "delete_conversation"}, q.op \notin Unscoped,
         Root[r.conv] = Root[q.conv]
  PROVE  Overlaps(s, t)
<1>1. s.kind \in {"global", "global_turn"} \/ FitsConversation(r, s)
  BY FitsShows DEF Unscoped
<1>2. t.kind \in {"global", "global_turn"} \/ FitsConversation(q, t)
  BY FitsShows DEF Unscoped
<1>3. CASE FitsConversation(r, s) /\ FitsConversation(q, t)
  <2>1. <<"tree", t.root>> \in s.keys /\ s.kind = "resources" /\ t.kind = "resources"
    BY <1>3 DEF FitsConversation
  <2> QED BY <2>1 DEF Overlaps, KeysMeet
<1> QED BY <1>1, <1>2, <1>3 DEF Overlaps

\* The deletion of a project overlaps the requests whose keys name it.
LEMMA ProjectsOverlap ==
  ASSUME NEW r, NEW q, NEW s, NEW t, Fits(r, s), Fits(q, t),
         r.op = "delete_project", r.project \in Projects, q.op \notin Unscoped,
         FitsConversation(q, t) => <<"member", r.project>> \in t.keys
  PROVE  Overlaps(s, t)
<1>1. \/ s.kind \in {"global", "global_turn"}
      \/ s.kind = "resources" /\ s.keys = {<<"marker", r.project>>}
  BY FitsShows DEF Unscoped, FitsConversation
<1>2. t.kind \in {"global", "global_turn"} \/ FitsConversation(q, t)
  BY FitsShows DEF Unscoped
<1>3. CASE s.kind = "resources" /\ s.keys = {<<"marker", r.project>>} /\ FitsConversation(q, t)
  <2>1. t.kind = "resources" /\ <<"marker", r.project>> \in s.keys /\ <<"member", r.project>> \in t.keys
    BY <1>3 DEF FitsConversation
  <2> QED BY <1>3, <2>1 DEF Overlaps, KeysMeet
<1> QED BY <1>1, <1>2, <1>3 DEF Overlaps

(***************************************************************************)
(* Handlers beside each other                                              *)
(***************************************************************************)

\* The lane of each kind of request.
LEMMA LaneOfOp ==
  ASSUME NEW j \in Ids
  PROVE  /\ jobs[j].req.op \in {"turn", "save_meta", "delete_conversation", "delete_project"} =>
              Lane(j) = "write"
         /\ jobs[j].req.op \in {"cancel_run", "set_access"} <=> Lane(j) = "control"
         /\ jobs[j].req.op \in {"load", "overview"} <=> Lane(j) = "read"
BY DEF Lane, Class

\* An earlier request that has not been answered while a handler that writes
\* runs has published a scope that the handler does not touch.
LEMMA RunsBeside ==
  ASSUME Orderly, TasksAreOrdered, PassesHold, TasksTyped,
         NEW k \in Ids, InHandler(k), Lane(k) = "write",
         NEW i \in Ids, i < k, ~Done(i), jobs[i].scope.kind # "overview"
  PROVE  jobs[i].published /\ ~Overlaps(jobs[k].scope, jobs[i].scope)
<1>1. i \in 1..(k - 1) /\ ~Done(k)
  BY IdsAreNumbers DEF TasksTyped, InHandler, Done
<1>2. i \in jobs[k].preds
  BY <1>1 DEF TasksAreOrdered, TaskIsOrdered
<1>3. Cleared(k, i)
  BY <1>2 DEF PassesHold, PassHolds, InHandler, Past
<1>4. Decided(k, i) /\ ~Conflicts(k, i)
  BY <1>3 DEF Cleared
<1>5. ~PassesPreparation(k, i)
  <2>1. Fits(jobs[k].req, jobs[k].scope)
    BY DEF TasksAreOrdered, TaskIsOrdered
  <2>2. jobs[k].scope.kind = "access" => jobs[k].req.op = "set_access"
    BY <2>1, FitsShows
  <2> QED BY <2>2, LaneOfOp DEF PassesPreparation
<1>6. ~PermitsPreparingCancel(k, i)
  BY DEF PermitsPreparingCancel
<1> QED BY <1>4, <1>5, <1>6 DEF Decided, Conflicts

\* Two handlers that write and run at once have scopes that do not overlap.
LEMMA WritersAreApart ==
  ASSUME Orderly, TasksAreOrdered, PassesHold, TasksTyped,
         NEW k \in Ids, InHandler(k), Lane(k) = "write",
         NEW i \in Ids, InHandler(i), Lane(i) = "write", i # k
  PROVE  ~Overlaps(jobs[k].scope, jobs[i].scope)
<1>1. i \in Nat /\ k \in Nat /\ ~Done(i) /\ ~Done(k)
  BY IdsAreNumbers DEF TasksTyped, InHandler, Done
<1>2. jobs[i].scope.kind # "overview" /\ jobs[k].scope.kind # "overview"
  <2>1. Fits(jobs[k].req, jobs[k].scope) /\ Fits(jobs[i].req, jobs[i].scope)
    BY DEF TasksAreOrdered, TaskIsOrdered
  <2> QED BY <2>1, FitsShows, LaneOfOp
<1>3. CASE i < k
  BY <1>1, <1>2, <1>3, RunsBeside
<1>4. CASE k < i
  <2>1. ~Overlaps(jobs[i].scope, jobs[k].scope)
    BY <1>1, <1>2, <1>4, RunsBeside
  <2> QED BY <2>1, OverlapsBoth
<1> QED BY <1>1, <1>3, <1>4

\* One turn at a time runs for a conversation.
LEMMA TurnsAreApart ==
  ASSUME TasksTyped, Orderly, TasksAreOrdered, PassesHold,
         NEW k \in Ids, Turn(k), NEW i \in Ids, Turn(i), jobs[i].req.conv = jobs[k].req.conv
  PROVE  i = k
<1>1. Fits(jobs[k].req, jobs[k].scope) /\ Fits(jobs[i].req, jobs[i].scope)
  BY DEF TasksAreOrdered, TaskIsOrdered
<1>2. Overlaps(jobs[k].scope, jobs[i].scope)
  BY <1>1, ConversationsOverlap DEF Turn, Unscoped
<1>3. Lane(k) = "write" /\ Lane(i) = "write" /\ InHandler(k) /\ InHandler(i)
  BY LaneOfOp DEF Turn
<1> QED BY <1>2, <1>3, WritersAreApart

(***************************************************************************)
(* Scopes stay fresh                                                       *)
(***************************************************************************)

\* The handler of the request changes the conversation's project.
Moves(k, c) ==
  /\ InHandler(k) /\ jobs'[k].pc = "done"
  /\ \/ /\ jobs[k].req.op = "turn" /\ jobs[k].req.conv = c /\ owner[c] = k
        /\ project[c] = "missing" /\ project'[c] = frozen[c]
     \/ jobs[k].req.op = "save_meta" /\ jobs[k].req.conv = c /\ project'[c] = jobs[k].req.project
     \/ /\ jobs[k].req.op = "delete_conversation" /\ Root[jobs[k].req.conv] = Root[c]
        /\ project'[c] = "missing"
     \/ /\ jobs[k].req.op = "delete_project" /\ jobs[k].req.project = project[c]
        /\ project'[c] = "missing"

\* What a step may do to the project and the run of a conversation.
WorldSteps(c) ==
  /\ project'[c] = project[c] \/ \E k \in Ids : Moves(k, c)
  /\ \/ owner'[c] = owner[c] /\ frozen'[c] = frozen[c]
     \/ owner'[c] = 0
     \/ \E k \in Ids : InHandler(k) /\ run[c] = "none" /\ owner'[c] = k
  /\ owner'[c] = owner[c] /\ run'[c] = "preparing" =>
       run[c] = "preparing" /\ (c \in cancelled => c \in cancelled')

\* A request that moves a conversation said so in its scope.
LEMMA MoverChangesOwnership ==
  ASSUME TasksAreOrdered, ScopesAreFresh, NEW k \in Ids, NEW c,
         Moves(k, c), project'[c] # project[c]
  PROVE  ChangesOwnership(jobs[k].scope)
<1> DEFINE r == jobs[k].req
           s == jobs[k].scope
<1>1. Fits(r, s) /\ InHandler(k) /\ Past(k)
  BY DEF TasksAreOrdered, TaskIsOrdered, Moves, InHandler, Past
<1>2. FitsConversation(r, s) => Fresh(r, s)
  BY <1>1 DEF ScopesAreFresh, ScopeIsFresh, StillFresh, Exact
<1>3. CASE r.op \in {"delete_project", "delete_conversation"}
  BY <1>1, <1>3, FitsShows DEF ChangesOwnership
<1>4. CASE r.op \in {"turn", "save_meta"}
  <2>1. s.kind \in {"global", "global_turn"} \/ FitsConversation(r, s)
    BY <1>1, <1>4, FitsShows
  <2>2. CASE FitsConversation(r, s)
    <3>1. s.policy # "cancel"
      BY <1>4, <2>2 DEF FitsConversation
    <3>2. /\ project[r.conv] # "missing"
          /\ r.op = "save_meta" /\ s.policy # "ownership" => project[r.conv] = r.project
      BY <1>2, <2>2, <3>1 DEF Fresh
    <3>3. r.op = "save_meta" /\ r.conv = c /\ project'[c] = r.project
      BY <1>4, <3>2 DEF Moves
    <3> QED BY <3>2, <3>3 DEF ChangesOwnership
  <2> QED BY <2>1, <2>2 DEF ChangesOwnership
<1> QED BY <1>3, <1>4 DEF Moves

\* Whoever looked a conversation up waits for the request that moves it.
LEMMA MoverIsSeen ==
  ASSUME TasksTyped, Orderly, TasksAreOrdered, PassesHold, ScopesAreFresh,
         NEW j \in Ids, NEW k \in Ids, j # k,
         jobs[j].pc \in {"observing", "ordering", "ready", "running"}, Exact(j),
         Moves(k, jobs[j].req.conv), project'[jobs[j].req.conv] # project[jobs[j].req.conv],
         jobs[j].scope.policy # "cancel" => Fresh(jobs[j].req, jobs[j].scope),
         jobs[j].scope.policy = "cancel" => jobs[k].req.op \in {"turn", "save_meta"},
         ~PermitsPreparingCancel(j, k)
  PROVE  k \in jobs[j].preds /\ jobs[k].published /\ jobs[k].started /\ MustObserve(j, k)
<1> DEFINE r == jobs[j].req
           s == jobs[j].scope
           q == jobs[k].req
           t == jobs[k].scope
           c == r.conv
<1>0. /\ q.op \in {"turn", "save_meta", "delete_conversation", "delete_project"}
      /\ InHandler(k) /\ ~Done(k) /\ ~Done(j) /\ Past(k)
  BY DEF Moves, InHandler, Done, Past
<1>1. Fits(r, s) /\ Fits(q, t) /\ r.op \notin Unscoped /\ s.kind = "resources"
  BY DEF TasksAreOrdered, TaskIsOrdered, Exact, FitsConversation
<1>2. Overlaps(s, t) /\ Overlaps(t, s)
  <2>1. CASE q.op \in {"turn", "save_meta"}
    <3>1. q.conv = c
      BY <2>1 DEF Moves
    <3> QED BY <1>1, <2>1, <3>1, ConversationsOverlap DEF Unscoped
  <2>2. CASE q.op = "delete_conversation"
    <3>1. Root[q.conv] = Root[c]
      BY <2>2 DEF Moves
    <3>2. Overlaps(t, s)
      BY <1>1, <2>2, <3>1, TreesOverlap
    <3> QED BY <3>2, OverlapsBoth
  <2>3. CASE q.op = "delete_project"
    <3>1. q.project = project[c] /\ q.project \in Projects
      <4>1. WellFormed(q)
        BY DEF Orderly, RequestsAreWellFormed
      <4> QED BY <2>3, <4>1 DEF Moves, WellFormed
    <3>2. s.policy # "cancel"
      BY <2>3
    <3>3. Member(project[c]) \subseteq s.keys
      BY <3>2 DEF Fresh
    <3>4. <<"member", q.project>> \in s.keys
      BY <3>1, <3>3, Sizes DEF Member
    <3>5. Overlaps(t, s)
      BY <1>1, <2>3, <3>1, <3>4, ProjectsOverlap
    <3> QED BY <3>5, OverlapsBoth
  <2> QED BY <1>0, <2>1, <2>2, <2>3
<1>3. Lane(k) = "write" /\ Lane(k) # "read"
  BY <1>0, LaneOfOp
<1>4. j \in Nat /\ k \in Nat /\ j >= 1 /\ k >= 1
  BY IdsAreNumbers DEF TasksTyped
<1>5. ~(j < k)
  BY <1>0, <1>1, <1>2, <1>3, RunsBeside
<1>6. k \in 1..(j - 1)
  BY <1>4, <1>5
<1>7. k \in jobs[j].preds
  BY <1>0, <1>6 DEF TasksAreOrdered, TaskIsOrdered
<1>8. k \notin jobs[j].seen
  BY <1>0 DEF TasksAreOrdered, TaskIsOrdered
<1>9. jobs[k].published /\ jobs[k].started
  BY <1>0 DEF Orderly, TasksWaitBackwards, AnswersAreCounted, InHandler
<1>10. ChangesOwnership(t)
  BY MoverChangesOwnership
<1> QED BY <1>2, <1>3, <1>7, <1>8, <1>9, <1>10 DEF MustObserve

\* An exact scope stays fresh, or its task still has to wait for whoever moved
\* the conversation.
LEMMA FreshOrSeen ==
  ASSUME TasksTyped, Orderly, TasksAreOrdered, PassesHold, ScopesAreFresh, RunsAreNamed,
         NEW j \in Ids, jobs'[j] = jobs[j],
         jobs[j].pc \in {"observing", "ordering", "ready", "running"},
         Exact(j) => WorldSteps(jobs[j].req.conv), StillFresh(j)
  PROVE  \/ StillFresh(j)'
         \/ \E k \in jobs[j].preds : jobs[k].published /\ jobs[k].started /\ MustObserve(j, k)
<1> DEFINE r == jobs[j].req
           s == jobs[j].scope
           c == r.conv
<1>0. Exact(j)' <=> Exact(j)
  BY DEF Exact
<1>1. CASE ~Exact(j)
  BY <1>0, <1>1 DEF StillFresh
<1>2. CASE Exact(j) /\ s.policy # "cancel"
  <2>1. Fresh(r, s)
    BY <1>2 DEF StillFresh
  <2>2. CASE project'[c] = project[c]
    <3>1. Fresh(r, s)'
      BY <1>2, <2>1, <2>2 DEF Fresh
    <3> QED BY <3>1 DEF StillFresh
  <2>3. CASE project'[c] # project[c]
    <3>1. PICK k \in Ids : Moves(k, c)
      BY <1>2, <2>3 DEF WorldSteps
    <3>2. k # j
      BY <3>1 DEF Moves, InHandler
    <3>3. ~PermitsPreparingCancel(j, k)
      BY <1>2 DEF PermitsPreparingCancel
    <3> QED BY <1>2, <2>1, <2>3, <3>1, <3>2, <3>3, MoverIsSeen
  <2> QED BY <2>2, <2>3
<1>3. CASE Exact(j) /\ s.policy = "cancel" /\ owner'[c] # r.run
  <2>1. Fresh(r, s)'
    BY <1>3 DEF Fresh
  <2> QED BY <2>1 DEF StillFresh
<1>4. CASE Exact(j) /\ s.policy = "cancel" /\ owner'[c] = r.run
  <2>1. r.op = "cancel_run"
    BY <1>4 DEF Exact, FitsConversation
  <2>2. r.run \in 1..(j - 1) /\ (InHandler(r.run) => Preparing(c))
    BY <2>1 DEF RunsAreNamed
  <2>3. r.run # 0 /\ ~(InHandler(r.run) /\ run[c] = "none")
    BY <2>2 DEF Preparing
  <2>4. owner[c] = r.run /\ frozen'[c] = frozen[c]
    BY <1>4, <2>3 DEF WorldSteps
  <2>5. /\ project[c] # "missing" => Member(project[c]) \subseteq s.keys
        /\ Member(frozen[c]) \subseteq s.keys
    BY <1>4, <2>4 DEF StillFresh, Fresh
  <2>6. ASSUME project'[c] # "missing" => Member(project'[c]) \subseteq s.keys
        PROVE  StillFresh(j)'
    <3>1. Fresh(r, s)'
      BY <1>4, <2>4, <2>5, <2>6 DEF Fresh, Member
    <3> QED BY <3>1 DEF StillFresh
  <2>7. CASE project'[c] = project[c] \/ project'[c] = "missing" \/ project'[c] = frozen[c]
    BY <2>5, <2>6, <2>7
  <2>8. CASE ~(project'[c] = project[c] \/ project'[c] = "missing" \/ project'[c] = frozen[c])
    <3>1. PICK k \in Ids : Moves(k, c)
      BY <1>4, <2>8 DEF WorldSteps
    <3>2. jobs[k].req.op = "save_meta" /\ k # j
      BY <2>8, <3>1 DEF Moves, InHandler
    <3>3. ~PermitsPreparingCancel(j, k)
      <4>1. Fits(jobs[k].req, jobs[k].scope)
        BY DEF TasksAreOrdered, TaskIsOrdered
      <4>2. ~IsTurnPreparation(jobs[k].scope)
        BY <3>2, <4>1, FitsShows DEF IsTurnPreparation, FitsConversation
      <4> QED BY <4>2 DEF PermitsPreparingCancel
    <3> QED BY <1>4, <2>8, <3>1, <3>2, <3>3, MoverIsSeen
  <2> QED BY <2>7, <2>8
<1> QED BY <1>1, <1>2, <1>3, <1>4

(***************************************************************************)
(* What is passed over stays passed over                                   *)
(***************************************************************************)

\* No step takes anything back that a task has published.
Advances(i) ==
  /\ jobs'[i].req = jobs[i].req
  /\ jobs[i].published => jobs'[i].published /\ jobs'[i].scope = jobs[i].scope
  /\ jobs[i].started => jobs'[i].started
  /\ jobs[i].pc = "done" => jobs'[i].pc = "done"
  /\ jobs[i].kind # "unknown" => jobs'[i].kind = jobs[i].kind

\* A task that the first pass may pass over may be passed over from then on.
LEMMA ObservedStays ==
  ASSUME NEW j, NEW i, jobs'[j].req = jobs[j].req, jobs'[j].scope = jobs[j].scope,
         jobs[j].seen \subseteq jobs'[j].seen, Advances(i), Observed(j, i)
  PROVE  Observed(j, i)'
<1>1. Lane(j)' = Lane(j) /\ Lane(i)' = Lane(i)
  BY DEF Lane, Advances
<1>2. jobs'[i].published /\ jobs'[i].scope = jobs[i].scope /\ (jobs[i].started => jobs'[i].started)
  BY DEF Observed, Advances
<1>3. PermitsPreparingCancel(j, i) => PermitsPreparingCancel(j, i)'
  BY <1>1, <1>2 DEF PermitsPreparingCancel
<1>4. MustObserve(j, i)' => MustObserve(j, i)
  BY <1>1, <1>2, <1>3 DEF MustObserve
<1> QED BY <1>2, <1>4 DEF Observed

\* A request that a task has to wait for stays one until it is seen.
LEMMA MustObserveStays ==
  ASSUME NEW j, NEW i, jobs'[j].req = jobs[j].req, jobs'[j].scope = jobs[j].scope,
         jobs[j].seen = jobs'[j].seen, Advances(i),
         jobs[i].published, jobs[i].started, MustObserve(j, i)
  PROVE  jobs'[i].published /\ jobs'[i].started /\ MustObserve(j, i)'
<1>1. Lane(j)' = Lane(j) /\ Lane(i)' = Lane(i)
  BY DEF Lane, Advances
<1>2. jobs'[i].published /\ jobs'[i].scope = jobs[i].scope /\ jobs'[i].started
  BY DEF Advances
<1>3. PermitsPreparingCancel(j, i)' => PermitsPreparingCancel(j, i)
  BY <1>1, <1>2 DEF PermitsPreparingCancel
<1> QED BY <1>1, <1>2, <1>3 DEF MustObserve

\* A request that the second pass has let go by never has to be waited for.
LEMMA ClearedStays ==
  ASSUME NEW j, NEW i, jobs'[j].req = jobs[j].req, jobs'[j].scope = jobs[j].scope,
         Advances(i), Cleared(j, i)
  PROVE  Cleared(j, i)'
<1>1. Lane(j)' = Lane(j) /\ Lane(i)' = Lane(i)
  BY DEF Lane, Advances
<1>2. PassesPreparation(j, i) => PassesPreparation(j, i)'
  BY DEF PassesPreparation, Advances
<1>3. CASE Done(i)
  BY <1>3 DEF Cleared, Done, Advances
<1>4. CASE (Lane(j) = "read" /\ Lane(i) = "read") \/ PassesPreparation(j, i)
  BY <1>1, <1>2, <1>4 DEF Cleared, Decided, Conflicts
<1>5. CASE ~Done(i) /\ ~(Lane(j) = "read" /\ Lane(i) = "read") /\ ~PassesPreparation(j, i)
  <2>1. jobs[i].published /\ ~Conflicts(j, i)
    BY <1>5 DEF Cleared, Decided
  <2>2. jobs'[i].published /\ jobs'[i].scope = jobs[i].scope /\ (jobs[i].started => jobs'[i].started)
    BY <2>1 DEF Advances
  <2>3. PermitsPreparingCancel(j, i) => PermitsPreparingCancel(j, i)'
    BY <1>1, <2>2 DEF PermitsPreparingCancel
  <2>4. ~Conflicts(j, i)'
    BY <1>1, <1>5, <2>1, <2>2, <2>3 DEF Conflicts
  <2> QED BY <2>2, <2>4 DEF Cleared, Decided
<1> QED BY <1>3, <1>4, <1>5

\* The predecessors of a task and the one it awaits are earlier tasks.
LEMMA EarlierTasks ==
  ASSUME TasksTyped, Orderly, NEW j \in Ids
  PROVE  /\ j \in Nat /\ 1..(j - 1) \subseteq Ids /\ jobs[j].preds \subseteq Ids
         /\ jobs[j].todo \subseteq jobs[j].preds
         /\ ~Done(j) /\ jobs[j].on # 0 => jobs[j].on \in jobs[j].preds /\ jobs[j].on \in Ids
         /\ jobs[j] \in Tasks /\ jobs[j].req \in Requests /\ WellFormed(jobs[j].req)
<1>1. Ids = 1..Len(jobs) /\ Len(jobs) \in Nat /\ jobs[j] \in Tasks
  BY IdsAreNumbers DEF TasksTyped
<1>2. j \in Nat /\ 1..(j - 1) \subseteq Ids
  BY <1>1
<1>3. /\ jobs[j].preds \subseteq 1..(j - 1) /\ jobs[j].todo \subseteq jobs[j].preds
      /\ ~Done(j) => jobs[j].on \in {0} \cup jobs[j].preds
      /\ WellFormed(jobs[j].req)
  BY DEF Orderly, TasksWaitBackwards, RequestsAreWellFormed
<1> QED BY <1>1, <1>2, <1>3 DEF Tasks

\* A task that a step does not touch.
LEMMA UntouchedTask ==
  ASSUME TasksTyped, Orderly, TasksAreOrdered, PassesHold, \A i \in Ids : Advances(i),
         NEW j \in Ids, jobs'[j] = jobs[j]
  PROVE  TaskIsOrdered(j)' /\ PassHolds(j)'
<1>1. TaskIsOrdered(j) /\ PassHolds(j)
  BY DEF TasksAreOrdered, PassesHold
<1>2. (Done(j)' <=> Done(j)) /\ (Past(j)' <=> Past(j)) /\ (InHandler(j)' <=> InHandler(j))
  BY DEF Done, Past, InHandler
<1>3. \A i \in Ids : Done(i) => Done(i)'
  BY DEF Done, Advances
<1>4. TaskIsOrdered(j)'
  <2>1. jobs[j].seen \subseteq Ids
    BY <1>1, EarlierTasks DEF TaskIsOrdered
  <2>2. 1..(j - 1) \subseteq Ids
    BY EarlierTasks
  <2>3. \A i \in jobs[j].seen : Done(i)'
    BY <1>1, <1>3, <2>1 DEF TaskIsOrdered
  <2>4. ~Done(j) => \A i \in 1..(j - 1) : ~Done(i)' => i \in jobs[j].preds
    BY <1>1, <1>3, <2>2 DEF TaskIsOrdered
  <2> QED BY <1>1, <1>2, <2>3, <2>4 DEF TaskIsOrdered
<1>5. \A i \in jobs[j].preds : (Observed(j, i) => Observed(j, i)') /\ (Cleared(j, i) => Cleared(j, i)')
  <2>1. jobs[j].preds \subseteq Ids
    BY EarlierTasks
  <2> QED BY <2>1, ObservedStays, ClearedStays
<1>6. jobs[j].pc = "observing" /\ jobs[j].on # 0 => jobs'[jobs[j].on].published
  <2>1. ASSUME jobs[j].pc = "observing", jobs[j].on # 0 PROVE jobs[j].on \in Ids
    BY <2>1, EarlierTasks DEF Done
  <2> QED BY <1>1, <2>1 DEF PassHolds, Advances
<1>7. PassHolds(j)'
  BY <1>1, <1>2, <1>5, <1>6 DEF PassHolds
<1> QED BY <1>4, <1>7

\* The scope of a task that a step does not touch.
LEMMA UntouchedScope ==
  ASSUME TasksTyped, Orderly, TasksAreOrdered, PassesHold, ScopesAreFresh, RunsAreNamed,
         \A i \in Ids : Advances(i),
         NEW j \in Ids, jobs'[j] = jobs[j], Exact(j) => WorldSteps(jobs[j].req.conv)
  PROVE  ScopeIsFresh(j)'
<1>1. ScopeIsFresh(j) /\ PassHolds(j)
  BY DEF ScopesAreFresh, PassesHold
<1>2. Past(j)' <=> Past(j)
  BY DEF Past
<1>3. \A k \in jobs[j].preds : jobs[k].published /\ jobs[k].started /\ MustObserve(j, k) =>
          jobs'[k].published /\ jobs'[k].started /\ MustObserve(j, k)'
  <2>1. jobs[j].preds \subseteq Ids
    BY EarlierTasks
  <2> QED BY <2>1, MustObserveStays
<1>4. CASE Past(j)
  <2>1. StillFresh(j) /\ jobs[j].pc \in {"ordering", "ready", "running"}
    BY <1>1, <1>4 DEF ScopeIsFresh, Past
  <2>2. \/ StillFresh(j)'
        \/ \E k \in jobs[j].preds : jobs[k].published /\ jobs[k].started /\ MustObserve(j, k)
    BY <2>1, FreshOrSeen
  <2>3. CASE jobs[j].scope.kind = "resources"
    <3>1. \A k \in jobs[j].preds : ~MustObserve(j, k)
      BY <1>1, <1>4, <2>3 DEF PassHolds, Observed
    <3> QED BY <2>1, <2>2, <3>1 DEF ScopeIsFresh
  <2>4. CASE jobs[j].scope.kind # "resources"
    <3>1. StillFresh(j)'
      BY <2>4 DEF StillFresh, Exact, FitsConversation
    <3> QED BY <2>1, <3>1 DEF ScopeIsFresh
  <2> QED BY <2>3, <2>4
<1>5. CASE jobs[j].pc = "observing" /\ jobs[j].on = 0 /\ ~jobs[j].again
  <2>1. jobs[j].todo \subseteq jobs[j].preds
    BY EarlierTasks
  <2>2. CASE \E k \in jobs[j].todo : jobs[k].published /\ jobs[k].started /\ MustObserve(j, k)
    BY <1>3, <1>5, <2>1, <2>2 DEF ScopeIsFresh, Past
  <2>3. CASE StillFresh(j)
    <3>1. \/ StillFresh(j)'
          \/ \E k \in jobs[j].preds : jobs[k].published /\ jobs[k].started /\ MustObserve(j, k)
      BY <1>5, <2>3, FreshOrSeen
    <3>2. \A k \in jobs[j].preds : MustObserve(j, k) => k \in jobs[j].todo \/ k = 0
      BY <1>1, <1>5 DEF PassHolds, Observed
    <3>3. 0 \notin jobs[j].preds
      BY EarlierTasks, IdsAreNumbers DEF TasksTyped
    <3>4. \/ StillFresh(j)'
          \/ \E k \in jobs[j].todo : jobs'[k].published /\ jobs'[k].started /\ MustObserve(j, k)'
      BY <1>3, <3>1, <3>2, <3>3
    <3> QED BY <1>5, <3>4 DEF ScopeIsFresh, Past
  <2> QED BY <1>1, <1>5, <2>2, <2>3 DEF ScopeIsFresh
<1>6. CASE ~Past(j) /\ ~(jobs[j].pc = "observing" /\ jobs[j].on = 0 /\ ~jobs[j].again)
  BY <1>2, <1>6 DEF ScopeIsFresh
<1> QED BY <1>4, <1>5, <1>6

\* A grant or a cancellation that a step does not touch.
LEMMA UntouchedControl ==
  ASSUME TasksTyped, Orderly, TasksAreOrdered, ControlsPass, RunsAreNamed,
         \A i \in Ids : Advances(i), stopping => stopping',
         NEW j \in Ids, jobs'[j] = jobs[j],
         jobs[j].req.op = "cancel_run" => WorldSteps(jobs[j].req.conv)
  PROVE  ControlPasses(j)'
<1> DEFINE r == jobs[j].req
           c == r.conv
<1>1. ControlPasses(j)
  BY DEF ControlsPass
<1>2. Done(j)' <=> Done(j)
  BY DEF Done
<1>3. ASSUME ~Done(j), jobs[j].on # 0, jobs[jobs[j].on].kind = "other"
      PROVE  jobs'[jobs[j].on].kind = "other"
  <2>1. jobs[j].on \in Ids
    BY <1>3, EarlierTasks
  <2> QED BY <1>3, <2>1 DEF Advances
<1>4. ASSUME r.op = "cancel_run", c \notin cancelled', owner'[c] = r.run, run'[c] = "preparing"
      PROVE  c \notin cancelled /\ owner[c] = r.run /\ run[c] = "preparing"
  <2>1. r.run \in 1..(j - 1) /\ (InHandler(r.run) => Preparing(c))
    BY <1>4 DEF RunsAreNamed
  <2>2. r.run # 0 /\ ~(InHandler(r.run) /\ run[c] = "none")
    BY <2>1 DEF Preparing
  <2>3. owner[c] = owner'[c]
    BY <1>4, <2>2 DEF WorldSteps
  <2> QED BY <1>4, <2>3 DEF WorldSteps
<1> QED BY <1>1, <1>2, <1>3, <1>4 DEF ControlPasses

\* A step of one task.
LEMMA TouchedTask ==
  ASSUME TasksTyped, Orderly, TasksInv, RunsAreNamed,
         NEW j \in Ids, NEW t \in Tasks, jobs' = [jobs EXCEPT ![j] = t],
         t.req = jobs[j].req,
         jobs[j].published => t.published /\ t.scope = jobs[j].scope,
         jobs[j].started => t.started, jobs[j].pc # "done",
         jobs[j].kind # "unknown" => t.kind = jobs[j].kind,
         stopping => stopping', \A c \in Conversations : WorldSteps(c),
         TaskIsOrdered(j)', PassHolds(j)', ScopeIsFresh(j)', ControlPasses(j)'
  PROVE  TasksInv'
<1>1. Ids' = Ids /\ jobs'[j] = t /\ \A i \in Ids : i # j => jobs'[i] = jobs[i]
  BY OneTask DEF TasksTyped
<1>2. \A i \in Ids : Advances(i)
  BY <1>1 DEF Advances
<1>3. ASSUME NEW i \in Ids, i # j
      PROVE  TaskIsOrdered(i)' /\ PassHolds(i)' /\ ScopeIsFresh(i)' /\ ControlPasses(i)'
  <2>1. jobs'[i] = jobs[i]
    BY <1>1, <1>3
  <2>2. Exact(i) \/ jobs[i].req.op = "cancel_run" => jobs[i].req.conv \in Conversations
    <3>1. WellFormed(jobs[i].req)
      BY DEF Orderly, RequestsAreWellFormed
    <3> QED BY <3>1 DEF WellFormed, Exact, FitsConversation, Unscoped
  <2>3. TaskIsOrdered(i)' /\ PassHolds(i)'
    BY <1>2, <2>1, UntouchedTask DEF TasksInv
  <2>4. ScopeIsFresh(i)'
    BY <1>2, <2>1, <2>2, UntouchedScope DEF TasksInv
  <2>5. ControlPasses(i)'
    BY <1>2, <2>1, <2>2, UntouchedControl DEF TasksInv
  <2> QED BY <2>3, <2>4, <2>5
<1> QED BY <1>1, <1>3 DEF TasksInv, TasksAreOrdered, PassesHold, ScopesAreFresh, ControlsPass

\* A step of the dispatcher alone.
LEMMA WorldRests ==
  ASSUME UNCHANGED world
  PROVE  \A c \in Conversations : WorldSteps(c)
BY DEF world, WorldSteps

\* A cancellation does not wait for the turn it cancels.
LEMMA CancelIsPermitted ==
  ASSUME TasksTyped, Orderly, TasksAreOrdered, ControlsPass, RunsAreNamed, ~stopping,
         NEW j \in Ids, jobs[j].scope.policy = "cancel"
  PROVE  PermitsPreparingCancel(j, jobs[j].req.run)
<1> DEFINE r == jobs[j].req
           k == r.run
<1>1. FitsConversation(r, jobs[j].scope) /\ r.op = "cancel_run" /\ jobs[j].scope.conv = r.conv
  BY FitsShows DEF TasksAreOrdered, TaskIsOrdered, FitsConversation
<1>2. k \in 1..(j - 1) /\ jobs[k].req.op = "turn" /\ jobs[k].req.conv = r.conv /\ jobs[k].started
  BY <1>1 DEF RunsAreNamed
<1>3. k \in Ids
  BY <1>2, EarlierTasks
<1>4. ~jobs[k].failed /\ jobs[k].kind # "unknown" /\ Fits(jobs[k].req, jobs[k].scope)
  <2>1. TaskIsOrdered(k)
    BY <1>3 DEF TasksAreOrdered
  <2>2. jobs[k].kind # "unknown"
    BY <1>2, <2>1 DEF TaskIsOrdered, InHandler
  <2> QED BY <1>2, <2>1, <2>2 DEF TaskIsOrdered
<1>5. IsTurnPreparation(jobs[k].scope)
  BY <1>2, <1>3, <1>4 DEF ControlsPass, ControlPasses
<1>6. jobs[k].scope.conv = r.conv
  BY <1>2, <1>4, <1>5, FitsShows DEF IsTurnPreparation, FitsConversation
<1>7. Lane(j) = "control"
  BY <1>1, LaneOfOp
<1> QED BY <1>1, <1>2, <1>5, <1>6, <1>7 DEF PermitsPreparingCancel

\* The registries name started turns, which a step of another task leaves alone.
LEMMA WorldBeside ==
  ASSUME TasksTyped, Orderly, WorldInv, UNCHANGED world,
         NEW j \in Ids, ~jobs[j].started, NEW t \in Tasks, jobs' = [jobs EXCEPT ![j] = t],
         t.req = jobs[j].req
  PROVE  WorldInv'
<1>1. Ids' = Ids /\ jobs'[j] = t /\ \A i \in Ids : i # j => jobs'[i] = jobs[i]
  BY OneTask DEF TasksTyped
<1>2. \A i \in Ids : jobs'[i].req = jobs[i].req
  BY <1>1
<1>3. RunsHaveOwners'
  <2>1. ASSUME NEW c \in Conversations, run[c] # "none" PROVE jobs'[owner[c]] = jobs[owner[c]]
    BY <1>1, <2>1 DEF WorldInv, RunsHaveOwners
  <2> QED BY <1>1, <2>1 DEF WorldInv, RunsHaveOwners, world, Preparing, InHandler, Done
<1>4. RunsAreNamed'
  <2> SUFFICES ASSUME NEW i \in Ids, jobs[i].req.op \in {"cancel_run", "approve"}
               PROVE  LET r == jobs[i].req
                      IN  /\ r.run \in 1..(i - 1) /\ jobs'[r.run].req.op = "turn"
                          /\ jobs'[r.run].req.conv = r.conv /\ jobs'[r.run].started
                          /\ jobs'[r.run].pc = "running" => owner[r.conv] = r.run /\ Preparing(r.conv)
    BY <1>1, <1>2 DEF RunsAreNamed, world, Preparing, InHandler
  <2> DEFINE k == jobs[i].req.run
  <2>1. /\ k \in 1..(i - 1) /\ jobs[k].req.op = "turn" /\ jobs[k].req.conv = jobs[i].req.conv
        /\ jobs[k].started /\ (jobs[k].pc = "running" => owner[jobs[i].req.conv] = k /\ Preparing(jobs[i].req.conv))
    BY DEF WorldInv, RunsAreNamed, InHandler
  <2>2. jobs'[k] = jobs[k]
    BY <1>1, <2>1, EarlierTasks
  <2> QED BY <2>1, <2>2
<1>5. TreesStayTogether'
  BY DEF WorldInv, TreesStayTogether, world
<1> QED BY <1>3, <1>4, <1>5 DEF WorldInv

(***************************************************************************)
(* Steps of the dispatcher                                                 *)
(***************************************************************************)

\* A task that has not been started.
LEMMA BeforeTheHandler ==
  ASSUME TasksTyped, TasksAreOrdered, NEW j \in Ids,
         jobs[j].pc \in {"queued", "observing", "ordering", "ready"}
  PROVE  /\ ~jobs[j].started /\ ~Done(j) /\ ~InHandler(j)
         /\ jobs[j].pc \in {"queued", "observing"} => ~jobs[j].published
         /\ jobs[j].pc # "queued" => jobs[j].kind \in {"turn", "other"}
<1>1. TaskIsOrdered(j) /\ jobs[j] \in Tasks
  BY IdsAreNumbers DEF TasksAreOrdered, TasksTyped
<1>2. ~Done(j) /\ ~InHandler(j)
  BY DEF Done, InHandler
<1> QED BY <1>1, <1>2 DEF TaskIsOrdered, Past, Tasks

\* A task continues with a scope that was just looked up.
LEMMA LookupKeeps ==
  ASSUME TasksTyped, WorldTyped, Orderly, TasksInv, WorldInv,
         NEW j \in Ids, jobs[j].pc \in {"queued", "observing"},
         NEW s, NEW t \in Tasks, jobs' = [jobs EXCEPT ![j] = t],
         UNCHANGED world, stopping' = stopping,
         t.req = jobs[j].req, t.preds = jobs[j].preds, t.todo = jobs[j].preds, t.on = 0,
         t.scope = s, t.started = jobs[j].started,
         t.seen \subseteq jobs[j].preds, \A i \in t.seen : Done(i),
         t.kind \in {"turn", "other"}, t.kind = "turn" => jobs[j].req.op = "turn",
         jobs[j].kind # "unknown" => t.kind = jobs[j].kind,
         t.pc = (IF s.kind = "resources" THEN "observing" ELSE "ordering"),
         t.published <=> s.kind # "resources",
         s = Global \/ s = LookedUp(jobs[j].req),
         ~t.failed => s = LookedUp(jobs[j].req),
         ~t.failed /\ ~stopping /\ jobs[j].req.op = "turn" => t.kind = "turn"
  PROVE  TasksInv' /\ WorldInv'
<1> DEFINE r == jobs[j].req
<1>0. /\ ~jobs[j].started /\ ~Done(j) /\ ~jobs[j].published /\ TaskIsOrdered(j)
      /\ r \in Requests /\ WellFormed(r) /\ jobs[j].preds \subseteq Ids /\ 1..(j - 1) \subseteq Ids /\ j \in Nat
  BY BeforeTheHandler, EarlierTasks DEF TasksInv, TasksAreOrdered
<1>1. jobs'[j] = t /\ \A i \in Ids : i # j => jobs'[i] = jobs[i]
  BY OneTask DEF TasksTyped
<1>2. Fits(r, s) /\ (FitsConversation(r, s) => Fresh(r, s))
  <2>1. Fits(r, Global) /\ ~FitsConversation(r, Global)
    BY DEF Fits, FitsConversation, Global, Scope
  <2> QED BY <1>0, <2>1, LookupFits
<1>3. ~Done(j)' /\ (Past(j)' <=> s.kind # "resources")
  BY <1>1 DEF Done, Past
<1>4. \A i \in Ids : Done(i)' <=> Done(i)
  BY <1>0, <1>1, <1>3 DEF Done
<1>5. TaskIsOrdered(j)'
  <2>1. \A i \in 1..(j - 1) : ~Done(i)' => i \in t.preds
    BY <1>0, <1>4 DEF TaskIsOrdered
  <2>2. \A i \in t.seen : Done(i)'
    BY <1>0, <1>4
  <2> QED BY <1>0, <1>1, <1>2, <1>3, <2>1, <2>2 DEF TaskIsOrdered
<1>6. PassHolds(j)'
  BY <1>1 DEF PassHolds, Past
<1>7. ScopeIsFresh(j)'
  <2>1. (FitsConversation(r, s) => Fresh(r, s))'
    BY <1>1, <1>2 DEF Fresh, world
  <2>2. StillFresh(j)'
    BY <1>1, <2>1 DEF StillFresh, Exact
  <2> QED BY <2>2 DEF ScopeIsFresh
<1>8. ControlPasses(j)'
  <2> SUFFICES ASSUME ~stopping, ~t.failed
               PROVE  /\ r.op = "turn" => t.kind = "turn" /\ IsTurnPreparation(s)
                      /\ r.op = "set_access" => s = ExecutionAccess
                      /\ /\ r.op = "cancel_run" /\ r.conv \notin cancelled
                         /\ owner[r.conv] = r.run /\ run[r.conv] = "preparing"
                         => s.policy = "cancel" /\ 0 # r.run
    BY <1>1 DEF ControlPasses, world
  <2>1. s = LookedUp(r)
    OBVIOUS
  <2>2. ASSUME r.op = "cancel_run", r.conv \notin cancelled, run[r.conv] = "preparing"
        PROVE  /\ Absent(r.conv) => ~Bound(r.conv) /\ frozen[r.conv] \in existing \cup {None}
               /\ 0 # r.run
    <3>1. r.conv \in Conversations
      BY <1>0, <2>2 DEF WellFormed, Unscoped
    <3>2. Preparing(r.conv)
      BY <2>2 DEF Preparing
    <3>3. r.conv \notin buried /\ frozen[r.conv] \in existing \cup {None}
      BY <2>2, <3>1, <3>2 DEF WorldInv, RunsHaveOwners
    <3>4. Absent(r.conv) => ~Bound(r.conv)
      BY <3>1, <3>3 DEF WorldInv, TreesStayTogether, Absent
    <3>5. r.run \in 1..(j - 1)
      BY <2>2 DEF WorldInv, RunsAreNamed
    <3> QED BY <3>3, <3>4, <3>5
  <2> QED BY <1>0, <2>1, <2>2, LookupKnows
<1>9. \A c \in Conversations : WorldSteps(c)
  BY WorldRests
<1>10. WorldInv'
  BY <1>0, WorldBeside
<1>11. TasksInv'
  BY <1>0, <1>5, <1>6, <1>7, <1>8, <1>9, TouchedTask DEF WorldInv, Done
<1> QED BY <1>10, <1>11

\* What a task is with a scope that was just looked up: its pass starts again.
LEMMA WithScopeFields ==
  ASSUME NEW job \in Tasks, NEW s \in Scopes
  PROVE  LET t == WithScope(job, s)
         IN  /\ t \in Tasks /\ t.req = job.req /\ t.preds = job.preds /\ t.todo = job.preds
             /\ t.on = 0 /\ t.scope = s /\ t.started = job.started /\ t.seen = job.seen
             /\ t.kind = job.kind /\ t.failed = job.failed
             /\ t.pc = (IF s.kind = "resources" THEN "observing" ELSE "ordering")
             /\ t.published = (IF s.kind = "resources" THEN job.published ELSE TRUE)
<1> DEFINE a == [job EXCEPT !.scope = s, !.pc = "observing", !.todo = job.preds, !.on = 0,
                            !.again = FALSE]
           b == [job EXCEPT !.scope = s, !.pc = "ordering", !.todo = job.preds, !.on = 0,
                            !.published = TRUE]
<1>0. 0 \in 0..MaxRequests
  BY Sizes
<1>1. /\ a \in Tasks /\ a.req = job.req /\ a.preds = job.preds /\ a.todo = job.preds
      /\ a.on = 0 /\ a.scope = s /\ a.started = job.started /\ a.seen = job.seen
      /\ a.kind = job.kind /\ a.failed = job.failed /\ a.pc = "observing"
      /\ a.published = job.published
  BY <1>0 DEF Tasks
<1>2. /\ b \in Tasks /\ b.req = job.req /\ b.preds = job.preds /\ b.todo = job.preds
      /\ b.on = 0 /\ b.scope = s /\ b.started = job.started /\ b.seen = job.seen
      /\ b.kind = job.kind /\ b.failed = job.failed /\ b.pc = "ordering" /\ b.published = TRUE
  BY <1>0 DEF Tasks
<1>3. WithScope(job, s) = IF s.kind = "resources" THEN a ELSE b
  BY DEF WithScope
<1> HIDE DEF a, b
<1> QED BY <1>1, <1>2, <1>3

\* The first lookup, or its failure, keeps the order: a fresh scope is fresh.
LEMMA ResolveOrdered ==
  ASSUME TasksTyped, WorldTyped, Orderly, TasksInv, WorldInv,
         NEW j \in Ids, Resolve(j) \/ ResolveFails(j)
  PROVE  TasksInv' /\ WorldInv'
<1> DEFINE r == jobs[j].req
<1>0. jobs[j].pc = "queued" /\ UNCHANGED world /\ stopping' = stopping
  BY DEF Resolve, ResolveFails
<1>1. jobs[j] \in Tasks /\ r \in Requests /\ WellFormed(r)
  BY EarlierTasks
<1>2. LookedUp(r) \in Scopes /\ Global \in Scopes
  BY <1>1, LookedUpTyped, FixedScopesTyped
<1>3. /\ ~jobs[j].started /\ ~jobs[j].published /\ jobs[j].kind = "unknown"
      /\ jobs[j].seen \subseteq jobs[j].preds /\ \A i \in jobs[j].seen : Done(i)
  BY <1>0, BeforeTheHandler DEF TasksInv, TasksAreOrdered, TaskIsOrdered
<1>4. CASE Resolve(j)
  <2> DEFINE s == LookedUp(r)
             kind == IF IsTurnPreparation(s) THEN "turn" ELSE "other"
             u == WithScope(jobs[j], s)
             t == [u EXCEPT !.kind = kind]
  <2>1. jobs' = [jobs EXCEPT ![j] = t]
    BY <1>4 DEF Resolve
  <2>2. kind \in {"turn", "other"} /\ (kind = "turn" <=> IsTurnPreparation(s))
    OBVIOUS
  <2>3. kind = "turn" => r.op = "turn"
    <3>1. Fits(r, s)
      BY <1>1, LookupFits
    <3> QED BY <2>2, <3>1, FitsShows DEF IsTurnPreparation, FitsConversation
  <2>4. ~stopping /\ r.op = "turn" => kind = "turn"
    BY <1>1, <2>2, LookupKnows
  <2>5. /\ u \in Tasks /\ u.req = r /\ u.preds = jobs[j].preds /\ u.todo = jobs[j].preds
        /\ u.on = 0 /\ u.scope = s /\ u.started = jobs[j].started /\ u.seen = jobs[j].seen
        /\ u.pc = (IF s.kind = "resources" THEN "observing" ELSE "ordering")
        /\ u.published = (IF s.kind = "resources" THEN jobs[j].published ELSE TRUE)
    BY <1>1, <1>2, WithScopeFields
  <2> HIDE DEF u, kind, s
  <2>6. /\ t \in Tasks /\ t.req = u.req /\ t.preds = u.preds /\ t.todo = u.todo
        /\ t.on = u.on /\ t.scope = u.scope /\ t.started = u.started /\ t.seen = u.seen
        /\ t.pc = u.pc /\ t.published = u.published /\ t.kind = kind
    BY <2>2, <2>5 DEF Tasks
  <2> HIDE DEF t
  <2>7. t.published <=> s.kind # "resources"
    BY <1>3, <2>5, <2>6
  <2>8. s = LookedUp(r)
    BY DEF s
  <2>9. /\ t.req = jobs[j].req /\ t.preds = jobs[j].preds /\ t.todo = jobs[j].preds /\ t.on = 0
        /\ t.scope = s /\ t.started = jobs[j].started
    BY <2>5, <2>6
  <2>10. /\ t.seen \subseteq jobs[j].preds /\ \A i \in t.seen : Done(i)
         /\ t.pc = (IF s.kind = "resources" THEN "observing" ELSE "ordering")
    BY <1>3, <2>5, <2>6
  <2>11. /\ t.kind \in {"turn", "other"} /\ (t.kind = "turn" => jobs[j].req.op = "turn")
         /\ (~stopping /\ jobs[j].req.op = "turn" => t.kind = "turn")
    BY <2>2, <2>3, <2>4, <2>6
  <2>12. t \in Tasks /\ jobs[j].kind = "unknown"
    BY <1>3, <2>6
  <2> QED BY ONLY TasksTyped, WorldTyped, Orderly, TasksInv, WorldInv, j \in Ids, <1>0, <2>1,
                  <2>7, <2>8, <2>9, <2>10, <2>11, <2>12, LookupKeeps
<1>5. CASE ResolveFails(j)
  <2> DEFINE u == WithScope(jobs[j], Global)
             t == [u EXCEPT !.kind = "other", !.failed = TRUE]
  <2>1. jobs' = [jobs EXCEPT ![j] = t]
    BY <1>5 DEF ResolveFails
  <2> HIDE DEF t
  <2>2. Global.kind # "resources"
    BY DEF Global, Scope
  <2>3. /\ u \in Tasks /\ u.req = r /\ u.preds = jobs[j].preds /\ u.todo = jobs[j].preds
        /\ u.on = 0 /\ u.scope = Global /\ u.started = jobs[j].started /\ u.seen = jobs[j].seen
        /\ u.pc = "ordering" /\ u.published = TRUE
    <3>1. /\ u \in Tasks /\ u.req = r /\ u.preds = jobs[j].preds /\ u.todo = jobs[j].preds
          /\ u.on = 0 /\ u.scope = Global /\ u.started = jobs[j].started /\ u.seen = jobs[j].seen
          /\ u.pc = (IF Global.kind = "resources" THEN "observing" ELSE "ordering")
          /\ u.published = (IF Global.kind = "resources" THEN jobs[j].published ELSE TRUE)
      BY <1>1, <1>2, WithScopeFields
    <3> HIDE DEF u
    <3> QED BY <2>2, <3>1
  <2> HIDE DEF u
  <2>4. /\ t \in Tasks /\ t.req = u.req /\ t.preds = u.preds /\ t.todo = u.todo
        /\ t.on = u.on /\ t.scope = u.scope /\ t.started = u.started /\ t.seen = u.seen
        /\ t.pc = u.pc /\ t.published = u.published /\ t.kind = "other" /\ t.failed = TRUE
    BY <2>3 DEF Tasks, t
  <2> HIDE DEF t
  <2>5. /\ t.pc = (IF Global.kind = "resources" THEN "observing" ELSE "ordering")
        /\ t.published <=> Global.kind # "resources"
    BY <2>2, <2>3, <2>4
  <2>6. /\ t.req = jobs[j].req /\ t.preds = jobs[j].preds /\ t.todo = jobs[j].preds /\ t.on = 0
        /\ t.scope = Global /\ t.started = jobs[j].started
    BY <2>3, <2>4
  <2>7. t.seen \subseteq jobs[j].preds /\ \A i \in t.seen : Done(i)
    BY <1>3, <2>3, <2>4
  <2>8. t \in Tasks /\ t.kind = "other" /\ t.failed = TRUE /\ jobs[j].kind = "unknown"
    BY <1>3, <2>4
  <2> QED BY ONLY TasksTyped, WorldTyped, Orderly, TasksInv, WorldInv, j \in Ids, <1>0, <2>1,
                  <2>5, <2>6, <2>7, <2>8, LookupKeeps
<1> QED BY <1>4, <1>5

\* What a task is when the request it waited for in its first pass has returned.
LEMMA ResumedFields ==
  ASSUME TasksTyped, Orderly, TasksInv, NEW j \in Ids, jobs[j].pc = "observing", Reached(j)
  PROVE  LET t == Resumed(j)
         IN  /\ t \in Tasks /\ t.req = jobs[j].req /\ t.preds = jobs[j].preds
             /\ t.todo = jobs[j].todo /\ t.on = 0 /\ t.scope = jobs[j].scope
             /\ t.started = jobs[j].started /\ t.published = jobs[j].published
             /\ t.kind = jobs[j].kind /\ t.failed = jobs[j].failed /\ t.pc = "observing"
             /\ t.seen = jobs[j].seen \cup (IF jobs[j].on = 0 THEN {} ELSE {jobs[j].on})
             /\ t.seen \subseteq jobs[j].preds /\ \A i \in t.seen : Done(i)
             /\ ~t.again => jobs[j].on = 0 /\ t = jobs[j]
<1>1. /\ jobs[j] \in Tasks /\ jobs[j].on \in 0..MaxRequests /\ jobs[j].seen \subseteq jobs[j].preds
      /\ \A i \in jobs[j].seen : Done(i)
      /\ jobs[j].on # 0 => jobs[j].on \in jobs[j].preds
  BY EarlierTasks DEF Tasks, TasksInv, TasksAreOrdered, TaskIsOrdered, Done
<1>2. CASE jobs[j].on = 0
  BY <1>1, <1>2 DEF Resumed
<1>3. CASE jobs[j].on # 0
  <2> DEFINE job == jobs[j]
             seen == job.seen \cup {job.on}
             t == [job EXCEPT !.seen = seen, !.again = TRUE, !.on = 0]
  <2>1. seen \in SUBSET (1..MaxRequests) /\ 0 \in 0..MaxRequests
    BY <1>1, <1>3, Sizes DEF Tasks
  <2>2. Resumed(j) = t
    BY <1>3 DEF Resumed
  <2>3. seen \subseteq jobs[j].preds /\ \A i \in seen : Done(i)
    BY <1>1, <1>3 DEF Reached
  <2> HIDE DEF seen
  <2>4. job \in Tasks /\ job.pc = "observing"
    BY <1>1
  <2> HIDE DEF job
  <2>5. /\ t \in Tasks /\ t.req = job.req /\ t.preds = job.preds
        /\ t.todo = job.todo /\ t.on = 0 /\ t.scope = job.scope /\ t.started = job.started
        /\ t.published = job.published /\ t.kind = job.kind /\ t.failed = job.failed
        /\ t.pc = job.pc /\ t.seen = seen /\ t.again = TRUE
    BY <2>1, <2>4 DEF Tasks
  <2> HIDE DEF t
  <2> QED BY <1>3, <2>2, <2>3, <2>4, <2>5 DEF job, seen
<1> QED BY <1>2, <1>3

\* What a task is when its pass stops at the first request it has to wait for.
LEMMA AwaitInFields ==
  ASSUME NEW job \in Tasks, NEW S, S \subseteq job.todo, S # {}
  PROVE  LET m == Min(S)
             t == AwaitIn(job, m)
         IN  /\ t \in Tasks /\ t.req = job.req /\ t.preds = job.preds /\ t.scope = job.scope
             /\ t.started = job.started /\ t.published = job.published /\ t.kind = job.kind
             /\ t.failed = job.failed /\ t.pc = job.pc /\ t.seen = job.seen
             /\ t.on = m /\ m \in S /\ m \in Nat \ {0}
             /\ \A i \in job.todo : i = m \/ i \in t.todo \/ i \notin S
<1>1. job.todo \subseteq 1..MaxRequests /\ job.todo \subseteq Nat
  BY Sizes DEF Tasks
<1>2. Min(S) \in S /\ \A i \in S : Min(S) <= i
  <2>1. S \in SUBSET Nat BY <1>1
  <2> QED BY <2>1, LeastNumber
<1> DEFINE m == Min(S)
<1> HIDE DEF m
<1>3. m \in S /\ m \in 1..MaxRequests /\ m \in 0..MaxRequests /\ m \in Nat \ {0} /\ \A i \in S : m <= i
  BY <1>1, <1>2, Sizes DEF m
<1> DEFINE todo == {k \in job.todo : k > m}
           t == [job EXCEPT !.on = m, !.todo = todo]
<1>4. todo \in SUBSET (1..MaxRequests)
  BY <1>1
<1>5. AwaitIn(job, m) = t
  BY DEF AwaitIn
<1>6. \A i \in job.todo : i = m \/ i \in todo \/ i \notin S
  BY <1>1, <1>3
<1> HIDE DEF todo
<1>7. /\ t \in Tasks /\ t.req = job.req /\ t.preds = job.preds /\ t.scope = job.scope
      /\ t.started = job.started /\ t.published = job.published /\ t.kind = job.kind
      /\ t.failed = job.failed /\ t.pc = job.pc /\ t.seen = job.seen /\ t.on = m /\ t.todo = todo
  BY <1>3, <1>4 DEF Tasks
<1> HIDE DEF t
<1> QED BY <1>3, <1>5, <1>6, <1>7 DEF m

\* The first pass keeps the order: it waits, looks the scope up again, or
\* publishes a scope that nothing has changed since.
LEMMA ObserveOrdered ==
  ASSUME TasksTyped, WorldTyped, Orderly, TasksInv, WorldInv,
         NEW j \in Ids, Observe(j) \/ RefreshFails(j)
  PROVE  TasksInv' /\ WorldInv'
<1> DEFINE r == jobs[j].req
           job == Resumed(j)
           stop == ObserveStops(j)
<1>0. /\ jobs[j].pc = "observing" /\ Reached(j) /\ UNCHANGED world /\ stopping' = stopping
      /\ stop # {} => jobs[Min(stop)].published
  BY DEF Observe, RefreshFails, CanObserve
<1>1. /\ job \in Tasks /\ job.req = r /\ job.preds = jobs[j].preds
      /\ job.todo = jobs[j].todo /\ job.on = 0 /\ job.scope = jobs[j].scope
      /\ job.started = jobs[j].started /\ job.published = jobs[j].published
      /\ job.kind = jobs[j].kind /\ job.failed = jobs[j].failed /\ job.pc = "observing"
      /\ job.seen = jobs[j].seen \cup (IF jobs[j].on = 0 THEN {} ELSE {jobs[j].on})
      /\ job.seen \subseteq jobs[j].preds /\ \A i \in job.seen : Done(i)
      /\ ~job.again => jobs[j].on = 0 /\ job = jobs[j]
  BY <1>0, ResumedFields
<1>2. /\ ~jobs[j].started /\ ~Done(j) /\ ~jobs[j].published /\ jobs[j].kind \in {"turn", "other"}
  BY <1>0, BeforeTheHandler DEF TasksInv
<1>3. /\ r \in Requests /\ WellFormed(r) /\ jobs[j].preds \subseteq Ids /\ 1..(j - 1) \subseteq Ids
      /\ j \in Nat /\ jobs[j].todo \subseteq jobs[j].preds
  BY EarlierTasks
<1>4. TaskIsOrdered(j) /\ PassHolds(j) /\ ScopeIsFresh(j) /\ ControlPasses(j) /\ RunsAreNamed
  BY DEF TasksInv, WorldInv, TasksAreOrdered, PassesHold, ScopesAreFresh, ControlsPass
<1>5. LookedUp(r) \in Scopes /\ Global \in Scopes
  BY <1>3, LookedUpTyped, FixedScopesTyped
<1>6. \A c \in Conversations : WorldSteps(c)
  BY <1>0, WorldRests
<1>10. j \notin jobs[j].preds /\ 0 \notin jobs[j].preds
  BY <1>3 DEF Orderly, TasksWaitBackwards
<1>7. ASSUME NEW i \in jobs[j].preds
      PROVE  Observed(j, i) \/ i \in jobs[j].todo \/ (i = jobs[j].on /\ jobs[i].published)
  <2>1. \A k \in jobs[j].preds \ (jobs[j].todo \cup {jobs[j].on}) : Observed(j, k)
    BY <1>0, <1>4 DEF PassHolds
  <2>2. jobs[j].on # 0 => jobs[jobs[j].on].published
    BY <1>0, <1>4 DEF PassHolds
  <2>3. CASE i = jobs[j].on
    BY <1>10, <2>2, <2>3
  <2>4. CASE i # jobs[j].on
    BY <2>1, <2>4
  <2> QED BY <2>3, <2>4
<1>8. \A i \in jobs[j].todo : Observed(j, i) \/ i \in stop
  BY DEF ObserveStops, Observed
<1>9. stop \subseteq job.todo
  BY <1>1 DEF ObserveStops
<1> HIDE DEF job
<1>11. CASE Observe(j) /\ stop # {}
  <2> DEFINE m == Min(stop)
             t == AwaitIn(job, m)
  <2>1. jobs' = [jobs EXCEPT ![j] = t]
    BY <1>11 DEF Observe, job
  <2> HIDE DEF stop
  <2>2. /\ t \in Tasks /\ t.req = job.req /\ t.preds = job.preds /\ t.scope = job.scope
        /\ t.started = job.started /\ t.published = job.published /\ t.kind = job.kind
        /\ t.failed = job.failed /\ t.pc = job.pc /\ t.seen = job.seen
        /\ t.on = m /\ m \in stop /\ m \in Nat \ {0}
        /\ \A i \in job.todo : i = m \/ i \in t.todo \/ i \notin stop
    BY <1>1, <1>9, <1>11, AwaitInFields
  <2> HIDE DEF m, t
  <2>3. jobs'[j] = t /\ \A i \in Ids : i # j => jobs'[i] = jobs[i]
    BY <2>1, <2>2, OneTask DEF TasksTyped
  <2>4. jobs[m].published /\ MustObserve(j, m) /\ m \in jobs[j].preds /\ m # j
    <3>1. jobs[m].published
      BY <1>0, <1>11 DEF m, stop
    <3> QED BY <1>1, <1>3, <1>9, <1>10, <2>2, <3>1 DEF stop, ObserveStops
  <2>5. \A i \in Ids : Done(i)' <=> Done(i)
    BY <1>0, <1>1, <2>2, <2>3 DEF Done
  <2>6. ~Done(j)' /\ ~Past(j)' /\ ~InHandler(j)'
    BY <1>1, <2>2, <2>3 DEF Done, Past, InHandler
  <2>7. TaskIsOrdered(j)'
    <3>1. \A i \in 1..(j - 1) : ~Done(i)' => i \in t.preds
      BY <1>1, <1>2, <1>3, <1>4, <2>2, <2>5 DEF TaskIsOrdered
    <3>2. t.seen \subseteq t.preds /\ \A i \in t.seen : Done(i)'
      BY <1>1, <1>3, <2>2, <2>5
    <3>3. /\ Fits(t.req, t.scope) /\ (t.kind = "turn" => t.req.op = "turn")
          /\ t.scope.kind = "resources"
      BY <1>0, <1>1, <1>4, <2>2 DEF TaskIsOrdered
    <3>4. t.pc = "observing" /\ ~t.published /\ ~t.started /\ t.kind # "unknown"
      BY <1>1, <1>2, <2>2
    <3> QED BY <2>3, <2>6, <3>1, <3>2, <3>3, <3>4 DEF TaskIsOrdered
  <2>8. ASSUME NEW i \in t.preds, i \notin t.todo, i # m PROVE Observed(j, i)'
    <3>1. i \in jobs[j].preds /\ i \in Ids /\ i # j
      BY <1>1, <1>3, <1>10, <2>2
    <3>2. jobs'[i] = jobs[i] /\ Advances(i)
      BY <2>3, <3>1 DEF Advances
    <3>3. CASE Observed(j, i)
      <4>1. jobs[j].seen \subseteq jobs'[j].seen /\ jobs'[j].req = jobs[j].req /\ jobs'[j].scope = jobs[j].scope
        BY <1>1, <2>2, <2>3
      <4> QED BY <3>2, <3>3, <4>1, ObservedStays
    <3>4. CASE ~Observed(j, i)
      <4>1. i \in jobs[j].todo => i \in stop
        BY <1>8, <3>4 DEF stop
      <4>2. i \notin jobs[j].todo
        BY <1>1, <2>2, <2>8, <4>1
      <4>3. i = jobs[j].on /\ jobs[i].published
        BY <1>7, <3>1, <3>4, <4>2
      <4>4. i \in t.seen
        BY <1>1, <1>10, <2>2, <3>1, <4>3
      <4> QED BY <2>3, <3>2, <4>3, <4>4 DEF Observed, MustObserve
    <3> QED BY <3>3, <3>4
  <2>9. jobs'[m].published
    BY <1>3, <2>3, <2>4
  <2>10. PassHolds(j)'
    BY <1>1, <2>2, <2>3, <2>6, <2>8, <2>9 DEF PassHolds
  <2>11. ScopeIsFresh(j)'
    BY <2>2, <2>3, <2>6 DEF ScopeIsFresh
  <2>12. ControlPasses(j)'
    <3> SUFFICES ASSUME ~stopping, ~jobs[j].failed
                 PROVE  ControlPasses(j)'
      BY <1>0, <1>1, <2>2, <2>3 DEF ControlPasses
    <3>1. r.op # "set_access"
      BY <1>0, <1>2, <1>4 DEF TaskIsOrdered, ControlPasses, ExecutionAccess, Scope
    <3>2. jobs[j].scope.policy = "cancel" => m # r.run
      <4>1. jobs[j].scope.policy = "cancel" => PermitsPreparingCancel(j, r.run)
        BY <1>4, CancelIsPermitted DEF TasksInv
      <4> QED BY <2>4, <4>1 DEF MustObserve
    <3> QED BY <1>0, <1>1, <1>2, <1>4, <2>2, <2>3, <3>1, <3>2 DEF ControlPasses, world
  <2>13. WorldInv'
    BY <1>0, <1>1, <1>2, <2>1, <2>2, WorldBeside
  <2>14. TasksInv'
    BY <1>0, <1>1, <1>2, <1>4, <1>6, <2>1, <2>2, <2>7, <2>10, <2>11, <2>12, TouchedTask DEF Done
  <2> QED BY <2>13, <2>14
<1>12. CASE Observe(j) /\ stop = {} /\ job.again
  <2> DEFINE s == LookedUp(r)
             t == WithScope(job, s)
  <2>1. jobs' = [jobs EXCEPT ![j] = t]
    BY <1>1, <1>12 DEF Observe, job
  <2>2. /\ t \in Tasks /\ t.req = job.req /\ t.preds = job.preds /\ t.todo = job.preds
        /\ t.on = 0 /\ t.scope = s /\ t.started = job.started /\ t.seen = job.seen
        /\ t.kind = job.kind /\ t.failed = job.failed
        /\ t.pc = (IF s.kind = "resources" THEN "observing" ELSE "ordering")
        /\ t.published = (IF s.kind = "resources" THEN job.published ELSE TRUE)
    BY <1>1, <1>5, WithScopeFields
  <2> HIDE DEF t, s
  <2>3. t.published <=> s.kind # "resources"
    BY <1>1, <1>2, <2>2
  <2>4. t.kind = "turn" => r.op = "turn"
    BY <1>1, <1>4, <2>2 DEF TaskIsOrdered
  <2>5. ~t.failed /\ ~stopping /\ r.op = "turn" => t.kind = "turn"
    BY <1>1, <1>2, <1>4, <2>2 DEF ControlPasses
  <2>6. s = LookedUp(r)
    BY DEF s
  <2>7. /\ t.req = jobs[j].req /\ t.preds = jobs[j].preds /\ t.todo = jobs[j].preds /\ t.on = 0
        /\ t.scope = s /\ t.started = jobs[j].started
    BY <1>1, <2>2
  <2>8. /\ t.seen \subseteq jobs[j].preds /\ \A i \in t.seen : Done(i)
        /\ t.pc = (IF s.kind = "resources" THEN "observing" ELSE "ordering")
    BY <1>1, <2>2
  <2>9. t \in Tasks /\ t.kind \in {"turn", "other"} /\ t.kind = jobs[j].kind
    BY <1>1, <1>2, <2>2
  <2> HIDE DEF r, stop, job
  <2> QED BY ONLY TasksTyped, WorldTyped, Orderly, TasksInv, WorldInv, j \in Ids, <1>0, <2>1,
                  <2>3, <2>4, <2>5, <2>6, <2>7, <2>8, <2>9, LookupKeeps DEF r
<1>13. CASE Observe(j) /\ stop = {} /\ ~job.again
  <2> DEFINE t == [job EXCEPT !.published = TRUE, !.pc = "ordering", !.todo = job.preds]
  <2>1. jobs' = [jobs EXCEPT ![j] = t]
    BY <1>13 DEF Observe, job
  <2>2. /\ t \in Tasks /\ t.req = job.req /\ t.preds = job.preds /\ t.todo = job.preds
        /\ t.on = job.on /\ t.scope = job.scope /\ t.started = job.started /\ t.seen = job.seen
        /\ t.kind = job.kind /\ t.failed = job.failed /\ t.pc = "ordering" /\ t.published
    BY <1>1 DEF Tasks
  <2> HIDE DEF t
  <2>3. jobs'[j] = t /\ \A i \in Ids : i # j => jobs'[i] = jobs[i]
    BY <2>1, <2>2, OneTask DEF TasksTyped
  <2>4. jobs[j].on = 0 /\ job = jobs[j] /\ ~jobs[j].again
    BY <1>1, <1>13
  <2>5. \A i \in Ids : Done(i)' <=> Done(i)
    BY <1>0, <2>2, <2>3 DEF Done
  <2>6. ~Done(j)' /\ Past(j)' /\ ~InHandler(j)'
    BY <2>2, <2>3 DEF Done, Past, InHandler
  <2>7. TaskIsOrdered(j)'
    <3>1. \A i \in 1..(j - 1) : ~Done(i)' => i \in t.preds
      BY <1>1, <1>2, <1>3, <1>4, <2>2, <2>5 DEF TaskIsOrdered
    <3>2. t.seen \subseteq t.preds /\ \A i \in t.seen : Done(i)'
      BY <1>1, <1>3, <2>2, <2>5
    <3> QED BY <1>1, <1>2, <1>4, <2>2, <2>3, <2>6, <3>1, <3>2 DEF TaskIsOrdered
  <2>8. ASSUME NEW i \in t.preds PROVE Observed(j, i)'
    <3>1. i \in jobs[j].preds /\ i \in Ids /\ i # j
      BY <1>1, <1>3, <1>10, <2>2
    <3>2. jobs'[i] = jobs[i] /\ Advances(i)
      BY <2>3, <3>1 DEF Advances
    <3>3. Observed(j, i)
      BY <1>7, <1>8, <1>10, <1>13, <2>4, <3>1
    <3>4. jobs[j].seen \subseteq jobs'[j].seen /\ jobs'[j].req = jobs[j].req /\ jobs'[j].scope = jobs[j].scope
      BY <1>1, <2>2, <2>3
    <3> QED BY <3>2, <3>3, <3>4, ObservedStays
  <2>9. PassHolds(j)'
    BY <2>2, <2>3, <2>8 DEF PassHolds
  <2>10. ScopeIsFresh(j)'
    <3>1. \A k \in jobs[j].todo : ~MustObserve(j, k)
      BY <1>13 DEF ObserveStops
    <3>2. StillFresh(j)
      BY <1>0, <1>4, <2>4, <3>1 DEF ScopeIsFresh
    <3>3. jobs'[j].req = r /\ jobs'[j].scope = jobs[j].scope
      BY <1>1, <2>2, <2>3
    <3>4. Fresh(r, jobs[j].scope)' <=> Fresh(r, jobs[j].scope)
      BY <1>0, <2>2, <2>3, <2>4, <3>3 DEF Fresh, world
    <3>5. StillFresh(j)'
      BY <3>2, <3>3, <3>4 DEF StillFresh, Exact
    <3> QED BY <2>2, <2>3, <3>5 DEF ScopeIsFresh
  <2>11. ControlPasses(j)'
    BY <1>0, <1>1, <1>2, <1>4, <2>2, <2>3, <2>4 DEF ControlPasses, world, Done
  <2>12. WorldInv'
    BY <1>0, <1>1, <1>2, <2>1, <2>2, WorldBeside
  <2>13. TasksInv'
    BY <1>0, <1>1, <1>2, <1>4, <1>6, <2>1, <2>2, <2>7, <2>9, <2>10, <2>11, TouchedTask DEF Done
  <2> QED BY <2>12, <2>13
<1>14. CASE RefreshFails(j)
  <2> DEFINE u == WithScope(job, Global)
             t == [u EXCEPT !.failed = TRUE]
  <2>1. jobs' = [jobs EXCEPT ![j] = t]
    BY <1>14 DEF RefreshFails, job
  <2>2. Global.kind # "resources"
    BY DEF Global, Scope
  <2>3. /\ u \in Tasks /\ u.req = job.req /\ u.preds = job.preds /\ u.todo = job.preds
        /\ u.on = 0 /\ u.scope = Global /\ u.started = job.started /\ u.seen = job.seen
        /\ u.kind = job.kind /\ u.pc = "ordering" /\ u.published = TRUE
    BY <1>1, <1>5, <2>2, WithScopeFields
  <2> HIDE DEF u
  <2>4. /\ t \in Tasks /\ t.req = u.req /\ t.preds = u.preds /\ t.todo = u.todo
        /\ t.on = u.on /\ t.scope = u.scope /\ t.started = u.started /\ t.seen = u.seen
        /\ t.pc = u.pc /\ t.published = u.published /\ t.kind = u.kind /\ t.failed = TRUE
    BY <2>3 DEF Tasks
  <2> HIDE DEF t
  <2>5. /\ t.pc = (IF Global.kind = "resources" THEN "observing" ELSE "ordering")
        /\ t.published <=> Global.kind # "resources"
    BY <2>2, <2>3, <2>4
  <2>6. t.kind = "turn" => r.op = "turn"
    BY <1>1, <1>4, <2>3, <2>4 DEF TaskIsOrdered
  <2>7. /\ t.req = r /\ t.preds = jobs[j].preds /\ t.todo = jobs[j].preds /\ t.on = 0
        /\ t.scope = Global /\ t.started = jobs[j].started /\ t.seen \subseteq jobs[j].preds
        /\ \A i \in t.seen : Done(i)
    BY <1>1, <2>3, <2>4
  <2>8. t.kind \in {"turn", "other"} /\ t.kind = jobs[j].kind /\ t.failed
    BY <1>1, <1>2, <2>3, <2>4
  <2> QED BY <1>0, <2>1, <2>4, <2>5, <2>6, <2>7, <2>8, LookupKeeps
<1> QED BY <1>11, <1>12, <1>13, <1>14

\* A task that has published its scope goes on to its handler.
LEMMA PastKeeps ==
  ASSUME TasksTyped, WorldTyped, Orderly, TasksInv, WorldInv,
         NEW j \in Ids, jobs[j].pc \in {"ordering", "ready"},
         NEW t \in Tasks, jobs' = [jobs EXCEPT ![j] = t],
         UNCHANGED world, stopping' = stopping,
         t.req = jobs[j].req, t.preds = jobs[j].preds, t.scope = jobs[j].scope,
         t.published = jobs[j].published, t.kind = jobs[j].kind, t.failed = jobs[j].failed,
         t.seen = jobs[j].seen, t.pc \in {"ordering", "ready", "running"},
         t.started <=> t.pc = "running", t.started => ~t.failed,
         t.pc = "ordering" => \A i \in t.preds \ (t.todo \cup {t.on}) : Cleared(j, i),
         t.pc # "ordering" => \A i \in t.preds : Cleared(j, i),
         t.on # 0 => t.on \in jobs[j].preds,
         ~stopping /\ ~t.failed /\ t.req.op = "set_access" /\ t.on # 0 => jobs[t.on].kind = "other",
         ~stopping /\ t.scope.policy = "cancel" => t.on # t.req.run \/ t.on = jobs[j].on
  PROVE  TasksInv' /\ WorldInv'
<1> DEFINE r == jobs[j].req
<1>0. /\ ~jobs[j].started /\ ~Done(j) /\ jobs[j].kind \in {"turn", "other"}
      /\ jobs[j].preds \subseteq Ids /\ 1..(j - 1) \subseteq Ids /\ j \notin jobs[j].preds
  <2>1. j \notin jobs[j].preds
    BY EarlierTasks DEF Orderly, TasksWaitBackwards
  <2> QED BY <2>1, BeforeTheHandler, EarlierTasks DEF TasksInv
<1>1. jobs'[j] = t /\ \A i \in Ids : i # j => jobs'[i] = jobs[i]
  BY OneTask DEF TasksTyped
<1>2. TaskIsOrdered(j) /\ PassHolds(j) /\ ScopeIsFresh(j) /\ ControlPasses(j) /\ RunsAreNamed
  BY DEF TasksInv, WorldInv, TasksAreOrdered, PassesHold, ScopesAreFresh, ControlsPass
<1>3. ~Done(j)' /\ Past(j)' /\ Past(j) /\ (InHandler(j)' <=> t.pc = "running") /\ t.pc # "done"
  BY <1>1 DEF Done, Past, InHandler
<1>4. \A i \in Ids : Done(i)' <=> Done(i)
  BY <1>0, <1>1, <1>3 DEF Done
<1>5. TaskIsOrdered(j)'
  <2>1. \A i \in 1..(j - 1) : ~Done(i)' => i \in t.preds
    BY <1>0, <1>2, <1>4 DEF TaskIsOrdered
  <2>2. t.seen \subseteq t.preds /\ \A i \in t.seen : Done(i)'
    BY <1>0, <1>2, <1>4 DEF TaskIsOrdered
  <2>3. Fits(t.req, t.scope) /\ (t.kind = "turn" => t.req.op = "turn")
    BY <1>2 DEF TaskIsOrdered
  <2>4. t.pc # "queued" /\ t.pc # "observing" /\ t.kind # "unknown"
    BY <1>0
  <2> QED BY <1>1, <1>3, <2>1, <2>2, <2>3, <2>4 DEF TaskIsOrdered
<1>6. ASSUME NEW i \in t.preds
      PROVE  (Observed(j, i) => Observed(j, i)') /\ (Cleared(j, i) => Cleared(j, i)')
  <2>1. Advances(i)
    BY <1>0, <1>1 DEF Advances
  <2> QED BY <1>1, <2>1, ObservedStays, ClearedStays
<1>7. PassHolds(j)'
  <2>1. t.scope.kind = "resources" => \A i \in t.preds : Observed(j, i)'
    BY <1>2, <1>3, <1>6 DEF PassHolds
  <2>2. t.pc = "ordering" => \A i \in t.preds \ (t.todo \cup {t.on}) : Cleared(j, i)'
    BY <1>6
  <2>3. t.pc # "ordering" => \A i \in t.preds : Cleared(j, i)'
    BY <1>6
  <2>4. t.pc # "observing" /\ (t.pc \in {"ready", "running"} => t.pc # "ordering")
    OBVIOUS
  <2> QED BY <1>1, <2>1, <2>2, <2>3, <2>4 DEF PassHolds
<1>8. ScopeIsFresh(j)'
  <2>1. StillFresh(j)
    BY <1>2, <1>3 DEF ScopeIsFresh
  <2>2. Fresh(r, jobs[j].scope)' <=> Fresh(r, jobs[j].scope)
    BY <1>1 DEF Fresh, world
  <2>3. StillFresh(j)'
    BY <1>1, <2>1, <2>2 DEF StillFresh, Exact
  <2>4. t.pc # "observing"
    OBVIOUS
  <2> QED BY <1>1, <2>3, <2>4 DEF ScopeIsFresh
<1>9. ControlPasses(j)'
  <2>1. t.on # 0 /\ jobs[t.on].kind = "other" => jobs'[t.on].kind = "other"
    BY <1>0, <1>1
  <2> QED BY <1>0, <1>1, <1>2, <2>1 DEF ControlPasses, world
<1>10. \A c \in Conversations : WorldSteps(c)
  BY WorldRests
<1>11. WorldInv'
  BY <1>0, WorldBeside
<1>12. TasksInv'
  BY <1>0, <1>2, <1>5, <1>7, <1>8, <1>9, <1>10, TouchedTask DEF Done
<1> QED BY <1>11, <1>12

\* The second pass keeps the order: a task that gets to the end of it has been
\* let by every earlier request that is not answered.
LEMMA OrderOrdered ==
  ASSUME TasksTyped, WorldTyped, Orderly, TasksInv, WorldInv, NEW j \in Ids, Order(j)
  PROVE  TasksInv' /\ WorldInv'
<1> DEFINE job == jobs[j]
           stop == OrderStops(j)
<1>0. /\ job.pc = "ordering" /\ Reached(j) /\ UNCHANGED world /\ stopping' = stopping
      /\ stop # {} => Decided(j, Min(stop))
  BY DEF Order, CanOrder
<1>1. /\ ~job.started /\ ~Done(j) /\ job.kind \in {"turn", "other"} /\ job \in Tasks
      /\ job.preds \subseteq Ids /\ job.todo \subseteq job.preds
  BY <1>0, BeforeTheHandler, EarlierTasks DEF TasksInv
<1>2. PassHolds(j) /\ ControlPasses(j) /\ RunsAreNamed
  BY DEF TasksInv, WorldInv, PassesHold, ControlsPass
<1>3. 0 \notin job.preds
  BY <1>1, EarlierTasks DEF Orderly, TasksWaitBackwards
<1>4. ASSUME NEW i \in job.preds
      PROVE  Cleared(j, i) \/ i \in job.todo
  <2>1. \A k \in job.preds \ (job.todo \cup {job.on}) : Cleared(j, k)
    BY <1>0, <1>2 DEF PassHolds
  <2>2. CASE i = job.on
    BY <1>0, <1>3, <2>2 DEF Reached, Cleared
  <2> QED BY <2>1, <2>2
<1>5. \A i \in job.todo : Cleared(j, i) \/ i \in stop
  BY DEF OrderStops, Cleared
<1>6. stop \subseteq job.todo
  BY DEF OrderStops
<1>7. CASE stop = {}
  <2> DEFINE t == [job EXCEPT !.pc = "ready", !.on = 0]
  <2>0. \A i \in job.preds : Cleared(j, i)
    BY <1>4, <1>5, <1>7
  <2>1. jobs' = [jobs EXCEPT ![j] = t]
    BY <1>7 DEF Order
  <2>2. 0 \in 0..MaxRequests
    BY Sizes
  <2>3. ~stopping /\ job.scope.policy = "cancel" => 0 # job.req.run
    <3>1. job.scope.policy = "cancel" => job.req.op = "cancel_run"
      BY FitsShows DEF TasksInv, TasksAreOrdered, TaskIsOrdered, FitsConversation
    <3> QED BY <1>2, <3>1 DEF RunsAreNamed
  <2> HIDE DEF job
  <2>4. /\ t \in Tasks /\ t.req = job.req /\ t.preds = job.preds /\ t.scope = job.scope
        /\ t.published = job.published /\ t.kind = job.kind /\ t.failed = job.failed
        /\ t.seen = job.seen /\ t.pc = "ready" /\ t.started = job.started /\ t.on = 0
    BY <1>1, <2>2 DEF Tasks
  <2> HIDE DEF t
  <2>5. job = jobs[j]
    BY DEF job
  <2> QED BY <1>0, <1>1, <2>0, <2>1, <2>3, <2>4, <2>5, PastKeeps
<1>8. CASE stop # {}
  <2> DEFINE m == Min(stop)
             t == AwaitIn(job, m)
  <2>1. jobs' = [jobs EXCEPT ![j] = t]
    BY <1>8 DEF Order
  <2>2. Decided(j, m)
    BY <1>0, <1>8
  <2> HIDE DEF stop, job
  <2>3. /\ t \in Tasks /\ t.req = job.req /\ t.preds = job.preds /\ t.scope = job.scope
        /\ t.started = job.started /\ t.published = job.published /\ t.kind = job.kind
        /\ t.failed = job.failed /\ t.pc = job.pc /\ t.seen = job.seen
        /\ t.on = m /\ m \in stop /\ m \in Nat \ {0}
        /\ \A i \in job.todo : i = m \/ i \in t.todo \/ i \notin stop
    BY <1>1, <1>6, <1>8, AwaitInFields
  <2> HIDE DEF m, t
  <2>4. Conflicts(j, m) /\ m \in job.preds /\ m \in Ids
    BY <1>1, <1>6, <2>2, <2>3 DEF stop, OrderStops
  <2>5. job = jobs[j]
    BY DEF job
  <2>6. \A i \in t.preds \ (t.todo \cup {t.on}) : Cleared(j, i)
    BY <1>4, <1>5, <2>3 DEF stop, job
  <2>7. ~stopping /\ ~t.failed /\ t.req.op = "set_access" => jobs[m].kind = "other"
    <3> SUFFICES ASSUME ~stopping, ~job.failed, job.req.op = "set_access"
                 PROVE  jobs[m].kind = "other"
      BY <2>3
    <3>1. job.scope.kind = "access"
      BY <1>1, <1>2, <2>5 DEF ControlPasses, ExecutionAccess, Scope
    <3>2. jobs[m].kind # "turn"
      BY <2>4, <2>5, <3>1 DEF Conflicts, PassesPreparation
    <3>3. Lane(j) = "control"
      BY <2>5, LaneOfOp
    <3>4. jobs[m].published
      BY <2>2, <3>2, <3>3 DEF Decided, PassesPreparation
    <3>5. jobs[m].kind # "unknown"
      BY <2>4, <3>4 DEF TasksInv, TasksAreOrdered, TaskIsOrdered
    <3>6. jobs[m].kind \in {"unknown", "turn", "other"}
      BY <2>4, EarlierTasks DEF Tasks
    <3> QED BY <3>2, <3>5, <3>6
  <2>8. ~stopping /\ t.scope.policy = "cancel" => m # t.req.run
    <3>1. ~stopping /\ job.scope.policy = "cancel" => PermitsPreparingCancel(j, job.req.run)
      BY <1>2, <2>5, CancelIsPermitted DEF TasksInv
    <3> QED BY <2>3, <2>4, <3>1 DEF Conflicts
  <2> QED BY <1>0, <1>1, <2>1, <2>3, <2>4, <2>5, <2>6, <2>7, <2>8, PastKeeps
<1> QED BY <1>7, <1>8

\* What is left of a task when its request is answered.
LEMMA AnsweredFields ==
  ASSUME NEW job \in Tasks, job.answers = 0
  PROVE  LET t == Answered(job)
         IN  /\ t \in Tasks /\ t.req = job.req /\ t.preds = {} /\ t.todo = {} /\ t.seen = {}
             /\ t.scope = job.scope /\ t.started = job.started /\ t.published = job.published
             /\ t.kind = job.kind /\ t.failed = job.failed /\ t.pc = "done" /\ t.on = job.on
<1> DEFINE t == [job EXCEPT !.pc = "done", !.answers = 1, !.preds = {}, !.todo = {}, !.seen = {}]
<1>1. Answered(job) = t
  BY DEF Answered
<1>2. job.answers \in 0..1 /\ 1 \in 0..1
  BY DEF Tasks
<1>3. t \in Tasks
  BY <1>2 DEF Tasks
<1>4. /\ t.req = job.req /\ t.preds = {} /\ t.todo = {} /\ t.seen = {}
      /\ t.scope = job.scope /\ t.started = job.started /\ t.published = job.published
      /\ t.kind = job.kind /\ t.failed = job.failed /\ t.pc = "done" /\ t.on = job.on
  BY DEF Tasks
<1> HIDE DEF t
<1> QED BY <1>1, <1>3, <1>4

\* A request is answered, by its handler or without it.
LEMMA CompleteOrdered ==
  ASSUME TasksTyped, Orderly, TasksInv, RunsAreNamed, NEW j \in Ids,
         jobs[j].pc \in {"ready", "running"}, jobs' = [jobs EXCEPT ![j] = Answered(@)],
         stopping => stopping', \A c \in Conversations : WorldSteps(c)
  PROVE  TasksInv'
<1> DEFINE job == jobs[j]
           t == Answered(job)
<1>1. job \in Tasks /\ job.answers = 0 /\ job.pc # "done"
  BY EarlierTasks DEF Orderly, AnswersAreCounted, Done
<1>2. jobs' = [jobs EXCEPT ![j] = t]
  OBVIOUS
<1>3. TaskIsOrdered(j) /\ ControlPasses(j)
  BY DEF TasksInv, TasksAreOrdered, ControlsPass
<1>4. job = jobs[j]
  OBVIOUS
<1> HIDE DEF job
<1>5. /\ t \in Tasks /\ t.req = job.req /\ t.preds = {} /\ t.todo = {} /\ t.seen = {}
      /\ t.scope = job.scope /\ t.started = job.started /\ t.published = job.published
      /\ t.kind = job.kind /\ t.failed = job.failed /\ t.pc = "done"
  BY <1>1, AnsweredFields
<1> HIDE DEF t
<1>6. jobs'[j] = t
  BY <1>2, <1>5, OneTask DEF TasksTyped
<1>7. Done(j)' /\ ~Past(j)' /\ t.pc \notin {"queued", "observing", "ordering", "ready", "running"}
  BY <1>5, <1>6 DEF Done, Past
<1>8. TaskIsOrdered(j)'
  <2>1. /\ Fits(t.req, t.scope) /\ (t.kind = "turn" => t.req.op = "turn")
        /\ t.failed => ~t.started
        /\ t.published \/ t.started => t.kind # "unknown"
    BY <1>3, <1>4, <1>5 DEF TaskIsOrdered
  <2>2. t.seen \subseteq t.preds /\ \A i \in t.seen : Done(i)'
    BY <1>5
  <2> QED BY <1>6, <1>7, <2>1, <2>2 DEF TaskIsOrdered
<1>9. PassHolds(j)'
  BY <1>6, <1>7 DEF PassHolds
<1>10. ScopeIsFresh(j)'
  BY <1>6, <1>7 DEF ScopeIsFresh
<1>11. ControlPasses(j)'
  BY <1>3, <1>4, <1>5, <1>6, <1>7 DEF ControlPasses
<1> QED BY <1>1, <1>2, <1>4, <1>5, <1>8, <1>9, <1>10, <1>11, TouchedTask

\* Getting a worker, or being refused one, keeps the order.
LEMMA StartOrdered ==
  ASSUME TasksTyped, WorldTyped, Orderly, TasksInv, WorldInv, NEW j \in Ids, Start(j)
  PROVE  TasksInv' /\ WorldInv'
<1>0. jobs[j].pc = "ready" /\ UNCHANGED world /\ stopping' = stopping
  BY DEF Start, CanStart
<1>1. CASE stopping \/ jobs[j].failed
  <2>1. \A c \in Conversations : WorldSteps(c)
    BY <1>0, WorldRests
  <2>2. jobs' = [jobs EXCEPT ![j] = Answered(@)]
    BY <1>1 DEF Start, Complete
  <2>3. TasksInv'
    BY <1>0, <2>1, <2>2, CompleteOrdered DEF WorldInv
  <2>4. jobs[j] \in Tasks /\ jobs[j].answers = 0 /\ ~jobs[j].started
    BY <1>0, EarlierTasks, BeforeTheHandler DEF Orderly, AnswersAreCounted, Done, TasksInv
  <2>5. Answered(jobs[j]) \in Tasks /\ Answered(jobs[j]).req = jobs[j].req
    BY <2>4, AnsweredFields
  <2>6. jobs' = [jobs EXCEPT ![j] = Answered(jobs[j])]
    BY <2>2
  <2>7. WorldInv'
    BY <1>0, <2>4, <2>5, <2>6, WorldBeside
  <2> QED BY <2>3, <2>7
<1>2. CASE ~(stopping \/ jobs[j].failed)
  <2> DEFINE job == jobs[j]
             t == [job EXCEPT !.pc = "running", !.started = TRUE]
  <2>1. jobs' = [jobs EXCEPT ![j] = t]
    BY <1>2 DEF Start
  <2>2. /\ \A i \in job.preds : Cleared(j, i)
        /\ ControlPasses(j) /\ job.kind \in {"turn", "other"} /\ ~Done(j)
        /\ job.on # 0 => job.on \in job.preds
    BY <1>0, BeforeTheHandler, EarlierTasks DEF TasksInv, PassesHold, PassHolds, ControlsPass
  <2>3. job \in Tasks
    BY EarlierTasks
  <2>4. job.req.op = "set_access" /\ job.on # 0 => jobs[job.on].kind = "other"
    BY <1>2, <2>2 DEF ControlPasses
  <2> HIDE DEF job
  <2>5. /\ t \in Tasks /\ t.req = job.req /\ t.preds = job.preds /\ t.scope = job.scope
        /\ t.published = job.published /\ t.kind = job.kind /\ t.failed = job.failed
        /\ t.seen = job.seen /\ t.pc = "running" /\ t.started /\ t.on = job.on
    BY <2>3 DEF Tasks
  <2> HIDE DEF t
  <2>6. job = jobs[j]
    BY DEF job
  <2> QED BY <1>0, <1>2, <2>1, <2>2, <2>4, <2>5, <2>6, PastKeeps
<1> QED BY <1>1, <1>2

\* Steps that touch no task.
LEMMA TasksRestOrdered ==
  ASSUME TasksTyped, Orderly, TasksInv, RunsAreNamed, UNCHANGED jobs, stopping => stopping',
         \A c \in Conversations : WorldSteps(c)
  PROVE  TasksInv'
<1>1. Ids' = Ids /\ \A i \in Ids : jobs'[i] = jobs[i] /\ Advances(i)
  BY DEF Ids, Advances
<1>2. ASSUME NEW i \in Ids
      PROVE  TaskIsOrdered(i)' /\ PassHolds(i)' /\ ScopeIsFresh(i)' /\ ControlPasses(i)'
  <2>1. Exact(i) \/ jobs[i].req.op = "cancel_run" => jobs[i].req.conv \in Conversations
    <3>1. WellFormed(jobs[i].req)
      BY DEF Orderly, RequestsAreWellFormed
    <3> QED BY <3>1 DEF WellFormed, Exact, FitsConversation, Unscoped
  <2>2. TaskIsOrdered(i)' /\ PassHolds(i)'
    BY <1>1, UntouchedTask DEF TasksInv
  <2>3. ScopeIsFresh(i)'
    BY <1>1, <2>1, UntouchedScope DEF TasksInv
  <2>4. ControlPasses(i)'
    BY <1>1, <2>1, UntouchedControl DEF TasksInv
  <2> QED BY <2>2, <2>3, <2>4
<1> QED BY <1>1, <1>2 DEF TasksInv, TasksAreOrdered, PassesHold, ScopesAreFresh, ControlsPass

\* A new request has nothing behind it.
LEMMA SubmitOrdered ==
  ASSUME TasksTyped, WorldTyped, Orderly, TasksInv, WorldInv, NEW r \in Menu, Submit(r)
  PROVE  TasksInv' /\ WorldInv'
<1> DEFINE named == [op |-> r.op, conv |-> r.conv, project |-> r.project,
                     run |-> IF r.op \in {"cancel_run", "approve"} THEN owner[r.conv] ELSE 0]
           x == IF stopping \/ LaneIsFull(r) THEN Rejected(named) ELSE NewJob(named)
<1>0. /\ UNCHANGED world /\ stopping' = stopping /\ jobs' = Append(jobs, x)
      /\ r.op \in {"cancel_run", "approve"} => run[r.conv] # "none"
  BY DEF Submit
<1>n. PICK n \in Nat : n = Len(jobs) + 1
  BY LenProperties DEF TasksTyped
<1>1. Ids = 1..(n - 1) /\ n \in Nat /\ n \notin Ids
  BY <1>n, IdsAreNumbers DEF TasksTyped
<1>2. r.op \in {"cancel_run", "approve"} => r.conv \in Conversations
  BY Sizes DEF Unscoped
<1>3. /\ named.op = r.op /\ named.conv = r.conv
      /\ r.op \in {"cancel_run", "approve"} => named.run = owner[r.conv]
  OBVIOUS
<1> HIDE DEF named
<1>4. /\ NewJob(named).req = named /\ NewJob(named).scope = Global /\ ~NewJob(named).published
      /\ NewJob(named).kind = "unknown" /\ ~NewJob(named).started /\ ~NewJob(named).failed
      /\ NewJob(named).seen = {} /\ NewJob(named).pc = "queued"
      /\ NewJob(named).preds = {i \in Ids : ~Done(i)}
  BY DEF NewJob
<1>5. /\ Rejected(named).req = named /\ Rejected(named).scope = Global /\ ~Rejected(named).published
      /\ Rejected(named).kind = "unknown" /\ ~Rejected(named).started /\ ~Rejected(named).failed
      /\ Rejected(named).seen = {} /\ Rejected(named).pc = "done"
  BY DEF Rejected, NewJob
<1>6. /\ x.req = named /\ x.scope = Global /\ ~x.published
      /\ x.kind = "unknown" /\ ~x.started /\ ~x.failed /\ x.seen = {} /\ x.pc \in {"queued", "done"}
      /\ x.pc = "queued" => x.preds = {i \in Ids : ~Done(i)}
  BY <1>4, <1>5
<1> HIDE DEF x
<1>7. Ids' = Ids \cup {n} /\ jobs'[n] = x /\ \A i \in Ids : jobs'[i] = jobs[i]
  <2>1. jobs \in Seq(Tasks) /\ Len(jobs) \in Nat /\ DOMAIN jobs = 1..Len(jobs)
    BY LenProperties DEF TasksTyped
  <2>2. /\ DOMAIN jobs' = 1..(Len(jobs) + 1) /\ jobs'[Len(jobs) + 1] = x
        /\ \A i \in 1..Len(jobs) : jobs'[i] = jobs[i]
    BY <1>0, <2>1
  <2> QED BY <1>n, <2>1, <2>2 DEF Ids
<1>8. \A i \in Ids : Advances(i)
  BY <1>7 DEF Advances
<1>9. ASSUME NEW i \in Ids
      PROVE  TaskIsOrdered(i)' /\ PassHolds(i)' /\ ScopeIsFresh(i)' /\ ControlPasses(i)'
  <2>1. Exact(i) \/ jobs[i].req.op = "cancel_run" => jobs[i].req.conv \in Conversations
    <3>1. WellFormed(jobs[i].req)
      BY DEF Orderly, RequestsAreWellFormed
    <3> QED BY <3>1 DEF WellFormed, Exact, FitsConversation, Unscoped
  <2>2. \A c \in Conversations : WorldSteps(c)
    BY <1>0, WorldRests
  <2>3. jobs'[i] = jobs[i] /\ (stopping => stopping') /\ RunsAreNamed
    BY <1>0, <1>7 DEF WorldInv
  <2>4. TaskIsOrdered(i)' /\ PassHolds(i)'
    BY <1>8, <2>3, UntouchedTask DEF TasksInv
  <2>5. ScopeIsFresh(i)'
    BY <1>8, <2>1, <2>2, <2>3, UntouchedScope DEF TasksInv
  <2>6. ControlPasses(i)'
    BY <1>8, <2>1, <2>2, <2>3, UntouchedControl DEF TasksInv
  <2> QED BY <2>4, <2>5, <2>6
<1>10. TaskIsOrdered(n)' /\ PassHolds(n)' /\ ScopeIsFresh(n)' /\ ControlPasses(n)'
  <2>1. ~Past(n)' /\ (Done(n)' <=> x.pc = "done") /\ x.pc # "observing"
    BY <1>6, <1>7 DEF Past, Done
  <2>2. x.pc # "done" => \A i \in 1..(n - 1) : ~Done(i)' => i \in x.preds
    BY <1>1, <1>6, <1>7 DEF Done
  <2>3. TaskIsOrdered(n)'
    <3>1. Fits(x.req, x.scope)
      BY <1>6 DEF Fits
    <3> QED BY <1>6, <1>7, <2>1, <2>2, <3>1 DEF TaskIsOrdered
  <2>4. PassHolds(n)'
    BY <1>6, <1>7, <2>1 DEF PassHolds
  <2>5. ScopeIsFresh(n)'
    BY <1>6, <1>7, <2>1 DEF ScopeIsFresh
  <2>6. ControlPasses(n)'
    BY <1>6, <1>7 DEF ControlPasses
  <2> QED BY <2>3, <2>4, <2>5, <2>6
<1>11. TasksInv'
  BY <1>7, <1>9, <1>10 DEF TasksInv, TasksAreOrdered, PassesHold, ScopesAreFresh, ControlsPass
<1>12. RunsHaveOwners'
  <2>1. ASSUME NEW c \in Conversations, run[c] # "none"
        PROVE  owner[c] \in Ids' /\ jobs'[owner[c]] = jobs[owner[c]]
    BY <1>7, <2>1 DEF WorldInv, RunsHaveOwners
  <2>2. RunsHaveOwners /\ \A c \in Conversations : Preparing(c) => run[c] # "none"
    BY DEF WorldInv, Preparing
  <2>3. UNCHANGED <<project, existing, buried, run, owner, frozen, cancelled>>
    BY <1>0 DEF world
  <2> QED BY <2>1, <2>2, <2>3 DEF RunsHaveOwners, Preparing, InHandler, Done
<1>13. ASSUME NEW i \in Ids', jobs'[i].req.op \in {"cancel_run", "approve"}
       PROVE  LET q == jobs'[i].req
              IN  /\ q.run \in 1..(i - 1) /\ jobs'[q.run].req.op = "turn"
                  /\ jobs'[q.run].req.conv = q.conv /\ jobs'[q.run].started
                  /\ jobs'[q.run].pc = "running" => owner[q.conv] = q.run /\ Preparing(q.conv)
  <2>1. CASE i \in Ids
    <3> DEFINE k == jobs[i].req.run
    <3>1. /\ k \in 1..(i - 1) /\ jobs[k].req.op = "turn" /\ jobs[k].req.conv = jobs[i].req.conv
          /\ jobs[k].started /\ (jobs[k].pc = "running" => owner[jobs[i].req.conv] = k /\ Preparing(jobs[i].req.conv))
      BY <1>7, <1>13, <2>1 DEF WorldInv, RunsAreNamed, InHandler
    <3>2. jobs'[k] = jobs[k] /\ jobs'[i] = jobs[i]
      BY <1>7, <2>1, <3>1, EarlierTasks
    <3> QED BY <3>1, <3>2
  <2>2. CASE i = n
    <3> DEFINE c == r.conv
               k == owner[c]
    <3>1. jobs'[i].req = named /\ named.run = k /\ named.conv = c /\ c \in Conversations /\ run[c] # "none"
      BY <1>0, <1>2, <1>3, <1>6, <1>7, <1>13, <2>2
    <3>2. /\ k \in Ids /\ jobs[k].req.op = "turn" /\ jobs[k].req.conv = c /\ jobs[k].started
          /\ run[c] = "active" => Done(k)
      BY <3>1 DEF WorldInv, RunsHaveOwners
    <3>3. k \in 1..(i - 1) /\ jobs'[k] = jobs[k]
      BY <1>1, <1>7, <2>2, <3>2
    <3>4. jobs[k].pc = "running" => Preparing(c)
      BY <3>1, <3>2 DEF Preparing, WorldTyped, Done
    <3> QED BY <3>1, <3>2, <3>3, <3>4
  <2> QED BY <1>7, <2>1, <2>2
<1>14. RunsAreNamed'
  BY <1>0, <1>13 DEF RunsAreNamed, world, Preparing, InHandler
<1>15. TreesStayTogether'
  BY <1>0 DEF WorldInv, TreesStayTogether, world
<1> QED BY <1>11, <1>12, <1>14, <1>15 DEF WorldInv

(***************************************************************************)
(* Steps of the handlers                                                   *)
(***************************************************************************)

\* The root of a tree belongs to it.
LEMMA RootIsBound ==
  ASSUME NEW c \in Conversations, Bound(c)
  PROVE  Root[c] \in Conversations /\ Bound(Root[c])
<1>1. Root[c] \in Conversations /\ Root[Root[c]] = Root[c]
  BY Sizes
<1>2. Tree(Root[c]) = Tree(c)
  BY <1>1 DEF Tree
<1> QED BY <1>1, <1>2 DEF Bound

\* A handler owns the run its turn prepares, and no other.
LEMMA OwnerInHandler ==
  ASSUME TasksTyped, WorldTyped, Orderly, TasksInv, WorldInv,
         NEW j \in Ids, InHandler(j), NEW c \in Conversations
  PROVE  /\ owner[c] = j => Turn(j) /\ jobs[j].req.conv = c /\ Preparing(c)
         /\ Turn(j) /\ jobs[j].req.conv = c /\ Preparing(c) => owner[c] = j
<1>1. /\ run[c] = "none" <=> owner[c] = 0
      /\ run[c] # "none" => owner[c] \in Ids /\ jobs[owner[c]].req.op = "turn"
                              /\ jobs[owner[c]].req.conv = c
      /\ Preparing(c) => InHandler(owner[c])
      /\ run[c] = "active" => Done(owner[c])
  BY DEF WorldInv, RunsHaveOwners
<1>2. j # 0 /\ ~Done(j)
  BY IdsAreNumbers DEF TasksTyped, InHandler, Done
<1>3. run[c] \in {"none", "preparing", "committing", "active"}
  BY DEF WorldTyped
<1>4. ASSUME owner[c] = j PROVE Turn(j) /\ jobs[j].req.conv = c /\ Preparing(c)
  BY <1>1, <1>2, <1>3, <1>4 DEF Turn, Preparing
<1>5. ASSUME Turn(j), jobs[j].req.conv = c, Preparing(c) PROVE owner[c] = j
  <2>1. owner[c] \in Ids /\ Turn(owner[c]) /\ jobs[owner[c]].req.conv = c
    BY <1>1, <1>5 DEF Turn, Preparing
  <2> QED BY <1>5, <2>1, TurnsAreApart DEF TasksInv
<1> QED BY <1>4, <1>5

\* A handler ends, and with it what it owned in the registries.
LEMMA RegistriesStep ==
  ASSUME TasksTyped, WorldTyped, Orderly, WorldInv, NEW j \in Ids, jobs[j].started,
         NEW t \in Tasks, jobs' = [jobs EXCEPT ![j] = t],
         t.req = jobs[j].req, t.started, t.pc = "done",
         \A d \in Conversations :
           \/ run'[d] = run[d] /\ owner'[d] = owner[d] /\ frozen'[d] = frozen[d] /\ owner[d] # j
           \/ run'[d] = "none" /\ owner'[d] = 0 /\ (Preparing(d) => owner[d] = j)
           \/ run'[d] = "active" /\ owner'[d] = j /\ owner[d] = j /\ Preparing(d),
         \A d \in Conversations : Preparing(d) /\ owner[d] # j =>
           /\ d \in buried' => d \in cancelled'
           /\ frozen[d] \in existing' \cup {None}
           /\ project'[d] = project[d]
  PROVE  RunsHaveOwners' /\ RunsAreNamed'
<1>1. Ids' = Ids /\ jobs'[j] = t /\ \A i \in Ids : i # j => jobs'[i] = jobs[i]
  BY OneTask DEF TasksTyped
<1>2. j # 0
  BY IdsAreNumbers DEF TasksTyped
<1>3. ASSUME NEW d \in Conversations
      PROVE  /\ run'[d] = "none" <=> owner'[d] = 0
             /\ run'[d] # "none" => owner'[d] \in Ids /\ jobs'[owner'[d]].req.op = "turn"
                                      /\ jobs'[owner'[d]].req.conv = d /\ jobs'[owner'[d]].started
             /\ Preparing(d)' => jobs'[owner'[d]].pc = "running"
             /\ run'[d] = "active" => jobs'[owner'[d]].pc = "done"
             /\ Preparing(d)' /\ d \in buried' => d \in cancelled'
             /\ Preparing(d)' => frozen'[d] \in existing' \cup {None}
             /\ Preparing(d)' /\ jobs'[owner'[d]].scope.kind = "resources" => project'[d] = frozen'[d]
  <2>1. /\ run[d] = "none" <=> owner[d] = 0
        /\ run[d] # "none" => owner[d] \in Ids /\ jobs[owner[d]].req.op = "turn"
                                /\ jobs[owner[d]].req.conv = d /\ jobs[owner[d]].started
        /\ Preparing(d) => jobs[owner[d]].pc = "running"
        /\ run[d] = "active" => jobs[owner[d]].pc = "done"
        /\ Preparing(d) /\ jobs[owner[d]].scope.kind = "resources" => project[d] = frozen[d]
    BY DEF WorldInv, RunsHaveOwners, InHandler, Done
  <2>2. CASE run'[d] = run[d] /\ owner'[d] = owner[d] /\ frozen'[d] = frozen[d] /\ owner[d] # j
    <3>1. Preparing(d)' <=> Preparing(d)
      BY <2>2 DEF Preparing
    <3>2. run[d] # "none" => jobs'[owner[d]] = jobs[owner[d]]
      BY <1>1, <2>1, <2>2
    <3>3. Preparing(d) => run[d] # "none"
      BY DEF Preparing
    <3> QED BY <2>1, <2>2, <3>1, <3>2, <3>3
  <2>3. CASE run'[d] = "none" /\ owner'[d] = 0
    BY <2>3 DEF Preparing
  <2>4. CASE run'[d] = "active" /\ owner'[d] = j /\ owner[d] = j /\ Preparing(d)
    <3>1. run[d] # "none" /\ ~Preparing(d)'
      BY <2>4 DEF Preparing
    <3> QED BY <1>1, <1>2, <2>1, <2>4, <3>1
  <2> QED BY <2>2, <2>3, <2>4
<1>4. RunsHaveOwners'
  BY <1>1, <1>3 DEF RunsHaveOwners, InHandler, Done
<1>5. ASSUME NEW i \in Ids, jobs[i].req.op \in {"cancel_run", "approve"}
      PROVE  LET r == jobs[i].req
             IN  /\ r.run \in 1..(i - 1) /\ jobs'[r.run].req.op = "turn"
                 /\ jobs'[r.run].req.conv = r.conv /\ jobs'[r.run].started
                 /\ jobs'[r.run].pc = "running" => owner'[r.conv] = r.run /\ Preparing(r.conv)'
  <2> DEFINE k == jobs[i].req.run
             d == jobs[i].req.conv
  <2>1. /\ k \in 1..(i - 1) /\ jobs[k].req.op = "turn" /\ jobs[k].req.conv = d
        /\ jobs[k].started /\ (jobs[k].pc = "running" => owner[d] = k /\ Preparing(d))
    BY <1>5 DEF WorldInv, RunsAreNamed, InHandler
  <2>2. k \in Ids /\ d \in Conversations
    BY <1>5, <2>1, EarlierTasks DEF WellFormed, Unscoped
  <2>3. CASE k = j
    BY <1>1, <2>1, <2>3
  <2>4. CASE k # j
    <3>1. jobs'[k] = jobs[k]
      BY <1>1, <2>2, <2>4
    <3>2. jobs[k].pc = "running" => owner'[d] = k /\ Preparing(d)'
      BY <2>1, <2>2, <2>4 DEF Preparing
    <3> QED BY <2>1, <3>1, <3>2
  <2> QED BY <2>3, <2>4
<1>6. \A i \in Ids : jobs'[i].req = jobs[i].req
  BY <1>1
<1>7. RunsAreNamed'
  BY <1>1, <1>5, <1>6 DEF RunsAreNamed, InHandler
<1> QED BY <1>4, <1>7

\* What becomes of a task whose handler ends.
LEMMA HandlerEnds ==
  ASSUME TasksTyped, Orderly, NEW j \in Ids, InHandler(j), Complete(j)
  PROVE  LET t == Answered(jobs[j])
         IN  /\ t \in Tasks /\ jobs' = [jobs EXCEPT ![j] = t] /\ t.req = jobs[j].req
             /\ jobs[j].started /\ t.started /\ t.pc = "done" /\ jobs'[j].pc = "done"
<1>1. jobs[j] \in Tasks /\ jobs[j].answers = 0 /\ jobs[j].started
  BY EarlierTasks DEF Orderly, AnswersAreCounted, Done, InHandler
<1> DEFINE t == Answered(jobs[j])
<1>2. t \in Tasks /\ t.req = jobs[j].req /\ t.started = jobs[j].started /\ t.pc = "done"
  BY <1>1, AnsweredFields
<1>3. jobs' = [jobs EXCEPT ![j] = t]
  BY DEF Complete
<1> HIDE DEF t
<1>4. jobs'[j] = t
  BY <1>2, <1>3, OneTask DEF TasksTyped
<1> QED BY <1>1, <1>2, <1>3, <1>4 DEF t

\* A turn that enters itself in the registry keeps the order: its conversation
\* has no other run, and no cancellation names the new run yet.
LEMMA RegisterOrdered ==
  ASSUME TasksTyped, WorldTyped, Orderly, TasksInv, WorldInv, NEW j \in Ids, Register(j)
  PROVE  TasksInv' /\ WorldInv'
<1> DEFINE r == jobs[j].req
           c == r.conv
<1>0. /\ InHandler(j) /\ r.op = "turn" /\ run[c] = "none" /\ c \notin buried
      /\ run' = [run EXCEPT ![c] = "preparing"] /\ owner' = [owner EXCEPT ![c] = j]
      /\ frozen' = [frozen EXCEPT ![c] = IF Absent(c) THEN r.project ELSE project[c]]
      /\ frozen'[c] \in existing \cup {None}
      /\ UNCHANGED <<jobs, stopping, project, existing, buried, cancelled>>
  BY DEF Register, Turn
<1>1. c \in Conversations /\ jobs[j].started /\ j # 0
  BY <1>0, EarlierTasks, HandlerHolds DEF WellFormed, Unscoped
<1>2. \A d \in Conversations : d # c => run'[d] = run[d] /\ owner'[d] = owner[d] /\ frozen'[d] = frozen[d]
  BY <1>0 DEF WorldTyped
<1>3. run'[c] = "preparing" /\ owner'[c] = j /\ owner[c] = 0
  BY <1>0, <1>1 DEF WorldTyped, WorldInv, RunsHaveOwners
<1>4. jobs[j].scope.kind = "resources" => project[c] = frozen'[c]
  <2> SUFFICES ASSUME jobs[j].scope.kind = "resources" PROVE project[c] = frozen'[c]
    OBVIOUS
  <2>1. Fits(r, jobs[j].scope) /\ StillFresh(j)
    BY <1>0 DEF TasksInv, TasksAreOrdered, TaskIsOrdered, ScopesAreFresh, ScopeIsFresh, Past, InHandler
  <2>2. FitsConversation(r, jobs[j].scope)
    BY <1>0, <2>1, FitsShows
  <2>3. jobs[j].scope.policy # "cancel"
    BY <1>0, <2>2 DEF FitsConversation
  <2>4. project[c] # "missing"
    BY <2>1, <2>2, <2>3 DEF StillFresh, Exact, Fresh
  <2> QED BY <1>0, <1>1, <2>4 DEF WorldTyped, Absent
<1>5. ASSUME NEW d \in Conversations PROVE WorldSteps(d)
  <2>1. CASE d = c
    BY <1>0, <1>1, <1>3, <2>1 DEF WorldSteps
  <2>2. CASE d # c
    BY <1>0, <1>2, <2>2 DEF WorldSteps
  <2> QED BY <2>1, <2>2
<1>6. TasksInv'
  BY <1>0, <1>5, TasksRestOrdered DEF WorldInv
<1>7. RunsHaveOwners'
  <2>1. ASSUME NEW d \in Conversations
        PROVE  /\ run'[d] = "none" <=> owner'[d] = 0
               /\ run'[d] # "none" => owner'[d] \in Ids /\ jobs[owner'[d]].req.op = "turn"
                                        /\ jobs[owner'[d]].req.conv = d /\ jobs[owner'[d]].started
               /\ Preparing(d)' => InHandler(owner'[d])
               /\ run'[d] = "active" => Done(owner'[d])
               /\ Preparing(d)' /\ d \in buried => d \in cancelled
               /\ Preparing(d)' => frozen'[d] \in existing \cup {None}
               /\ Preparing(d)' /\ jobs[owner'[d]].scope.kind = "resources" => project[d] = frozen'[d]
    <3>1. CASE d = c
      BY <1>0, <1>1, <1>3, <1>4, <3>1
    <3>2. CASE d # c
      BY <1>2, <3>2 DEF WorldInv, RunsHaveOwners, Preparing
    <3> QED BY <3>1, <3>2
  <2> QED BY <1>0, <2>1 DEF RunsHaveOwners, Ids, InHandler, Done
<1>8. RunsAreNamed'
  <2>1. ASSUME NEW i \in Ids, jobs[i].req.op \in {"cancel_run", "approve"}
        PROVE  LET q == jobs[i].req
               IN  /\ q.run \in 1..(i - 1) /\ jobs[q.run].req.op = "turn" /\ jobs[q.run].req.conv = q.conv
                   /\ jobs[q.run].started
                   /\ InHandler(q.run) => owner'[q.conv] = q.run /\ Preparing(q.conv)'
    <3> DEFINE k == jobs[i].req.run
               d == jobs[i].req.conv
    <3>1. /\ k \in 1..(i - 1) /\ jobs[k].req.op = "turn" /\ jobs[k].req.conv = d
          /\ jobs[k].started /\ (InHandler(k) => owner[d] = k /\ Preparing(d))
      BY <2>1 DEF WorldInv, RunsAreNamed
    <3>2. d \in Conversations
      BY <2>1, EarlierTasks DEF WellFormed, Unscoped
    <3>3. InHandler(k) => d # c
      BY <1>0, <3>1 DEF Preparing
    <3> QED BY <1>0, <1>2, <3>1, <3>2, <3>3 DEF Preparing
  <2> QED BY <1>0, <2>1 DEF RunsAreNamed, Ids, InHandler
<1>9. TreesStayTogether'
  BY <1>0 DEF WorldInv, TreesStayTogether
<1> QED BY <1>6, <1>7, <1>8, <1>9 DEF WorldInv

\* A turn past the point where it can be cancelled keeps the order.
LEMMA MarkCommittingOrdered ==
  ASSUME TasksTyped, WorldTyped, Orderly, TasksInv, WorldInv, NEW j \in Ids, MarkCommitting(j)
  PROVE  TasksInv' /\ WorldInv'
<1> DEFINE c == jobs[j].req.conv
<1>0. /\ run[c] = "preparing" /\ run' = [run EXCEPT ![c] = "committing"]
      /\ UNCHANGED <<jobs, stopping, project, existing, buried, owner, frozen, cancelled>>
  BY DEF MarkCommitting
<1>1. \A d \in Conversations : run'[d] = IF d = c THEN "committing" ELSE run[d]
  BY <1>0 DEF WorldTyped
<1>2. \A d \in Conversations : Preparing(d)' <=> Preparing(d)
  BY <1>0, <1>1 DEF Preparing
<1>3. \A d \in Conversations : WorldSteps(d)
  BY <1>0, <1>1 DEF WorldSteps
<1>4. TasksInv'
  BY <1>0, <1>3, TasksRestOrdered DEF WorldInv
<1>5. RunsHaveOwners'
  <2>1. \A d \in Conversations : /\ run'[d] = "none" <=> run[d] = "none"
                                 /\ run'[d] = "active" <=> run[d] = "active"
    BY <1>0, <1>1
  <2>2. RunsHaveOwners
    BY DEF WorldInv
  <2> QED BY <1>0, <1>2, <2>1, <2>2 DEF RunsHaveOwners, Ids, InHandler, Done
<1>6. RunsAreNamed'
  <2>1. \A i \in Ids : jobs[i].req.op \in {"cancel_run", "approve"} => jobs[i].req.conv \in Conversations
    BY EarlierTasks DEF WellFormed, Unscoped
  <2>2. RunsAreNamed
    BY DEF WorldInv
  <2> QED BY <1>0, <1>2, <2>1, <2>2 DEF RunsAreNamed, Ids, InHandler
<1>7. TreesStayTogether'
  BY <1>0 DEF WorldInv, TreesStayTogether
<1> QED BY <1>4, <1>5, <1>6, <1>7 DEF WorldInv

\* A turn that is admitted keeps the order: the scope it runs under overlaps every
\* published scope that the new conversation could make stale.
LEMMA AdmitOrdered ==
  ASSUME TasksTyped, WorldTyped, Orderly, TasksInv, WorldInv, NEW j \in Ids, Admit(j)
  PROVE  TasksInv' /\ WorldInv'
<1> DEFINE c == jobs[j].req.conv
           t == Answered(jobs[j])
<1>0. /\ InHandler(j) /\ Turn(j) /\ jobs[j].req.op = "turn" /\ run[c] = "committing" /\ c \notin cancelled
      /\ run' = [run EXCEPT ![c] = "active"]
      /\ project' = [project EXCEPT ![c] = IF @ = "missing" THEN frozen[c] ELSE @]
      /\ Complete(j) /\ UNCHANGED <<stopping, existing, buried, owner, frozen, cancelled>>
  BY DEF Admit, Turn
<1>1. c \in Conversations /\ Preparing(c)
  BY <1>0, EarlierTasks DEF WellFormed, Unscoped, Preparing
<1>2. owner[c] = j /\ \A d \in Conversations : d # c => owner[d] # j
  BY <1>0, <1>1, OwnerInHandler
<1>3. /\ t \in Tasks /\ jobs' = [jobs EXCEPT ![j] = t] /\ t.req = jobs[j].req
      /\ jobs[j].started /\ t.started /\ t.pc = "done" /\ jobs'[j].pc = "done"
  BY <1>0, HandlerEnds
<1>4. /\ run'[c] = "active" /\ \A d \in Conversations : d # c => run'[d] = run[d] /\ project'[d] = project[d]
      /\ project'[c] = IF project[c] = "missing" THEN frozen[c] ELSE project[c]
  BY <1>0, <1>1 DEF WorldTyped
<1> HIDE DEF t
<1>5. ASSUME NEW d \in Conversations PROVE WorldSteps(d)
  <2>1. CASE d # c
    BY <1>0, <1>4, <2>1 DEF WorldSteps
  <2>2. CASE d = c
    <3>1. project'[c] = project[c] \/ Moves(j, c)
      BY <1>0, <1>2, <1>3, <1>4 DEF Moves
    <3> QED BY <1>0, <1>4, <2>2, <3>1 DEF WorldSteps
  <2> QED BY <2>1, <2>2
<1>6. TasksInv'
  BY <1>0, <1>5, CompleteOrdered DEF WorldInv, Complete, InHandler
<1>7. RunsHaveOwners' /\ RunsAreNamed'
  <2>1. \A d \in Conversations :
           \/ run'[d] = run[d] /\ owner'[d] = owner[d] /\ frozen'[d] = frozen[d] /\ owner[d] # j
           \/ run'[d] = "active" /\ owner'[d] = j /\ owner[d] = j /\ Preparing(d)
    BY <1>0, <1>1, <1>2, <1>4
  <2>2. \A d \in Conversations : Preparing(d) /\ owner[d] # j =>
           /\ d \in buried' => d \in cancelled'
           /\ frozen[d] \in existing' \cup {None}
           /\ project'[d] = project[d]
    BY <1>0, <1>2, <1>4 DEF WorldInv, RunsHaveOwners
  <2> QED BY <1>3, <2>1, <2>2, RegistriesStep
<1>8. TreesStayTogether'
  <2>1. c \notin buried
    BY <1>0, <1>1 DEF WorldInv, RunsHaveOwners
  <2>2. Bound(c) => project'[c] = project[c]
    BY <1>1, <1>4, <2>1 DEF WorldInv, TreesStayTogether
  <2>3. \A d \in Conversations : Bound(d) => project'[d] = project[d] /\ project'[Root[d]] = project[Root[d]]
    BY <1>4, <2>2, RootIsBound
  <2> QED BY <1>0, <2>3 DEF WorldInv, TreesStayTogether, Bound
<1> QED BY <1>6, <1>7, <1>8 DEF WorldInv

\* A turn that fails or was cancelled keeps the order.
LEMMA AbandonTurnOrdered ==
  ASSUME TasksTyped, WorldTyped, Orderly, TasksInv, WorldInv, NEW j \in Ids, AbandonTurn(j)
  PROVE  TasksInv' /\ WorldInv'
<1> DEFINE c == jobs[j].req.conv
           t == Answered(jobs[j])
           cs == IF Preparing(c) THEN {c} ELSE {}
<1>0. /\ InHandler(j) /\ Turn(j) /\ jobs[j].req.op = "turn"
      /\ Ended(cs) /\ cancelled' = cancelled \ {c}
      /\ Complete(j) /\ UNCHANGED <<stopping, project, existing, buried>>
  BY DEF AbandonTurn, Turn
<1>1. c \in Conversations
  BY <1>0, EarlierTasks DEF WellFormed, Unscoped
<1>2. \A d \in Conversations : owner[d] = j <=> d \in cs
  BY <1>0, <1>1, OwnerInHandler
<1>3. /\ t \in Tasks /\ jobs' = [jobs EXCEPT ![j] = t] /\ t.req = jobs[j].req
      /\ jobs[j].started /\ t.started /\ t.pc = "done" /\ jobs'[j].pc = "done"
  BY <1>0, HandlerEnds
<1>4. \A d \in Conversations : IF d \in cs THEN run'[d] = "none" /\ owner'[d] = 0
                               ELSE run'[d] = run[d] /\ owner'[d] = owner[d] /\ frozen'[d] = frozen[d]
  BY <1>0 DEF Ended
<1>5. Preparing(c) => c \in cs
  OBVIOUS
<1> HIDE DEF t, cs
<1>6. ASSUME NEW d \in Conversations PROVE WorldSteps(d)
  <2>1. CASE d \in cs
    BY <1>0, <1>4, <2>1 DEF WorldSteps
  <2>2. CASE d \notin cs
    <3>1. run'[d] = "preparing" => d # c /\ run[d] = "preparing"
      BY <1>4, <1>5, <2>2 DEF Preparing
    <3> QED BY <1>0, <1>4, <2>2, <3>1 DEF WorldSteps
  <2> QED BY <2>1, <2>2
<1>7. TasksInv'
  BY <1>0, <1>6, CompleteOrdered DEF WorldInv, Complete, InHandler
<1>8. RunsHaveOwners' /\ RunsAreNamed'
  <2>1. \A d \in Conversations :
           \/ run'[d] = run[d] /\ owner'[d] = owner[d] /\ frozen'[d] = frozen[d] /\ owner[d] # j
           \/ run'[d] = "none" /\ owner'[d] = 0 /\ (Preparing(d) => owner[d] = j)
    BY <1>2, <1>4
  <2>2. \A d \in Conversations : Preparing(d) /\ owner[d] # j =>
           /\ d \in buried' => d \in cancelled'
           /\ frozen[d] \in existing' \cup {None}
           /\ project'[d] = project[d]
    <3>1. \A d \in Conversations : Preparing(d) /\ owner[d] # j => d # c
      BY <1>2, <1>5
    <3> QED BY <1>0, <3>1 DEF WorldInv, RunsHaveOwners
  <2> QED BY <1>3, <2>1, <2>2, RegistriesStep
<1>9. TreesStayTogether'
  BY <1>0 DEF WorldInv, TreesStayTogether
<1> QED BY <1>7, <1>8, <1>9 DEF WorldInv

\* No turn prepares a conversation that the handler of a write is about.
LEMMA WritersMeetNoTurn ==
  ASSUME TasksTyped, WorldTyped, Orderly, TasksInv, WorldInv,
         NEW j \in Ids, InHandler(j), NEW c \in Conversations, Preparing(c)
  PROVE  LET r == jobs[j].req
         IN  /\ r.op = "save_meta" => r.conv # c
             /\ r.op = "delete_conversation" => c \notin Tree(r.conv)
             /\ r.op = "delete_project" => project[c] # r.project /\ frozen[c] # r.project
<1> DEFINE r == jobs[j].req
           s == jobs[j].scope
           k == owner[c]
           q == jobs[k].req
           u == jobs[k].scope
<1>1. /\ k \in Ids /\ q.op = "turn" /\ q.conv = c /\ InHandler(k)
      /\ u.kind = "resources" => project[c] = frozen[c]
  BY DEF WorldInv, RunsHaveOwners, Preparing
<1>2. Fits(r, s) /\ Fits(q, u) /\ StillFresh(k) /\ WellFormed(r) /\ WellFormed(q)
  BY <1>1, EarlierTasks
     DEF TasksInv, TasksAreOrdered, TaskIsOrdered, ScopesAreFresh, ScopeIsFresh, Past, InHandler
<1>3. ASSUME r.op \in {"save_meta", "delete_conversation", "delete_project"} PROVE ~Overlaps(s, u)
  <2>1. Lane(j) = "write" /\ Lane(k) = "write" /\ j # k
    BY <1>1, <1>3, LaneOfOp
  <2> QED BY <1>1, <2>1, WritersAreApart DEF TasksInv
<1>4. q.op \notin Unscoped
  BY <1>1 DEF Unscoped
<1>5. r.op = "save_meta" => r.conv # c
  BY <1>1, <1>2, <1>3, <1>4, ConversationsOverlap DEF Unscoped
<1>6. r.op = "delete_conversation" => c \notin Tree(r.conv)
  <2> SUFFICES ASSUME r.op = "delete_conversation", c \in Tree(r.conv) PROVE FALSE
    OBVIOUS
  <2>1. Root[r.conv] = Root[q.conv]
    BY <1>1 DEF Tree
  <2> QED BY <1>2, <1>3, <1>4, <2>1, TreesOverlap
<1>7. r.op = "delete_project" => project[c] # r.project /\ frozen[c] # r.project
  <2> SUFFICES ASSUME r.op = "delete_project" PROVE project[c] # r.project /\ frozen[c] # r.project
    OBVIOUS
  <2>1. r.project \in Projects
    BY <1>2 DEF WellFormed
  <2>2. FitsConversation(q, u) /\ <<"member", r.project>> \notin u.keys
    BY <1>2, <1>3, <1>4, <2>1, ProjectsOverlap
  <2>3. u.policy # "cancel" /\ u.kind = "resources"
    BY <1>1, <2>2 DEF FitsConversation
  <2>4. Member(project[c]) \subseteq u.keys
    BY <1>1, <2>2, <2>3, <1>2 DEF StillFresh, Exact, Fresh
  <2>5. project[c] # r.project
    BY <2>1, <2>2, <2>4, Sizes DEF Member
  <2> QED BY <1>1, <2>3, <2>5
<1> QED BY <1>5, <1>6, <1>7

\* Active runs leave the registries.
LEMMA EndedRuns ==
  ASSUME NEW cs, Ended(ActiveIn(cs))
  PROVE  \A d \in Conversations :
           \/ run'[d] = run[d] /\ owner'[d] = owner[d] /\ frozen'[d] = frozen[d]
           \/ run[d] = "active" /\ run'[d] = "none" /\ owner'[d] = 0
BY DEF Ended, ActiveIn

\* A handler other than a turn's ends.
LEMMA WriteKeeps ==
  ASSUME TasksTyped, WorldTyped, Orderly, TasksInv, WorldInv,
         NEW j \in Ids, InHandler(j), jobs[j].req.op # "turn", Complete(j), stopping' = stopping,
         \A d \in Conversations :
           \/ run'[d] = run[d] /\ owner'[d] = owner[d] /\ frozen'[d] = frozen[d]
           \/ run[d] = "active" /\ run'[d] = "none" /\ owner'[d] = 0,
         cancelled \subseteq cancelled',
         \A d \in Conversations : project'[d] = project[d] \/ (jobs'[j].pc = "done" => Moves(j, d)),
         \A d \in Conversations : Preparing(d) =>
           /\ d \in buried' => d \in buried
           /\ frozen[d] \in existing' \cup {None}
           /\ project'[d] = project[d],
         TreesStayTogether'
  PROVE  TasksInv' /\ WorldInv'
<1> DEFINE t == Answered(jobs[j])
<1>1. /\ t \in Tasks /\ jobs' = [jobs EXCEPT ![j] = t] /\ t.req = jobs[j].req
      /\ jobs[j].started /\ t.started /\ t.pc = "done" /\ jobs'[j].pc = "done"
  BY HandlerEnds
<1> HIDE DEF t
<1>2. \A d \in Conversations : owner[d] # j
  BY OwnerInHandler DEF Turn
<1>3. ASSUME NEW d \in Conversations PROVE WorldSteps(d)
  <2>1. project'[d] = project[d] \/ \E k \in Ids : Moves(k, d)
    BY <1>1
  <2>2. CASE run'[d] = run[d] /\ owner'[d] = owner[d] /\ frozen'[d] = frozen[d]
    BY <2>1, <2>2 DEF WorldSteps
  <2>3. CASE run[d] = "active" /\ run'[d] = "none" /\ owner'[d] = 0
    BY <2>1, <2>3 DEF WorldSteps
  <2> QED BY <2>2, <2>3
<1>4. TasksInv'
  BY <1>3, CompleteOrdered DEF WorldInv, Complete, InHandler
<1>5. RunsHaveOwners' /\ RunsAreNamed'
  <2>1. \A d \in Conversations :
           \/ run'[d] = run[d] /\ owner'[d] = owner[d] /\ frozen'[d] = frozen[d] /\ owner[d] # j
           \/ run'[d] = "none" /\ owner'[d] = 0 /\ (Preparing(d) => owner[d] = j)
           \/ run'[d] = "active" /\ owner'[d] = j /\ owner[d] = j /\ Preparing(d)
    BY <1>2 DEF Preparing
  <2>2. \A d \in Conversations : Preparing(d) /\ owner[d] # j =>
           /\ d \in buried' => d \in cancelled'
           /\ frozen[d] \in existing' \cup {None}
           /\ project'[d] = project[d]
    BY DEF WorldInv, RunsHaveOwners
  <2> QED BY ONLY TasksTyped, WorldTyped, Orderly, WorldInv, j \in Ids, <1>1, <2>1, <2>2,
                  RegistriesStep
<1> QED BY <1>4, <1>5 DEF WorldInv

\* Every other handler keeps the order: what it writes is in its scope.
LEMMA FinishOrdered ==
  ASSUME TasksTyped, WorldTyped, Orderly, TasksInv, WorldInv, NEW j \in Ids, Finish(j)
  PROVE  TasksInv' /\ WorldInv'
<1> DEFINE r == jobs[j].req
<1>0. /\ InHandler(j) /\ r.op # "turn" /\ Effect(r) /\ Complete(j) /\ stopping' = stopping
      /\ WellFormed(r)
  BY EarlierTasks DEF Finish
<1>1. /\ TreesStayTogether
      /\ \A d \in Conversations : Preparing(d) => frozen[d] \in existing \cup {None}
  BY DEF WorldInv, RunsHaveOwners
<1>2. CASE UNCHANGED world
  <2>1. UNCHANGED <<project, existing, buried, run, owner, frozen, cancelled>>
    BY <1>2 DEF world
  <2>2. TreesStayTogether'
    BY <1>1, <2>1 DEF TreesStayTogether
  <2> QED BY <1>0, <1>1, <2>1, <2>2, WriteKeeps
<1>3. CASE r.op = "save_meta" /\ SaveMeta(r)
  <2> DEFINE c == r.conv
  <2>1. /\ ~Bound(c) /\ project' = [project EXCEPT ![c] = r.project]
        /\ UNCHANGED <<existing, buried, run, owner, frozen, cancelled>> /\ c \in Conversations
    BY <1>0, <1>3 DEF SaveMeta, WellFormed, Unscoped
  <2>2. \A d \in Conversations : project'[d] = IF d = c THEN r.project ELSE project[d]
    BY <2>1 DEF WorldTyped
  <2>3. \A d \in Conversations : project'[d] = project[d] \/ (jobs'[j].pc = "done" => Moves(j, d))
    BY <1>0, <1>3, <2>2 DEF Moves
  <2>4. \A d \in Conversations : Preparing(d) => project'[d] = project[d]
    BY <1>0, <1>3, <2>2, WritersMeetNoTurn
  <2>5. \A d \in Conversations : Bound(d) => project'[d] = project[d] /\ project'[Root[d]] = project[Root[d]]
    BY <2>1, <2>2, RootIsBound
  <2>6. TreesStayTogether'
    BY <1>1, <2>1, <2>5 DEF TreesStayTogether, Bound
  <2> QED BY <1>0, <1>1, <2>1, <2>3, <2>4, <2>6, WriteKeeps
<1>4. ASSUME NEW cs \in SUBSET Conversations, Removed(cs), existing' \subseteq existing,
             r.op # "turn",
             \A d \in cs : ~Preparing(d), \A d \in cs : jobs'[j].pc = "done" /\ project'[d] = "missing" => Moves(j, d),
             \A d \in Conversations : Preparing(d) => frozen[d] \in existing' \cup {None},
             \A d \in Conversations : Bound(d) => (d \in cs <=> Root[d] \in cs)
      PROVE  TasksInv' /\ WorldInv'
  <2>1. /\ buried' = buried \cup cs /\ Ended(ActiveIn(cs)) /\ cancelled \subseteq cancelled'
        /\ \A d \in Conversations : project'[d] = IF d \in cs THEN "missing" ELSE project[d]
    BY <1>4 DEF Removed
  <2>2. \A d \in Conversations : \/ run'[d] = run[d] /\ owner'[d] = owner[d] /\ frozen'[d] = frozen[d]
                                 \/ run[d] = "active" /\ run'[d] = "none" /\ owner'[d] = 0
    BY <2>1, EndedRuns
  <2>3. \A d \in Conversations : project'[d] = project[d] \/ (jobs'[j].pc = "done" => Moves(j, d))
    BY <1>4, <2>1
  <2>4. \A d \in Conversations : Preparing(d) =>
           /\ d \in buried' => d \in buried
           /\ frozen[d] \in existing' \cup {None}
           /\ project'[d] = project[d]
    BY <1>4, <2>1
  <2>5. TreesStayTogether'
    <3>1. ASSUME NEW d \in Conversations, Bound(d)
          PROVE  /\ project'[d] = project'[Root[d]]
                 /\ project'[d] = "missing" => d \in buried'
      <4>1. Root[d] \in Conversations
        BY <3>1, RootIsBound
      <4>2. /\ project[d] = project[Root[d]] /\ (project[d] = "missing" => d \in buried)
        BY <1>1, <3>1 DEF TreesStayTogether
      <4> QED BY <1>4, <2>1, <3>1, <4>1, <4>2
    <3> QED BY <3>1 DEF TreesStayTogether, Bound
  <2> QED BY <1>0, <2>1, <2>2, <2>3, <2>4, <2>5, WriteKeeps
<1>5. CASE r.op = "delete_conversation" /\ DeleteConversation(r)
  <2> DEFINE cs == Tree(r.conv)
  <2>1. /\ cs \in SUBSET Conversations /\ Removed(cs) /\ existing' = existing
        /\ r.conv \in Conversations
    BY <1>0, <1>5 DEF DeleteConversation, Tree, WellFormed, Unscoped
  <2>2. \A d \in cs : ~Preparing(d)
    BY <1>0, <1>5, <2>1, WritersMeetNoTurn
  <2>3. \A d \in cs : jobs'[j].pc = "done" /\ project'[d] = "missing" => Moves(j, d)
    BY <1>0, <1>5 DEF Moves, Tree
  <2>4. \A d \in Conversations : Bound(d) => (d \in cs <=> Root[d] \in cs)
    BY Sizes DEF Tree
  <2> QED BY <1>0, <1>1, <1>4, <2>1, <2>2, <2>3, <2>4
<1>6. CASE r.op = "delete_project" /\ DeleteProject(r)
  <2> DEFINE cs == {d \in Conversations : project[d] = r.project}
  <2>1. cs \in SUBSET Conversations /\ Removed(cs) /\ existing' = existing \ {r.project}
    BY <1>6 DEF DeleteProject
  <2>2. \A d \in Conversations : Preparing(d) => project[d] # r.project /\ frozen[d] # r.project
    BY <1>0, <1>6, WritersMeetNoTurn
  <2>3. \A d \in cs : jobs'[j].pc = "done" /\ project'[d] = "missing" => Moves(j, d)
    BY <1>0, <1>6 DEF Moves
  <2>4. \A d \in Conversations : Bound(d) => (d \in cs <=> Root[d] \in cs)
    BY <1>1, RootIsBound DEF TreesStayTogether
  <2>5. \A d \in Conversations : Preparing(d) => frozen[d] \in existing' \cup {None}
    BY <1>1, <2>1, <2>2
  <2>6. \A d \in cs : ~Preparing(d)
    BY <2>2
  <2> HIDE DEF cs
  <2> QED BY <1>0, <1>4, <2>1, <2>3, <2>4, <2>5, <2>6
<1>7. CASE r.op = "cancel_run" /\ CancelRun(r)
  <2>1. PICK cs : Ended(ActiveIn(cs)) /\ cancelled \subseteq cancelled'
    BY <1>7 DEF CancelRun
  <2>2. UNCHANGED <<project, existing, buried>>
    BY <1>7 DEF CancelRun
  <2>3. TreesStayTogether'
    BY <1>1, <2>2 DEF TreesStayTogether
  <2>4. \A d \in Conversations : \/ run'[d] = run[d] /\ owner'[d] = owner[d] /\ frozen'[d] = frozen[d]
                                 \/ run[d] = "active" /\ run'[d] = "none" /\ owner'[d] = 0
    BY <2>1, EndedRuns
  <2> QED BY <1>0, <1>1, <2>1, <2>2, <2>3, <2>4, WriteKeeps
<1> QED BY <1>0, <1>2, <1>3, <1>5, <1>6, <1>7 DEF Effect

\* An active run ends by itself; its turn is answered.
LEMMA RunEndsOrdered ==
  ASSUME TasksTyped, WorldTyped, Orderly, TasksInv, WorldInv, NEW c \in Conversations, RunEnds(c)
  PROVE  TasksInv' /\ WorldInv'
<1>0. /\ run[c] = "active" /\ UNCHANGED <<jobs, stopping, project, existing, buried, cancelled>>
      /\ \A d \in Conversations :
           IF d = c THEN run'[d] = "none" /\ owner'[d] = 0
           ELSE run'[d] = run[d] /\ owner'[d] = owner[d] /\ frozen'[d] = frozen[d]
  BY DEF RunEnds, Ended
<1>1. \A d \in Conversations : WorldSteps(d)
  BY <1>0 DEF WorldSteps
<1>2. TasksInv'
  BY <1>0, <1>1, TasksRestOrdered DEF WorldInv
<1>3. RunsHaveOwners'
  <2>1. ASSUME NEW d \in Conversations
        PROVE  /\ run'[d] = "none" <=> owner'[d] = 0
               /\ run'[d] # "none" => owner'[d] \in Ids /\ jobs[owner'[d]].req.op = "turn"
                                        /\ jobs[owner'[d]].req.conv = d /\ jobs[owner'[d]].started
               /\ Preparing(d)' => InHandler(owner'[d])
               /\ run'[d] = "active" => Done(owner'[d])
               /\ Preparing(d)' /\ d \in buried => d \in cancelled
               /\ Preparing(d)' => frozen'[d] \in existing \cup {None}
               /\ Preparing(d)' /\ jobs[owner'[d]].scope.kind = "resources" => project[d] = frozen'[d]
    <3>1. CASE d = c
      BY <1>0, <3>1 DEF Preparing
    <3>2. CASE d # c
      BY <1>0, <3>2 DEF WorldInv, RunsHaveOwners, Preparing
    <3> QED BY <3>1, <3>2
  <2> QED BY <1>0, <2>1 DEF RunsHaveOwners, Ids, InHandler, Done
<1>4. RunsAreNamed'
  <2>1. ASSUME NEW i \in Ids, jobs[i].req.op \in {"cancel_run", "approve"}
        PROVE  LET q == jobs[i].req
               IN  /\ q.run \in 1..(i - 1) /\ jobs[q.run].req.op = "turn" /\ jobs[q.run].req.conv = q.conv
                   /\ jobs[q.run].started
                   /\ InHandler(q.run) => owner'[q.conv] = q.run /\ Preparing(q.conv)'
    <3> DEFINE k == jobs[i].req.run
               d == jobs[i].req.conv
    <3>1. /\ k \in 1..(i - 1) /\ jobs[k].req.op = "turn" /\ jobs[k].req.conv = d
          /\ jobs[k].started /\ (InHandler(k) => owner[d] = k /\ Preparing(d))
      BY <2>1 DEF WorldInv, RunsAreNamed
    <3>2. d \in Conversations
      BY <2>1, EarlierTasks DEF WellFormed, Unscoped
    <3>3. InHandler(k) => d # c
      BY <1>0, <3>1 DEF Preparing
    <3> QED BY <1>0, <3>1, <3>2, <3>3 DEF Preparing
  <2> QED BY <1>0, <2>1 DEF RunsAreNamed, Ids, InHandler
<1>5. TreesStayTogether'
  BY <1>0 DEF WorldInv, TreesStayTogether
<1> QED BY <1>2, <1>3, <1>4, <1>5 DEF WorldInv

\* Steps that change neither the tasks nor what the lookups read.
LEMMA NothingOrdered ==
  ASSUME TasksTyped, WorldTyped, Orderly, TasksInv, WorldInv,
         UNCHANGED <<jobs, world>>, stopping => stopping'
  PROVE  TasksInv' /\ WorldInv'
<1>1. \A c \in Conversations : WorldSteps(c)
  BY WorldRests
<1>2. TasksInv'
  BY <1>1, TasksRestOrdered DEF WorldInv
<1>3. UNCHANGED <<jobs, project, existing, buried, run, owner, frozen, cancelled>>
  BY DEF world
<1>4. RunsHaveOwners'
  BY <1>3 DEF WorldInv, RunsHaveOwners, Ids, Preparing, InHandler, Done
<1>5. RunsAreNamed'
  BY <1>3 DEF WorldInv, RunsAreNamed, Ids, Preparing, InHandler
<1>6. TreesStayTogether'
  BY <1>3 DEF WorldInv, TreesStayTogether
<1> QED BY <1>2, <1>4, <1>5, <1>6 DEF WorldInv

(***************************************************************************)
(* Theorems                                                                *)
(***************************************************************************)

\* Nothing has been asked yet.
LEMMA OrderInitially == Init => OInv
<1> SUFFICES ASSUME Init PROVE OInv
  OBVIOUS
<1>1. Ids = {}
  BY DEF Init, Ids
<1>2. TasksInv /\ RunsAreNamed
  BY <1>1 DEF TasksInv, TasksAreOrdered, PassesHold, ScopesAreFresh, ControlsPass, RunsAreNamed
<1>3. RunsHaveOwners
  BY DEF Init, RunsHaveOwners, Preparing
<1>4. TreesStayTogether
  BY Sizes DEF Init, TreesStayTogether
<1> QED BY <1>2, <1>3, <1>4 DEF OInv, WorldInv

\* Every step keeps the order.
LEMMA OrderStays ==
  ASSUME RInv, OInv, [Next]_vars
  PROVE  OInv'
<1>0. TasksTyped /\ WorldTyped /\ Orderly /\ TasksInv /\ WorldInv
  BY TypeOKParts DEF RInv, OInv
<1>1. ASSUME NEW r \in Menu, Submit(r) PROVE OInv'
  BY <1>0, <1>1, SubmitOrdered DEF OInv
<1>2. ASSUME NEW j \in Ids, Resolve(j) \/ ResolveFails(j) PROVE OInv'
  BY <1>0, <1>2, ResolveOrdered DEF OInv
<1>3. ASSUME NEW j \in Ids, Observe(j) \/ RefreshFails(j) PROVE OInv'
  BY <1>0, <1>3, ObserveOrdered DEF OInv
<1>4. ASSUME NEW j \in Ids, Order(j) PROVE OInv'
  BY <1>0, <1>4, OrderOrdered DEF OInv
<1>5. ASSUME NEW j \in Ids, Start(j) PROVE OInv'
  BY <1>0, <1>5, StartOrdered DEF OInv
<1>6. ASSUME NEW j \in Ids, Register(j) PROVE OInv'
  BY <1>0, <1>6, RegisterOrdered DEF OInv
<1>7. ASSUME NEW j \in Ids, MarkCommitting(j) PROVE OInv'
  BY <1>0, <1>7, MarkCommittingOrdered DEF OInv
<1>8. ASSUME NEW j \in Ids, Admit(j) PROVE OInv'
  BY <1>0, <1>8, AdmitOrdered DEF OInv
<1>9. ASSUME NEW j \in Ids, AbandonTurn(j) PROVE OInv'
  BY <1>0, <1>9, AbandonTurnOrdered DEF OInv
<1>10. ASSUME NEW j \in Ids, Finish(j) PROVE OInv'
  BY <1>0, <1>10, FinishOrdered DEF OInv
<1>11. ASSUME NEW c \in Conversations, RunEnds(c) PROVE OInv'
  BY <1>0, <1>11, RunEndsOrdered DEF OInv
<1>12. CASE BeginShutdown \/ Shutdown \/ UNCHANGED vars
  <2>1. UNCHANGED <<jobs, world>> /\ (stopping => stopping')
    BY <1>12 DEF BeginShutdown, Shutdown, vars
  <2> QED BY <1>0, <2>1, NothingOrdered DEF OInv
<1> QED
  BY <1>1, <1>2, <1>3, <1>4, <1>5, <1>6, <1>7, <1>8, <1>9, <1>10, <1>11, <1>12 DEF Next

\* In every reachable state the scopes of the tasks are fresh as far as their
\* keys show, whatever a task has passed over may be passed over for good, and
\* the registries of runs name turns that really prepare.
THEOREM OrderInvariance == Spec => []OInv
<1>1. Init => OInv
  BY OrderInitially
<1>2. RInv /\ OInv /\ [Next]_vars => OInv'
  BY OrderStays
<1> QED BY <1>1, <1>2, RpcInvariance, PTL DEF Spec

\* The conversations of a tree are in the same project.
LEMMA OneProject ==
  ASSUME TreesStayTogether, NEW c \in Conversations, NEW d \in Conversations, Root[c] = Root[d]
  PROVE  project[c] = project[d]
<1>1. Tree(c) = Tree(d)
  BY DEF Tree
<1>2. CASE Bound(c)
  <2>1. Bound(d)
    BY <1>1, <1>2 DEF Bound
  <2> QED BY <1>2, <2>1 DEF TreesStayTogether
<1>3. CASE ~Bound(c)
  <2>1. ~Bound(d)
    BY <1>1, <1>3 DEF Bound
  <2> QED BY <1>3, <2>1, UnboundIsRoot
<1> QED BY <1>2, <1>3

\* What a request about one conversation is about.
LEMMA AboutOne ==
  ASSUME NEW r, WellFormed(r), r.op \notin Unscoped, NEW c \in ConversationsOf(r)
  PROVE  /\ c \in Conversations /\ r.conv \in Conversations /\ Root[c] = Root[r.conv]
         /\ r.op = "cancel_run" => owner[r.conv] = r.run
         /\ r.op \notin {"cancel_run", "delete_conversation"} => c = r.conv
BY DEF ConversationsOf, WellFormed, Tree, Unscoped

\* A deletion of a project overlaps the requests about the project now.
LEMMA ProjectClashOverlaps ==
  ASSUME WorldInv, NEW a \in Ids, NEW b \in Ids,
         WellFormed(jobs[a].req), WellFormed(jobs[b].req),
         Fits(jobs[a].req, jobs[a].scope), Fits(jobs[b].req, jobs[b].scope), StillFresh(b),
         jobs[a].req.op = "delete_project", jobs[a].req.project \in ProjectsOf(jobs[b].req)
  PROVE  Overlaps(jobs[a].scope, jobs[b].scope)
<1> DEFINE r == jobs[a].req
           s == jobs[a].scope
           q == jobs[b].req
           t == jobs[b].scope
           p == r.project
<1>0. p \in Projects /\ p # "missing" /\ p # None
  BY Sizes DEF WellFormed
<1>1. CASE q.op = "delete_project"
  <2>1. \E c \in Conversations : project[c] = q.project /\ project[c] = p
    BY <1>1 DEF ProjectsOf, ConversationsOf
  <2>2. s.kind = "global" \/ (s.kind = "resources" /\ s.keys = {<<"marker", p>>})
    BY FitsShows DEF FitsConversation, Unscoped
  <2>3. t.kind = "global" \/ (t.kind = "resources" /\ t.keys = {<<"marker", p>>})
    <3>1. t.kind = "global" \/ (t.kind = "resources" /\ t.keys = {<<"marker", q.project>>})
      BY <1>1, FitsShows DEF FitsConversation, Unscoped
    <3> QED BY <2>1, <3>1
  <2>4. CASE s.kind = "resources" /\ t.kind = "resources"
    <3> DEFINE k == <<"marker", p>>
    <3>1. k \in s.keys /\ k \in t.keys /\ k[1] # "member"
      BY <2>2, <2>3, <2>4
    <3>2. KeysMeet(s, t)
      BY <3>1 DEF KeysMeet
    <3> QED BY <2>4, <3>2 DEF Overlaps
  <2> QED BY <2>2, <2>3, <2>4 DEF Overlaps
<1>2. CASE q.op \notin Unscoped
  <2>1. ASSUME FitsConversation(q, t) PROVE <<"member", p>> \in t.keys
    <3>1. CASE q.op = "save_meta" /\ p = q.project
      BY <1>0, <2>1, <3>1 DEF FitsConversation, Member
    <3>2. CASE \E c \in ConversationsOf(q) : project[c] = p
      <4>1. PICK c \in ConversationsOf(q) : project[c] = p
        BY <3>2
      <4>2. /\ c \in Conversations /\ q.conv \in Conversations /\ Root[c] = Root[q.conv]
            /\ q.op = "cancel_run" => owner[q.conv] = q.run
        BY <1>2, AboutOne
      <4>3. project[q.conv] = p
        BY <4>1, <4>2, OneProject DEF WorldInv
      <4>4. t.policy = "cancel" => q.op = "cancel_run"
        BY <2>1 DEF FitsConversation
      <4>5. Member(project[q.conv]) \subseteq t.keys
        BY <1>0, <2>1, <4>2, <4>3, <4>4 DEF StillFresh, Exact, Fresh
      <4> QED BY <1>0, <4>3, <4>5 DEF Member
    <3> QED BY <3>1, <3>2 DEF ProjectsOf
  <2> QED BY <1>0, <1>2, <2>1, ProjectsOverlap
<1>3. CASE q.op \in Unscoped \ {"delete_project"}
  BY <1>3 DEF ProjectsOf, ConversationsOf, Unscoped
<1> QED BY <1>1, <1>2, <1>3

\* Requests that clash now have scopes that overlap, whenever they looked.
LEMMA ClashOverlaps ==
  ASSUME WorldInv, NEW a \in Ids, NEW b \in Ids,
         WellFormed(jobs[a].req), WellFormed(jobs[b].req),
         Fits(jobs[a].req, jobs[a].scope), Fits(jobs[b].req, jobs[b].scope),
         StillFresh(a), StillFresh(b), Clash(jobs[a].req, jobs[b].req)
  PROVE  Overlaps(jobs[a].scope, jobs[b].scope)
<1> DEFINE r == jobs[a].req
           s == jobs[a].scope
           q == jobs[b].req
           t == jobs[b].scope
<1>1. CASE "configure" \in {r.op, q.op}
  <2>1. s.kind = "global" \/ t.kind = "global"
    BY <1>1, FitsShows
  <2> QED BY <2>1 DEF Overlaps
<1>2. CASE r.op = "delete_project" /\ r.project \in ProjectsOf(q)
  BY <1>2, ProjectClashOverlaps
<1>3. CASE q.op = "delete_project" /\ q.project \in ProjectsOf(r)
  <2>1. Overlaps(t, s)
    BY <1>3, ProjectClashOverlaps
  <2> QED BY <2>1, OverlapsBoth
<1>4. CASE ConversationsOf(r) \cap ConversationsOf(q) # {}
  <2>1. PICK c : c \in ConversationsOf(r) /\ c \in ConversationsOf(q)
    BY <1>4
  <2>2. CASE r.op = "delete_project"
    <3>1. project[c] = r.project
      BY <2>1, <2>2 DEF ConversationsOf
    <3>2. r.project \in ProjectsOf(q)
      BY <2>1, <3>1 DEF ProjectsOf
    <3> QED BY <1>2, <2>2, <3>2
  <2>3. CASE q.op = "delete_project"
    <3>1. project[c] = q.project
      BY <2>1, <2>3 DEF ConversationsOf
    <3>2. q.project \in ProjectsOf(r)
      BY <2>1, <3>1 DEF ProjectsOf
    <3> QED BY <1>3, <2>3, <3>2
  <2>4. CASE r.op # "delete_project" /\ q.op # "delete_project"
    <3>1. r.op \notin Unscoped /\ q.op \notin Unscoped
      BY <2>1, <2>4 DEF ConversationsOf, Unscoped
    <3>2. /\ Root[c] = Root[r.conv] /\ Root[c] = Root[q.conv]
          /\ r.op \notin {"cancel_run", "delete_conversation"} => c = r.conv
          /\ q.op \notin {"cancel_run", "delete_conversation"} => c = q.conv
      BY <2>1, <3>1, AboutOne
    <3>3. CASE r.op \in {"cancel_run", "delete_conversation"}
      BY <3>1, <3>2, <3>3, TreesOverlap
    <3>4. CASE q.op \in {"cancel_run", "delete_conversation"}
      <4>1. Overlaps(t, s)
        BY <3>1, <3>2, <3>4, TreesOverlap
      <4> QED BY <4>1, OverlapsBoth
    <3>5. CASE r.op \notin {"cancel_run", "delete_conversation"} /\ q.op \notin {"cancel_run", "delete_conversation"}
      BY <3>1, <3>2, <3>5, ConversationsOverlap
    <3> QED BY <3>3, <3>4, <3>5
  <2> QED BY <2>2, <2>3, <2>4
<1> QED BY <1>1, <1>2, <1>3, <1>4 DEF Clash

\* InOrder: no handler runs before or beside an earlier request it clashes
\* with, judged by what both are about now.
THEOREM RequestsRunInOrder == Spec => []InOrder
<1>1. RInv /\ OInv => InOrder
  <2> SUFFICES ASSUME RInv, OInv, NEW j \in Ids, InHandler(j), NEW i \in 1..(j - 1),
                      ~Done(i), ~MayOvertake(j, i), Clash(jobs[i].req, jobs[j].req)
               PROVE  FALSE
    BY DEF InOrder
  <2> DEFINE s == jobs[j].scope
             u == jobs[i].scope
  <2>0. TasksTyped /\ WorldTyped /\ Orderly /\ TasksInv /\ WorldInv
    BY TypeOKParts DEF RInv, OInv
  <2>1. i \in Ids /\ WellFormed(jobs[i].req) /\ WellFormed(jobs[j].req)
    BY <2>0, EarlierTasks
  <2>2. TaskIsOrdered(i) /\ TaskIsOrdered(j) /\ PassHolds(j) /\ ScopeIsFresh(i) /\ ScopeIsFresh(j)
    BY <2>0, <2>1 DEF TasksInv, TasksAreOrdered, PassesHold, ScopesAreFresh
  <2>3. i \in jobs[j].preds
    BY <2>2 DEF TaskIsOrdered, InHandler, Done
  <2>4. Decided(j, i) /\ ~Conflicts(j, i)
    BY <2>2, <2>3 DEF PassHolds, Cleared, InHandler
  <2>5. Fits(jobs[j].req, s) /\ Fits(jobs[i].req, u)
    BY <2>2 DEF TaskIsOrdered
  <2>6. ~(Lane(j) = "read" /\ Lane(i) = "read")
    BY DEF MayOvertake
  <2>7. ~PassesPreparation(j, i)
    <3>1. s.kind = "access" => jobs[j].req.op = "set_access"
      BY <2>5, FitsShows
    <3>2. jobs[i].kind = "turn" => jobs[i].req.op = "turn"
      BY <2>2 DEF TaskIsOrdered
    <3> QED BY <3>1, <3>2 DEF MayOvertake, PassesPreparation
  <2>8. u.kind # "overview"
    <3>1. u.kind = "overview" => jobs[i].req.op = "overview"
      BY <2>5, FitsShows
    <3> QED BY <3>1 DEF MayOvertake
  <2>9. ~PermitsPreparingCancel(j, i)
    <3> SUFFICES ASSUME PermitsPreparingCancel(j, i) PROVE FALSE
      OBVIOUS
    <3>1. s.policy = "cancel" /\ IsTurnPreparation(u) /\ u.conv = s.conv /\ jobs[i].started
      BY DEF PermitsPreparingCancel
    <3>2. FitsConversation(jobs[j].req, s)
      BY <2>5, <3>1, FitsShows
    <3>3. jobs[j].req.op = "cancel_run" /\ s.conv = jobs[j].req.conv
      BY <3>1, <3>2 DEF FitsConversation
    <3>4. jobs[i].req.op = "turn" /\ u.conv = jobs[i].req.conv
      <4>1. CASE u.kind = "global_turn"
        BY <2>5, <4>1, FitsShows
      <4>2. CASE u.policy = "turn"
        <5>1. FitsConversation(jobs[i].req, u)
          BY <2>5, <4>2, FitsShows
        <5> QED BY <4>2, <5>1 DEF FitsConversation
      <4> QED BY <3>1, <4>1, <4>2 DEF IsTurnPreparation
    <3> QED BY <3>1, <3>3, <3>4 DEF MayOvertake
  <2>10. jobs[i].published /\ ~Overlaps(s, u)
    BY <2>4, <2>6, <2>7, <2>8, <2>9 DEF Decided, Conflicts
  <2>11. StillFresh(i) /\ StillFresh(j)
    BY <2>2, <2>10 DEF TaskIsOrdered, ScopeIsFresh, Past, InHandler
  <2>12. Overlaps(u, s)
    BY <2>0, <2>1, <2>5, <2>11, ClashOverlaps
  <2> QED BY <2>10, <2>12, OverlapsBoth
<1> QED BY <1>1, RpcInvariance, OrderInvariance, PTL

\* A control request all of whose unfinished predecessors it may pass goes on
\* to its worker.
LEMMA ControlGoesOn ==
  ASSUME RInv, NEW j \in Ids, ~Done(j), Reached(j),
         \A i \in jobs[j].preds : jobs[i].published \/ Decided(j, i),
         jobs[j].pc = "observing" => \A i \in jobs[j].preds : jobs[i].published
  PROVE  /\ jobs[j].pc = "observing" => CanObserve(j)
         /\ jobs[j].pc = "ordering" => CanOrder(j)
<1>1. TasksWaitBackwards
  BY DEF RInv, Orderly
<1>2. jobs[j].todo \subseteq jobs[j].preds /\ jobs[j].todo \subseteq 1..(j - 1)
  BY <1>1 DEF TasksWaitBackwards
<1>3. ASSUME NEW S, S \subseteq jobs[j].todo, S # {} PROVE Min(S) \in jobs[j].preds
  <2>1. S \in SUBSET Nat
    BY <1>2, <1>3
  <2> QED BY <2>1, <1>2, <1>3, LeastNumber
<1>4. jobs[j].pc = "observing" /\ ObserveStops(j) # {} => jobs[Min(ObserveStops(j))].published
  BY <1>3 DEF ObserveStops
<1>5. \A i \in jobs[j].preds : Decided(j, i)
  BY DEF Decided
<1>6. OrderStops(j) # {} => Decided(j, Min(OrderStops(j)))
  BY <1>3, <1>5 DEF OrderStops
<1> QED BY <1>4, <1>6 DEF CanObserve, CanOrder

\* ControlReachesPreparation: grants and cancellations are not trapped behind
\* turns that go on preparing.
THEOREM ControlIsNotTrapped == Spec => []ControlReachesPreparation
<1>1. RInv /\ OInv => ControlReachesPreparation
  <2> SUFFICES ASSUME RInv, OInv, Quiet, ~stopping, \A i \in Ids : ~jobs[i].failed,
                      NEW j \in Ids, jobs[j].req.op \in {"set_access", "cancel_run"},
                      \A i \in jobs[j].preds : Overtaken(j, i), ~Done(j)
               PROVE  FALSE
    BY DEF ControlReachesPreparation
  <2> DEFINE r == jobs[j].req
             c == r.conv
  <2>0. TasksTyped /\ WorldTyped /\ Orderly /\ TasksInv /\ WorldInv
    BY TypeOKParts DEF RInv, OInv
  <2>1. /\ jobs[j] \in Tasks /\ jobs[j].preds \subseteq Ids /\ 1..(j - 1) \subseteq Ids
        /\ jobs[j].on # 0 => jobs[j].on \in jobs[j].preds
        /\ \A i \in jobs[j].preds : Done(i) => jobs[i].published
    BY <2>0, EarlierTasks DEF Orderly, TasksWaitBackwards
  <2>2. \A i \in Ids : /\ TaskIsOrdered(i) /\ ControlPasses(i)
                       /\ jobs[i].pc # "queued" /\ ~CanObserve(i) /\ ~CanOrder(i) /\ ~CanStart(i)
                       /\ InHandler(i) => Lingers(i)
    BY <2>0 DEF TasksInv, TasksAreOrdered, ControlsPass, Quiet
  <2>3. Lane(j) = "control"
    BY LaneOfOp
  <2>4. ASSUME NEW h \in Ids, Lane(h) = "control" PROVE ~InHandler(h)
    BY <2>2, <2>4, LaneOfOp DEF Lingers, Turn
  <2>5. jobs[j].pc # "ready"
    <3> SUFFICES ASSUME jobs[j].pc = "ready" PROVE FALSE
      OBVIOUS
    <3>1. j \notin fair[Lane(j)].holders
      BY <2>2 DEF CanStart
    <3>2. PICK h \in Ids : Lane(h) = Lane(j) /\ h \in fair[Lane(h)].holders /\ jobs[h].pc \in {"ready", "running"}
      BY <3>1, SomebodyHasTheWorker
    <3> QED BY <2>2, <2>3, <2>4, <3>2 DEF CanStart, InHandler
  <2>6. jobs[j].pc \in {"observing", "ordering"}
    <3>1. jobs[j].pc \in {"queued", "observing", "ordering", "ready", "running", "done"}
      BY <2>1 DEF Tasks
    <3> QED BY <2>2, <2>3, <2>4, <2>5, <3>1 DEF InHandler, Done
  <2>7. \A i \in Ids : ~Done(i) => jobs[i].kind # "unknown"
    BY <2>2 DEF TaskIsOrdered
  <2>8. CASE r.op = "set_access"
    <3>1. /\ jobs[j].scope = ExecutionAccess
          /\ jobs[j].on # 0 => jobs[jobs[j].on].kind = "other"
      BY <2>2, <2>7, <2>8 DEF ControlPasses
    <3>2. jobs[j].scope.kind = "access"
      BY <3>1 DEF ExecutionAccess, Scope
    <3>3. ASSUME NEW i \in jobs[j].preds, ~Done(i) PROVE jobs[i].kind = "turn"
      <4>1. i \in Ids /\ jobs[i].req.op = "turn"
        BY <2>1, <3>3 DEF Overtaken
      <4> QED BY <2>2, <2>7, <3>3, <4>1 DEF ControlPasses
    <3>4. Reached(j)
      BY <2>1, <3>1, <3>3 DEF Reached
    <3>5. \A i \in jobs[j].preds : jobs[i].published \/ Decided(j, i)
      BY <2>1, <3>2, <3>3 DEF Decided, PassesPreparation
    <3>6. jobs[j].pc # "observing"
      BY <2>2, <3>2 DEF TaskIsOrdered
    <3> QED BY <2>2, <2>6, <3>4, <3>5, <3>6, ControlGoesOn
  <2>9. CASE r.op = "cancel_run"
    <3>1. ASSUME NEW i \in jobs[j].preds, ~Done(i)
          PROVE  jobs[i].published /\ i # jobs[j].on
      <4>1. i \in Ids /\ jobs[i].req.op = "turn" /\ jobs[i].started /\ owner[c] = i /\ r.run = i
        BY <2>1, <2>9, <3>1 DEF Overtaken
      <4>2. InHandler(i)
        BY <2>2, <3>1, <4>1 DEF TaskIsOrdered
      <4>3. jobs[i].published
        BY <2>0, <4>1, <4>2 DEF Orderly, TasksWaitBackwards, InHandler
      <4>4. jobs[i].req.conv = c
        BY <2>0, <2>9, <4>1 DEF WorldInv, RunsAreNamed
      <4>5. run[c] = "preparing" /\ c \notin cancelled
        BY <2>2, <4>1, <4>2, <4>4 DEF Lingers
      <4>6. jobs[j].on # r.run
        BY <2>2, <2>7, <2>9, <4>1, <4>5 DEF ControlPasses
      <4> QED BY <4>1, <4>3, <4>6
    <3>2. \A i \in jobs[j].preds : jobs[i].published
      BY <2>1, <3>1
    <3>3. Reached(j)
      BY <2>1, <3>1 DEF Reached
    <3> QED BY <2>2, <2>6, <3>2, <3>3, ControlGoesOn
  <2> QED BY <2>8, <2>9
<1> QED BY <1>1, RpcInvariance, OrderInvariance, PTL
====
