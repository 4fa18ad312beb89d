----------------------- MODULE KeyedAdmission_proofs -----------------------
(***************************************************************************)
(* The safety of the admission coordinator for any number of threads and   *)
(* conversations.  MutualExclusion is inductive together with the agreement*)
(* of registry and guards; that no wakeup is lost needs in addition what a *)
(* sleeper knew when it went to sleep (StillBlocked).                      *)
(***************************************************************************)
EXTENDS KeyedAdmission, TLAPS

\* A thread that waits or holds has asked for something.
Scoped ==
  \A t \in Threads : pc[t] \in {"woken", "asleep", "holding"} => scope[t] \in Scopes

\* Only waiters are ahead of a thread.
AheadQueued ==
  \A t \in Threads : \A u \in ahead[t] : u \in Queued

\* The registry, key by key.
KeysHeld ==
  \A k : k \in activeKeys <=> \E t \in Holders : k \in scope[t].keys

RegistryPointwise ==
  /\ owners = Holders
  /\ global <=> \E t \in Holders : scope[t].all
  /\ KeysHeld

\* Unless somebody is about to notify, a sleeper's condition is still false.
StillBlocked ==
  (\A t \in Threads : pc[t] # "notifying") =>
    \A t \in Threads : pc[t] = "asleep" => ~Ready(scope[t], ahead[t])

IInv ==
  /\ TypeOK
  /\ Scoped
  /\ AheadQueued
  /\ MutualExclusion
  /\ RegistryPointwise
  /\ StillBlocked

-----------------------------------------------------------------------------
\* A scope is a record of a flag and a set of keys; no thread asks for nothing.
LEMMA ScopeShape ==
  \A s \in Scopes :
    /\ s.all \in BOOLEAN
    /\ s.keys \in SUBSET Keys
    /\ s.all => s = Global
    /\ ~s.all => s.keys # {}
<1>1. ASSUME NEW s \in Conversations
      PROVE  s.all = FALSE /\ s.keys \in SUBSET Keys /\ s.keys # {}
  BY DEF Conversations
<1>2. Global.all = TRUE /\ Global.keys = {}
  BY DEF Global
<1> QED
  BY <1>1, <1>2 DEF Scopes

\* Once a guard with scope r exists, a waiter that conflicts with r is not ready.
LEMMA GuardBlocks ==
  ASSUME NEW s \in Scopes, NEW r \in Scopes, Conflicts(s, r),
         NEW g \in BOOLEAN, NEW keys,
         r.all => g, r.keys \subseteq keys
  PROVE  \/ g
         \/ IF s.all THEN keys # {} ELSE s.keys \cap keys # {}
<1>1. CASE r.all
  BY <1>1
<1>2. CASE ~r.all /\ s.all
  <2>1. r.keys # {}
    BY <1>2, ScopeShape
  <2> QED
    BY <1>2, <2>1
<1>3. CASE ~r.all /\ ~s.all
  BY <1>3 DEF Conflicts
<1> QED
  BY <1>1, <1>2, <1>3

\* The pointwise registry is the registry of the property.
LEMMA RegistryAgrees == RegistryPointwise => RegistryMatchesGuards
<1> SUFFICES ASSUME RegistryPointwise
             PROVE  activeKeys = UNION {scope[t].keys : t \in Holders}
  BY DEF RegistryPointwise, RegistryMatchesGuards
<1>1. \A k : k \in UNION {scope[t].keys : t \in Holders}
               <=> \E t \in Holders : k \in scope[t].keys
  OBVIOUS
<1> QED
  BY <1>1 DEF RegistryPointwise, KeysHeld

\* A sleeper that is not ready waits for a conflicting holder or earlier waiter.
LEMMA BlockedByConflict == IInv => SleepersAreBlocked
<1> SUFFICES ASSUME IInv,
                    \A t \in Threads : pc[t] # "notifying",
                    NEW t \in Threads, pc[t] = "asleep"
             PROVE  \E u \in Holders \cup ahead[t] : Conflicts(scope[t], scope[u])
  BY DEF SleepersAreBlocked
<1>1. ~Ready(scope[t], ahead[t])
  BY DEF IInv, StillBlocked
<1>2. scope[t] \in Scopes
  BY DEF IInv, Scoped
<1>3. CASE global
  <2>1. PICK u \in Holders : scope[u].all
    BY <1>3 DEF IInv, RegistryPointwise
  <2> QED
    BY <2>1 DEF Conflicts
<1>4. CASE scope[t].all /\ activeKeys # {}
  <2>1. PICK u \in Holders : TRUE
    BY <1>4 DEF IInv, RegistryPointwise, KeysHeld
  <2> QED
    BY <1>4, <2>1 DEF Conflicts
<1>5. CASE ~scope[t].all /\ scope[t].keys \cap activeKeys # {}
  <2>1. PICK k \in scope[t].keys : k \in activeKeys
    BY <1>5
  <2>2. PICK u \in Holders : k \in scope[u].keys
    BY <2>1 DEF IInv, RegistryPointwise, KeysHeld
  <2>3. scope[t].keys \cap scope[u].keys # {}
    BY <2>1, <2>2
  <2> QED
    BY <2>2, <2>3 DEF Conflicts
<1>6. CASE \E u \in ahead[t] : Conflicts(scope[t], scope[u])
  BY <1>6
<1> QED
  BY <1>1, <1>3, <1>4, <1>5, <1>6 DEF Ready

\* The initial registry is empty.
LEMMA InitInv == Init => IInv
<1> SUFFICES ASSUME Init PROVE IInv
  OBVIOUS
<1>1. TypeOK
  BY DEF Init, TypeOK, Places
<1>2. Holders = {} /\ owners = {} /\ ~global /\ activeKeys = {}
  BY DEF Init, Holders
<1>3. MutualExclusion /\ RegistryPointwise
  BY <1>2 DEF MutualExclusion, RegistryPointwise, KeysHeld
<1>4. Scoped /\ AheadQueued /\ StillBlocked
  BY DEF Init, Scoped, AheadQueued, StillBlocked
<1> QED
  BY <1>1, <1>3, <1>4 DEF IInv

\* What granting t the scope s does, whether t had to wait or not: pc may also
\* have woken sleepers, and only t's scope may have changed.
Granted(t, s) ==
  /\ s \in Scopes
  /\ Ready(s, ahead[t]) \/ Ready(s, Queued)
  /\ Grant(t, s)
  /\ pc[t] \in {"idle", "woken"}
  /\ pc'[t] = "holding"
  /\ pc' \in [Threads -> Places]
  /\ scope' = [scope EXCEPT ![t] = s]
  /\ \A u \in Threads \ {t} : pc'[u] = pc[u] \/ (pc[u] = "asleep" /\ pc'[u] = "woken")
  /\ pc[t] = "idle" => \A u \in Threads : pc'[u] # "asleep"
  /\ pc[t] = "woken" => s = scope[t]

\* A grant conflicts with no guard, is recorded, and leaves no sleeper ready.
LEMMA GrantInv ==
  ASSUME IInv, NEW t \in Threads, NEW s, Granted(t, s)
  PROVE  IInv'
<1> USE DEF Granted
<1>1. TypeOK'
  <2>1. s.all \in BOOLEAN /\ s.keys \in SUBSET Keys
    BY ScopeShape
  <2>2. global' \in BOOLEAN /\ activeKeys' \in SUBSET Keys /\ owners' \in SUBSET Threads
    BY <2>1 DEF IInv, TypeOK, Grant
  <2>3. ahead' \in [Threads -> SUBSET Threads]
    BY DEF IInv, TypeOK, Grant
  <2>4. scope' \in [Threads -> Scopes \cup {NoScope}]
    BY DEF IInv, TypeOK
  <2> QED
    BY <2>2, <2>3, <2>4 DEF TypeOK
<1>2. Scoped'
  BY DEF IInv, TypeOK, Scoped
<1>3. AheadQueued'
  <2> SUFFICES ASSUME NEW v \in Threads, NEW u \in ahead'[v]
               PROVE  u \in Threads /\ pc'[u] \in {"woken", "asleep"}
    BY DEF AheadQueued, Queued
  <2>1. u \in ahead[v] /\ u # t
    BY DEF Grant
  <2> QED
    BY <2>1 DEF IInv, AheadQueued, Queued
<1>4. Holders' = Holders \cup {t} /\ t \notin Holders
  BY DEF Holders, IInv, TypeOK
<1>5. /\ scope'[t] = s
      /\ \A u \in Threads \ {t} : scope'[u] = scope[u]
  BY DEF IInv, TypeOK
<1>6. ~global /\ (IF s.all THEN activeKeys = {} ELSE s.keys \cap activeKeys = {})
  BY DEF Ready
<1>7. \A u \in Holders : ~Conflicts(s, scope[u]) /\ ~Conflicts(scope[u], s)
  <2> SUFFICES ASSUME NEW u \in Holders
               PROVE  ~s.all /\ ~scope[u].all /\ s.keys \cap scope[u].keys = {}
    BY DEF Conflicts
  <2>1. scope[u] \in Scopes
    BY DEF IInv, Scoped, Holders
  <2>2. ~scope[u].all
    BY <1>6 DEF IInv, RegistryPointwise
  <2>3. \A k \in scope[u].keys : k \in activeKeys
    BY DEF IInv, RegistryPointwise, KeysHeld
  <2>4. ~s.all
    <3>1. scope[u].keys # {}
      BY <2>1, <2>2, ScopeShape
    <3> QED
      BY <3>1, <2>3, <1>6
  <2> QED
    BY <2>2, <2>3, <2>4, <1>6
<1>8. MutualExclusion'
  <2> SUFFICES ASSUME NEW u \in Holders', NEW v \in Holders', u # v
               PROVE  ~Conflicts(scope'[u], scope'[v])
    BY DEF MutualExclusion, Conflicts
  <2>1. CASE u = t
    BY <2>1, <1>4, <1>5, <1>7 DEF Holders
  <2>2. CASE v = t
    BY <2>2, <1>4, <1>5, <1>7 DEF Holders
  <2>3. CASE u # t /\ v # t
    BY <2>3, <1>4, <1>5 DEF Holders, IInv, MutualExclusion
  <2> QED
    BY <2>1, <2>2, <2>3
<1>9. RegistryPointwise'
  <2>1. owners' = Holders'
    BY <1>4 DEF IInv, RegistryPointwise, Grant
  <2>2. global' <=> \E u \in Holders' : scope'[u].all
    <3>1. \A u \in Holders : u \in Threads /\ u # t /\ ~scope[u].all
      BY <1>4, <1>6 DEF IInv, RegistryPointwise, Holders
    <3>2. (\E u \in Holders' : scope'[u].all) <=> s.all
      BY <3>1, <1>4, <1>5
    <3>3. global' <=> s.all
      BY <1>6, ScopeShape DEF Grant
    <3> QED
      BY <3>2, <3>3
  <2>3. KeysHeld'
    BY <1>4, <1>5 DEF IInv, RegistryPointwise, Grant, KeysHeld, Holders
  <2> QED
    BY <2>1, <2>2, <2>3 DEF RegistryPointwise
<1>10. StillBlocked'
  <2> SUFFICES ASSUME \A u \in Threads : pc'[u] # "notifying",
                      NEW u \in Threads, pc'[u] = "asleep"
               PROVE  ~Ready(scope[u], ahead[u])'
    BY DEF StillBlocked
  <2>1. u # t /\ pc[u] = "asleep" /\ pc[t] = "woken"
    OBVIOUS
  <2>2. \A v \in Threads : pc[v] # "notifying"
    BY <2>1
  <2>3. ~Ready(scope[u], ahead[u])
    BY <2>1, <2>2 DEF IInv, StillBlocked
  <2>4. /\ scope'[u] = scope[u]
        /\ scope[u] \in Scopes
        /\ ahead'[u] = ahead[u] \ {t}
    BY <2>1, <1>5 DEF Grant, IInv, Scoped
  <2>5. /\ global' \in BOOLEAN
        /\ s.all => global'
        /\ s.keys \subseteq activeKeys'
        /\ activeKeys \subseteq activeKeys'
        /\ ~global
    BY <1>6, ScopeShape DEF Grant, IInv, TypeOK
  <2>6. CASE Conflicts(scope[u], s)
    <3>1. global' \/ IF scope[u].all THEN activeKeys' # {}
                                     ELSE scope[u].keys \cap activeKeys' # {}
      BY <2>4, <2>5, <2>6, GuardBlocks
    <3> QED
      BY <3>1, <2>4 DEF Ready
  <2>7. CASE ~Conflicts(scope[u], s)
    <3>1. CASE IF scope[u].all THEN activeKeys # {} ELSE scope[u].keys \cap activeKeys # {}
      <4>1. IF scope[u].all THEN activeKeys' # {} ELSE scope[u].keys \cap activeKeys' # {}
        BY <3>1, <2>5
      <4> QED
        BY <4>1, <2>4 DEF Ready
    <3>2. CASE \E v \in ahead[u] : Conflicts(scope[u], scope[v])
      <4>1. PICK v \in ahead[u] : Conflicts(scope[u], scope[v])
        BY <3>2
      <4>2. v \in Threads
        BY DEF IInv, AheadQueued, Queued
      <4>3. CASE v # t
        <5>1. v \in ahead'[u] /\ scope'[v] = scope[v]
          BY <4>2, <4>3, <2>4, <1>5
        <5>2. Conflicts(scope'[u], scope'[v])
          BY <5>1, <4>1, <2>4
        <5> QED
          BY <5>1, <5>2 DEF Ready, Conflicts
      <4>4. CASE v = t
        BY <4>4, <4>1, <2>1, <2>7 DEF Granted
      <4> QED
        BY <4>3, <4>4
    <3> QED
      BY <2>3, <2>5, <3>1, <3>2 DEF Ready
  <2> QED
    BY <2>6, <2>7
<1> QED
  BY <1>1, <1>2, <1>3, <1>8, <1>9, <1>10 DEF IInv

\* Reserving a scope and asking for it keep the invariant.
LEMMA AcquireInv ==
  ASSUME IInv, NEW t \in Threads, NEW s \in Scopes, Acquire(t, s)
  PROVE  IInv'
<1>1. CASE Ready(s, Queued) /\ pc' = [NotifyAll(pc) EXCEPT ![t] = "holding"] /\ Grant(t, s)
  <2>1. /\ pc' \in [Threads -> Places]
        /\ pc'[t] = "holding"
        /\ \A u \in Threads \ {t} : pc'[u] = IF pc[u] = "asleep" THEN "woken" ELSE pc[u]
    BY <1>1 DEF NotifyAll, IInv, TypeOK, Places
  <2>2. Granted(t, s)
    BY <1>1, <2>1 DEF Granted, Acquire
  <2> QED
    BY <2>2, GrantInv
<1>2. CASE /\ ~Ready(s, Queued)
           /\ pc' = [NotifyAll(pc) EXCEPT ![t] = "asleep"]
           /\ ahead' = [ahead EXCEPT ![t] = Queued]
           /\ UNCHANGED <<global, activeKeys, owners>>
  <2>1. /\ pc' \in [Threads -> Places]
        /\ pc'[t] = "asleep"
        /\ pc[t] = "idle"
        /\ \A u \in Threads \ {t} : pc'[u] = IF pc[u] = "asleep" THEN "woken" ELSE pc[u]
    BY <1>2 DEF NotifyAll, IInv, TypeOK, Places, Acquire
  <2>2. /\ scope' \in [Threads -> Scopes \cup {NoScope}]
        /\ scope'[t] = s
        /\ \A u \in Threads \ {t} : scope'[u] = scope[u]
    BY DEF IInv, TypeOK, Acquire
  <2>3. /\ ahead' \in [Threads -> SUBSET Threads]
        /\ ahead'[t] = Queued
        /\ \A u \in Threads \ {t} : ahead'[u] = ahead[u]
    BY <1>2 DEF IInv, TypeOK, Queued
  <2>4. TypeOK'
    BY <1>2, <2>1, <2>2, <2>3 DEF IInv, TypeOK
  <2>5. Scoped'
    BY <2>1, <2>2 DEF IInv, Scoped
  <2>6. AheadQueued'
    <3>1. \A u \in Queued : u \in Queued'
      BY <2>1 DEF Queued
    <3> QED
      BY <2>3, <3>1 DEF IInv, AheadQueued
  <2>7. Holders' = Holders /\ \A u \in Holders : u \in Threads /\ scope'[u] = scope[u]
    BY <2>1, <2>2 DEF Holders
  <2>8. MutualExclusion'
    BY <2>7 DEF IInv, MutualExclusion, Conflicts
  <2>9. RegistryPointwise'
    BY <2>7, <1>2 DEF IInv, RegistryPointwise, KeysHeld
  <2>10. StillBlocked'
    <3> SUFFICES ~Ready(scope[t], ahead[t])'
      BY <2>1 DEF StillBlocked
    <3>1. \A u \in Queued : scope'[u] = scope[u]
      BY <2>1, <2>2 DEF Queued
    <3> QED
      BY <3>1, <1>2, <2>2, <2>3 DEF Ready, Conflicts
  <2> QED
    BY <2>4, <2>5, <2>6, <2>8, <2>9, <2>10 DEF IInv
<1> QED
  BY <1>1, <1>2 DEF Acquire

\* A waiter's round in the loop ends with its guard or back asleep, not ready.
LEMMA RecheckInv ==
  ASSUME IInv, NEW t \in Threads, Recheck(t)
  PROVE  IInv'
<1>1. pc[t] = "woken" /\ scope[t] \in Scopes /\ scope' = scope
  BY DEF Recheck, IInv, Scoped
<1>2. CASE /\ Ready(scope[t], ahead[t])
           /\ pc' = [pc EXCEPT ![t] = "holding"]
           /\ Grant(t, scope[t])
  <2>1. /\ pc' \in [Threads -> Places]
        /\ pc'[t] = "holding"
        /\ \A u \in Threads \ {t} : pc'[u] = pc[u]
    BY <1>2 DEF IInv, TypeOK, Places
  <2>2. scope' = [scope EXCEPT ![t] = scope[t]]
    BY <1>1 DEF IInv, TypeOK
  <2>3. Granted(t, scope[t])
    BY <1>1, <1>2, <2>1, <2>2 DEF Granted
  <2> QED
    BY <2>3, GrantInv
<1>3. CASE /\ ~Ready(scope[t], ahead[t])
           /\ pc' = [pc EXCEPT ![t] = "asleep"]
           /\ UNCHANGED <<ahead, global, activeKeys, owners>>
  <2>1. /\ pc' \in [Threads -> Places]
        /\ pc'[t] = "asleep"
        /\ \A u \in Threads \ {t} : pc'[u] = pc[u]
    BY <1>3 DEF IInv, TypeOK, Places
  <2>2. Holders' = Holders /\ Queued' = Queued
    BY <1>1, <2>1 DEF Holders, Queued
  <2>3. TypeOK' /\ Scoped' /\ AheadQueued'
    BY <1>1, <1>3, <2>1, <2>2 DEF IInv, TypeOK, Scoped, AheadQueued
  <2>4. MutualExclusion' /\ RegistryPointwise'
    BY <1>1, <1>3, <2>2 DEF IInv, MutualExclusion, RegistryPointwise, KeysHeld, Conflicts
  <2>5. StillBlocked'
    BY <1>1, <1>3, <2>1 DEF IInv, StillBlocked, Ready, Conflicts
  <2> QED
    BY <2>3, <2>4, <2>5 DEF IInv
<1> QED
  BY <1>1, <1>2, <1>3 DEF Recheck

\* A wakeup, with or without a reason, only changes who sleeps.
LEMMA WakeInv ==
  ASSUME IInv, NEW t \in Threads, SpuriousWakeup(t) \/ NotifyReleased(t)
  PROVE  IInv'
<1>1. UNCHANGED <<scope, ahead, global, activeKeys, owners>>
  BY DEF SpuriousWakeup, NotifyReleased
<1>2. CASE SpuriousWakeup(t)
  <2>1. /\ pc' \in [Threads -> Places]
        /\ pc[t] = "asleep" /\ pc'[t] = "woken"
        /\ \A u \in Threads \ {t} : pc'[u] = pc[u]
    BY <1>2 DEF SpuriousWakeup, IInv, TypeOK, Places
  <2>2. Holders' = Holders /\ Queued' = Queued
    BY <2>1 DEF Holders, Queued
  <2>3. TypeOK' /\ Scoped' /\ AheadQueued'
    BY <1>1, <2>1, <2>2 DEF IInv, TypeOK, Scoped, AheadQueued
  <2>4. MutualExclusion' /\ RegistryPointwise'
    BY <1>1, <2>2 DEF IInv, MutualExclusion, RegistryPointwise, KeysHeld, Conflicts
  <2>5. StillBlocked'
    BY <1>1, <2>1 DEF IInv, StillBlocked, Ready, Conflicts
  <2> QED
    BY <2>3, <2>4, <2>5 DEF IInv
<1>3. CASE NotifyReleased(t)
  <2>1. /\ pc' \in [Threads -> Places]
        /\ pc[t] = "notifying" /\ pc'[t] = "idle"
        /\ \A u \in Threads \ {t} : pc'[u] = IF pc[u] = "asleep" THEN "woken" ELSE pc[u]
    BY <1>3 DEF NotifyReleased, NotifyAll, IInv, TypeOK, Places
  <2>2. Holders' = Holders /\ Queued' = Queued
    BY <2>1 DEF Holders, Queued
  <2>3. TypeOK' /\ Scoped' /\ AheadQueued'
    BY <1>1, <2>1, <2>2 DEF IInv, TypeOK, Scoped, AheadQueued
  <2>4. MutualExclusion' /\ RegistryPointwise'
    BY <1>1, <2>2 DEF IInv, MutualExclusion, RegistryPointwise, KeysHeld, Conflicts
  <2>5. StillBlocked'
    BY <2>1 DEF StillBlocked
  <2> QED
    BY <2>3, <2>4, <2>5 DEF IInv
<1> QED
  BY <1>2, <1>3

\* Dropping a guard frees exactly its own keys: nobody else can hold them.
LEMMA ReleaseInv ==
  ASSUME IInv, NEW t \in Threads, Release(t)
  PROVE  IInv'
<1>1. /\ pc' \in [Threads -> Places]
      /\ pc[t] = "holding" /\ pc'[t] = "notifying"
      /\ \A u \in Threads \ {t} : pc'[u] = pc[u]
  BY DEF Release, IInv, TypeOK, Places
<1>2. /\ scope' \in [Threads -> Scopes \cup {NoScope}]
      /\ \A u \in Threads \ {t} : scope'[u] = scope[u]
      /\ scope[t] \in Scopes
  BY <1>1 DEF Release, IInv, TypeOK, Scoped
<1>3. /\ Holders' = Holders \ {t}
      /\ t \in Holders
      /\ Queued' = Queued
      /\ \A u \in Holders' : u \in Threads /\ scope'[u] = scope[u]
  BY <1>1, <1>2 DEF Holders, Queued
<1>4. TypeOK' /\ Scoped' /\ AheadQueued' /\ StillBlocked'
  <2>1. TypeOK'
    BY <1>1, <1>2, ScopeShape DEF Release, IInv, TypeOK
  <2>2. Scoped' /\ StillBlocked'
    BY <1>1, <1>2 DEF IInv, Scoped, StillBlocked
  <2>3. AheadQueued'
    BY <1>3 DEF Release, IInv, AheadQueued
  <2> QED
    BY <2>1, <2>2, <2>3
<1>5. MutualExclusion'
  BY <1>3 DEF IInv, MutualExclusion, Conflicts
<1>6. \A u \in Holders' : ~Conflicts(scope[t], scope[u])
  BY <1>3 DEF IInv, MutualExclusion
<1>7. RegistryPointwise'
  <2>1. owners' = Holders'
    BY <1>3 DEF Release, IInv, RegistryPointwise
  <2>2. global' <=> \E u \in Holders' : scope'[u].all
    <3>1. CASE scope[t].all
      <4>1. Holders' = {}
        BY <3>1, <1>6 DEF Conflicts
      <4> QED
        BY <4>1, <3>1 DEF Release
    <3>2. CASE ~scope[t].all
      <4>1. global' <=> global
        BY <3>2, ScopeShape, <1>2 DEF Release, IInv, TypeOK
      <4>2. (\E u \in Holders : scope[u].all) <=> (\E u \in Holders' : scope'[u].all)
        BY <3>2, <1>3
      <4> QED
        BY <4>1, <4>2 DEF IInv, RegistryPointwise
    <3> QED
      BY <3>1, <3>2
  <2>3. KeysHeld'
    <3> SUFFICES ASSUME NEW k
                 PROVE  k \in activeKeys' <=> \E u \in Holders' : k \in scope'[u].keys
      BY DEF KeysHeld
    <3>1. k \in activeKeys' <=> k \in activeKeys /\ k \notin scope[t].keys
      BY DEF Release
    <3>2. k \in activeKeys <=> \E u \in Holders : k \in scope[u].keys
      BY DEF IInv, RegistryPointwise, KeysHeld
    <3>3. \A u \in Holders' : k \in scope[u].keys => k \notin scope[t].keys
      BY <1>6 DEF Conflicts
    <3> QED
      BY <3>1, <3>2, <3>3, <1>3
  <2> QED
    BY <2>1, <2>2, <2>3 DEF RegistryPointwise
<1> QED
  BY <1>4, <1>5, <1>7 DEF IInv

\* Every step keeps the invariant.
LEMMA NextInv == IInv /\ [Next]_vars => IInv'
<1> SUFFICES ASSUME IInv, [Next]_vars PROVE IInv'
  OBVIOUS
<1>1. CASE UNCHANGED vars
  BY <1>1 DEF vars, IInv, TypeOK, Scoped, AheadQueued, MutualExclusion, Holders, Queued,
     RegistryPointwise, KeysHeld, StillBlocked, Ready, Conflicts
<1>2. ASSUME NEW t \in Threads, Step(t) PROVE IInv'
  <2>1. ASSUME NEW s \in Scopes, Acquire(t, s) PROVE IInv'
    BY <2>1, AcquireInv
  <2>2. CASE Recheck(t)
    BY <2>2, RecheckInv
  <2>3. CASE SpuriousWakeup(t) \/ NotifyReleased(t)
    BY <2>3, WakeInv
  <2>4. CASE Release(t)
    BY <2>4, ReleaseInv
  <2> QED
    BY <1>2, <2>1, <2>2, <2>3, <2>4 DEF Step
<1> QED
  BY <1>1, <1>2 DEF Next

\* The strengthened invariant holds in every reachable state.
LEMMA Invariance == Spec => []IInv
  BY InitInv, NextInv, PTL DEF Spec

-----------------------------------------------------------------------------
\* No two threads ever hold conflicting AdmissionGuards, however many threads
\* and conversations there are.
THEOREM AdmissionIsExclusive == Spec => []MutualExclusion
<1>1. IInv => MutualExclusion
  BY DEF IInv
<1> QED
  BY <1>1, Invariance, PTL

\* State.global, active_keys and owners describe exactly the guards in existence:
\* removing a dropped guard's keys never frees another guard's.
THEOREM RegistryIsExact == Spec => []RegistryMatchesGuards
<1>1. IInv => RegistryMatchesGuards
  BY RegistryAgrees DEF IInv
<1> QED
  BY <1>1, Invariance, PTL

\* The condition variable loses no wakeup: once no drop is about to notify, a
\* sleeping thread is blocked by a conflicting holder or earlier waiter.
THEOREM NoLostWakeup == Spec => []SleepersAreBlocked
  BY BlockedByConflict, Invariance, PTL

=============================================================================
