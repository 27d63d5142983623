------------------------ MODULE SandboxOwnershipProofs ------------------------
(***************************************************************************)
(* Who owns a sandbox, and who mounts its workspace: proofs of             *)
(* NoSharedSandbox and WorkspaceExclusive for every kind of request, with  *)
(* any number of ids, threads, warm sandboxes and faults.                  *)
(*                                                                         *)
(* The records alone are not inductive, because a request writes back the  *)
(* clone it has been working on.  Owned therefore says the same of the     *)
(* clones: whatever a goroutine holds belongs to the id it serves, and may *)
(* be written to the record of that id whenever the scheduler pleases.     *)
(***************************************************************************)
EXTENDS SandboxLifecycleProofs

\* The keys a record or a clone refers to.
Refs(s) == {s.pod, s.pvc} \ {None}

\* Id(t) is None only for a thread that serves nobody.
Owned ==
    /\ \A i \in Ids : Refs(store[i]) \subseteq ({i} \cup PoolKeys) \ idle
    /\ \A t \in Threads : Refs(th[t].sess) \subseteq ({Id(t)} \cup PoolKeys) \ idle
    /\ \A i, j \in Ids : i # j => Refs(store[i]) \cap Refs(store[j]) = {}
    /\ \A t \in Threads, j \in Ids :
         Id(t) # j => Refs(th[t].sess) \cap Refs(store[j]) = {}
    /\ \A t, u \in Threads :
         Id(t) # Id(u) => Refs(th[t].sess) \cap Refs(th[u].sess) = {}

\* What a step of t may put into its clone and into the record of its id.
Reach(t) == Refs(th[t].sess) \cup Refs(store[Id(t)]) \cup {Id(t)}

\* A step of t leaves s, or nothing, in its clone and moves no other thread.
Carries(t, s) ==
    /\ \A u \in Threads \ {t} : th'[u] = th[u]
    /\ \/ th'[t].id = th[t].id /\ th'[t].sess = s
       \/ th'[t].sess = AbsentSession

\* A step of t leaves everything it moves within its reach.
Within(t) ==
    /\ \A u \in Threads : u # t => th'[u] = th[u]
    /\ \/ th'[t].id = th[t].id /\ Refs(th'[t].sess) \subseteq Reach(t)
       \/ Refs(th'[t].sess) = {}
    /\ \A i \in Ids : i # Id(t) => store'[i] = store[i]
    /\ Refs(store'[Id(t)]) \subseteq Reach(t)
    /\ UNCHANGED idle

\* Only a step of Create reaches farther: it takes a warm sandbox.
Acquires(t, k) == Acquire(t, k) /\ UNCHANGED <<store, pods>>

-----------------------------------------------------------------------------
(* Lemmas about Refs and Reach.                                            *)

\* The record of no session refers to nothing.
LEMMA AbsentRefs == Refs(AbsentSession) = {}
BY DEF Refs, AbsentSession

\* Changing the state of a record changes none of its references, and dropping
\* its pod adds none.
LEMMA RefsOfUpdate ==
    ASSUME NEW s \in Session, NEW st
    PROVE  /\ Refs([s EXCEPT !.state = st]) = Refs(s)
           /\ Refs([s EXCEPT !.pod = None, !.state = st]) \subseteq Refs(s)
BY DEF Refs, Session, AbsentSession

\* What t can reach belongs to its id and is not in the pool, so it is out of
\* the reach of everybody who serves another id.
LEMMA ReachIsOwn ==
    ASSUME IInv, Owned, NEW t \in Threads, Id(t) \in Ids
    PROVE  /\ Reach(t) \subseteq ({Id(t)} \cup PoolKeys) \ idle
           /\ \A j \in Ids : j # Id(t) => Reach(t) \cap Refs(store[j]) = {}
           /\ \A u \in Threads : Id(u) # Id(t) => Reach(t) \cap Refs(th[u].sess) = {}
<1>1. Id(t) \notin PoolKeys /\ idle \subseteq PoolKeys
  BY KeysAssumption DEF IInv, TypeOK
<1>2. Reach(t) \subseteq ({Id(t)} \cup PoolKeys) \ idle
  BY <1>1 DEF Owned, Reach
<1>3. ASSUME NEW j \in Ids, j # Id(t)
      PROVE  Reach(t) \cap Refs(store[j]) = {}
  <2>1. Id(t) \notin Refs(store[j])
    BY <1>1, <1>3 DEF Owned
  <2> QED  BY <1>3, <2>1 DEF Owned, Reach
<1>4. ASSUME NEW u \in Threads, Id(u) # Id(t)
      PROVE  Reach(t) \cap Refs(th[u].sess) = {}
  <2>1. Id(t) \notin Refs(th[u].sess)
    BY <1>1, <1>4 DEF Owned
  <2> QED  BY <1>4, <2>1 DEF Owned, Reach
<1> QED  BY <1>2, <1>3, <1>4

-----------------------------------------------------------------------------
(* The shapes of step that keep Owned.                                     *)

\* A step of t that moves references only within its reach.
LEMMA WithinReach ==
    ASSUME IInv, NEW t \in Threads, Id(t) \in Ids, NEW s, NEW r,
           Carries(t, s), Refs(s) \subseteq Reach(t),
           store' = store \/ store' = [store EXCEPT ![Id(t)] = r],
           Refs(r) \subseteq Reach(t), UNCHANGED idle
    PROVE  Within(t)
<1>0. store \in [Ids -> Session] /\ Refs(store[Id(t)]) \subseteq Reach(t)
  BY DEF IInv, TypeOK, Reach
<1>1. /\ \A i \in Ids : i # Id(t) => store'[i] = store[i]
      /\ Refs(store'[Id(t)]) \subseteq Reach(t)
  BY <1>0
<1>2. \/ th'[t].id = th[t].id /\ Refs(th'[t].sess) \subseteq Reach(t)
      \/ Refs(th'[t].sess) = {}
  BY AbsentRefs DEF Carries
<1> QED  BY <1>1, <1>2 DEF Carries, Within

\* Such a step keeps Owned.
LEMMA OwnStep ==
    ASSUME IInv, Owned, NEW t \in Threads, Id(t) \in Ids, Within(t)
    PROVE  Owned'
<1>1. /\ \A i \in Ids : i # Id(t) => store'[i] = store[i]
      /\ Refs(store'[Id(t)]) \subseteq Reach(t)
  BY DEF Within
<1>2. \/ th'[t].id = th[t].id /\ Refs(th'[t].sess) \subseteq Reach(t)
      \/ Refs(th'[t].sess) = {}
  BY DEF Within
<1>3. (\A u \in Threads : u # t => th'[u] = th[u]) /\ UNCHANGED idle
  BY DEF Within
<1>4. \A i \in Ids : Refs(store'[i]) \subseteq ({i} \cup PoolKeys) \ idle
  BY <1>1, <1>3, ReachIsOwn DEF Owned
<1>5. \A u \in Threads : Refs(th'[u].sess) \subseteq ({th'[u].id} \cup PoolKeys) \ idle
  BY <1>2, <1>3, ReachIsOwn DEF Owned, Id
<1>6. \A i, j \in Ids : i # j => Refs(store'[i]) \cap Refs(store'[j]) = {}
  <2>1. \A j \in Ids : j # Id(t) => Refs(store'[Id(t)]) \cap Refs(store[j]) = {}
    BY <1>1, ReachIsOwn
  <2> QED  BY <1>1, <2>1 DEF Owned
<1>7. \A u \in Threads, j \in Ids :
        th'[u].id # j => Refs(th'[u].sess) \cap Refs(store'[j]) = {}
  <2>1. ASSUME NEW u \in Threads, u # t, NEW j \in Ids, th'[u].id # j
        PROVE  Refs(th'[u].sess) \cap Refs(store'[j]) = {}
    <3>1. CASE j = Id(t)
      BY <1>1, <1>3, <2>1, <3>1, ReachIsOwn DEF Id
    <3>2. CASE j # Id(t)
      BY <1>1, <1>3, <2>1, <3>2 DEF Owned, Id
    <3> QED  BY <3>1, <3>2
  <2>2. ASSUME NEW j \in Ids, th'[t].id # j
        PROVE  Refs(th'[t].sess) \cap Refs(store'[j]) = {}
    <3>1. CASE Refs(th'[t].sess) = {}
      BY <3>1
    <3>2. CASE th'[t].id = th[t].id /\ Refs(th'[t].sess) \subseteq Reach(t)
      BY <1>1, <2>2, <3>2, ReachIsOwn DEF Id
    <3> QED  BY <1>2, <3>1, <3>2
  <2> QED  BY <2>1, <2>2
<1>8. \A u, v \in Threads :
        th'[u].id # th'[v].id => Refs(th'[u].sess) \cap Refs(th'[v].sess) = {}
  <2>1. ASSUME NEW u \in Threads, u # t, th'[u].id # th'[t].id
        PROVE  Refs(th'[u].sess) \cap Refs(th'[t].sess) = {}
    <3>1. CASE Refs(th'[t].sess) = {}
      BY <3>1
    <3>2. CASE th'[t].id = th[t].id /\ Refs(th'[t].sess) \subseteq Reach(t)
      BY <1>3, <2>1, <3>2, ReachIsOwn DEF Id
    <3> QED  BY <1>2, <3>1, <3>2
  <2>2. ASSUME NEW u \in Threads, NEW v \in Threads, u # t, v # t, th'[u].id # th'[v].id
        PROVE  Refs(th'[u].sess) \cap Refs(th'[v].sess) = {}
    BY <1>3, <2>2 DEF Owned, Id
  <2> QED  BY <2>1, <2>2
<1> QED  BY <1>3, <1>4, <1>5, <1>6, <1>7, <1>8 DEF Owned, Id

\* A jump or a call carries the given clone.
LEMMA JumpCarries ==
    ASSUME IInv, NEW t \in Threads, NEW label \in Labels, NEW s, NEW ret,
           GotoWith(t, label, s) \/ CallRuntime(t, label, s, ret)
    PROVE  Carries(t, s)
<1>0. th \in [Threads -> Thread]
  BY DEF IInv, TypeOK
<1>1. CASE GotoWith(t, label, s)
  BY <1>0, <1>1 DEF GotoWith, Carries, Thread, FinishedThread, IdleThread
<1>2. CASE CallRuntime(t, label, s, ret)
  BY <1>0, <1>2 DEF CallRuntime, Carries, Thread
<1> QED  BY <1>1, <1>2

\* A plain jump keeps the clone, so it stays within reach if the records do.
LEMMA WithinGoto ==
    ASSUME IInv, NEW t \in Threads, Id(t) \in Ids,
           \E label \in Labels : Goto(t, label), UNCHANGED <<store, idle>>
    PROVE  Within(t)
<1>1. Carries(t, th[t].sess)
  BY JumpCarries DEF Goto
<1>2. Refs(th[t].sess) \subseteq Reach(t)
  BY DEF Reach
<1> QED  BY <1>1, <1>2, WithinReach

\* So does a last Update with a record within reach.
LEMMA WithinUpdate ==
    ASSUME IInv, NEW t \in Threads, Id(t) \in Ids, NEW background, NEW r,
           UpdateAndFinish(t, background, r), Refs(r) \subseteq Reach(t)
    PROVE  Within(t)
<1>1. Carries(t, th[t].sess)
  BY JumpCarries DEF UpdateAndFinish, Goto, Labels
<1>2. Refs(th[t].sess) \subseteq Reach(t)
  BY DEF Reach
<1>3. store' = store \/ store' = [store EXCEPT ![Id(t)] = r]
  BY DEF UpdateAndFinish
<1> QED  BY <1>1, <1>2, <1>3, WithinReach DEF UpdateAndFinish

-----------------------------------------------------------------------------
(* Owned is inductive, one lemma per kind of step.                         *)

\* Nobody owns anything initially.
LEMMA OwnInit == Init => Owned
BY AbsentRefs DEF Init, Owned, IdleThread

\* A request starts and ends with an empty clone, and a cancelled one keeps its own.
LEMMA OutsideMoves ==
    ASSUME IInv, NEW t \in Threads,
           \/ \E op \in Requests, i \in Ids, want \in Wants : Arrive(t, op, i, want)
           \/ Cancel(t) \/ Return(t)
    PROVE  /\ UNCHANGED <<store, idle, pods>>
           /\ \A u \in Threads :
                \/ /\ th'[u].id = th[u].id /\ th'[u].sess = th[u].sess
                   /\ th'[u].pc = th[u].pc /\ th'[u].then = th[u].then
                \/ th'[u].sess = AbsentSession
<1>0. th \in [Threads -> Thread]
  BY DEF IInv, TypeOK
<1>1. CASE Cancel(t)
  BY <1>0, <1>1 DEF Cancel, Thread, StoreUnchanged, clusterVars
<1>2. CASE Return(t)
  BY <1>0, <1>2 DEF Return, IdleThread, clusterVars
<1>3. ASSUME NEW op \in Requests, NEW i \in Ids, NEW want \in Wants, Arrive(t, op, i, want)
      PROVE  /\ UNCHANGED <<store, idle, pods>>
             /\ \A u \in Threads \ {t} : th'[u] = th[u]
             /\ th'[t].sess = AbsentSession
  <2> DEFINE r == [IdleThread EXCEPT !.op = op, !.id = i, !.want = want, !.pc = Entry(op)]
  <2>1. th' = [th EXCEPT ![t] = r] /\ UNCHANGED <<store, idle, pods>>
    BY <1>3 DEF Arrive, OnlyThread, clusterVars
  <2>2. r.sess = AbsentSession
    BY DEF IdleThread
  <2> QED  BY <1>0, <2>1, <2>2
<1> QED  BY <1>1, <1>2, <1>3

\* So neither changes who owns what.
LEMMA OwnOutside ==
    ASSUME IInv, Owned, NEW t \in Threads,
           \/ \E op \in Requests, i \in Ids, want \in Wants : Arrive(t, op, i, want)
           \/ Cancel(t) \/ Return(t)
    PROVE  Owned'
<1>1. /\ UNCHANGED <<store, idle>>
      /\ \A u \in Threads : \/ th'[u].id = th[u].id /\ th'[u].sess = th[u].sess
                            \/ Refs(th'[u].sess) = {}
  BY OutsideMoves, AbsentRefs
<1> QED  BY <1>1 DEF Owned, Id

\* A warm sandbox that is taken belongs to the session that takes it.
LEMMA OwnAcquire ==
    ASSUME IInv, Owned, NEW t \in Threads, Id(t) \in Ids, NEW k \in PoolKeys, Acquires(t, k)
    PROVE  Owned'
<1>1. Carries(t, NewSession(t, k)) /\ Refs(NewSession(t, k)) \subseteq {k}
  BY JumpCarries DEF Acquires, Acquire, Labels, NewSession, Refs
<1>2. k \in idle /\ idle' = idle \ {k}
  BY DEF Acquires, Acquire
<1>3. /\ \A u \in Threads : u # t => th'[u] = th[u]
      /\ \/ th'[t].id = th[t].id /\ Refs(th'[t].sess) \subseteq {k}
         \/ Refs(th'[t].sess) = {}
  BY <1>1, AbsentRefs DEF Carries
<1>4. /\ \A i \in Ids : k \notin Refs(store[i])
      /\ \A u \in Threads : k \notin Refs(th[u].sess)
  BY <1>2 DEF Owned
<1>5. \A u \in Threads : Refs(th'[u].sess) \subseteq ({th'[u].id} \cup PoolKeys) \ idle'
  BY <1>2, <1>3 DEF Owned, Id
<1>6. \A u \in Threads, j \in Ids :
        th'[u].id # j => Refs(th'[u].sess) \cap Refs(store[j]) = {}
  BY <1>3, <1>4 DEF Owned, Id
<1>7. \A u, v \in Threads :
        th'[u].id # th'[v].id => Refs(th'[u].sess) \cap Refs(th'[v].sess) = {}
  BY <1>3, <1>4 DEF Owned, Id
<1> QED  BY <1>2, <1>5, <1>6, <1>7 DEF Owned, Id, Acquires

\* EnsureSession, Clear, purgeAndForget and the lock.
LEMMA WithinEnsure ==
    ASSUME IInv, NEW t \in Threads, LockSession(t) \/ EnsureStep(t)
    PROVE  Within(t)
<1>0. Id(t) \in Ids /\ Refs(th[t].sess) \subseteq Reach(t)
      /\ Refs(store[Id(t)]) \subseteq Reach(t) /\ Refs(AbsentSession) \subseteq Reach(t)
  BY ThreadFacts, AbsentRefs DEF LockSession, EnsureStep, EnsureGet, ClearGet, Forget, At, Id, Reach
<1>1. CASE LockSession(t)
  BY <1>0, <1>1, WithinGoto DEF LockSession, AfterLock, Labels
<1>2. CASE EnsureGet(t) \/ ClearGet(t)
  <2>1. \/ \E label \in Labels : Goto(t, label)
        \/ CallRuntime(t, "purge_pod", store[Id(t)], "forget")
    BY <1>2 DEF EnsureGet, ClearGet, Labels
  <2>2. UNCHANGED <<store, idle>>
    BY <1>2 DEF EnsureGet, ClearGet, OnlyThread
  <2>3. CASE CallRuntime(t, "purge_pod", store[Id(t)], "forget")
    <3>1. Carries(t, store[Id(t)])
      BY <2>3, JumpCarries DEF Labels
    <3> QED  BY <1>0, <2>2, <3>1, WithinReach
  <2> QED  BY <1>0, <2>1, <2>2, <2>3, WithinGoto
<1>3. CASE Forget(t)
  <2>1. Carries(t, AbsentSession)
    BY <1>3, JumpCarries DEF Forget, Labels
  <2>2. store' = store \/ store' = [store EXCEPT ![Id(t)] = AbsentSession]
    BY <1>3 DEF Forget
  <2> QED  BY <1>0, <1>3, <2>1, <2>2, WithinReach DEF Forget
<1> QED  BY <1>1, <1>2, <1>3 DEF EnsureStep

\* API requests touch neither the records nor the clones.
LEMMA WithinRequests ==
    ASSUME IInv, NEW t \in Threads,
           \/ PurgeStep(t) \/ StopPod(t) \/ StopSecret(t) \/ ResumeSecret(t) \/ ResumePod(t)
           \/ ClaimCreate(t) \/ SecretCreate(t) \/ PodCreate(t)
           \/ RollbackSecret(t) \/ RollbackClaim(t)
    PROVE  Within(t)
<1>1. Id(t) \in Ids /\ th[t].then \in Labels
      /\ AfterFailedPurge(t) \in Labels /\ AfterFailedStop(t) \in Labels
  BY ThreadFacts DEF PurgeStep, PurgePod, PurgeSecret, PurgeClaim, StopPod, StopSecret,
     ResumeSecret, ResumePod, ClaimCreate, SecretCreate, PodCreate, RollbackSecret,
     RollbackClaim, At, Id, AfterFailedPurge, AfterFailedStop, Labels
<1>2. UNCHANGED <<store, idle>>
  BY DEF PurgeStep, PurgePod, PurgeSecret, PurgeClaim, StopPod, StopSecret,
     ResumeSecret, ResumePod, ClaimCreate, SecretCreate, PodCreate, RollbackSecret,
     RollbackClaim, StoreUnchanged
<1>3. PurgeStep(t) => \E label \in Labels : Goto(t, label)
  BY <1>1 DEF PurgeStep, PurgePod, PurgeSecret, PurgeClaim, Request, Refused, Labels
<1>4. StopPod(t) \/ StopSecret(t) => \E label \in Labels : Goto(t, label)
  BY <1>1 DEF StopPod, StopSecret, Request, Labels
<1>5. ResumeSecret(t) \/ ResumePod(t) => \E label \in Labels : Goto(t, label)
  BY DEF ResumeSecret, ResumePod, Request, Refused, Labels
<1>6. ClaimCreate(t) \/ SecretCreate(t) \/ PodCreate(t) => \E label \in Labels : Goto(t, label)
  BY DEF ClaimCreate, SecretCreate, PodCreate, Request, Refused, Labels
<1>7. RollbackSecret(t) \/ RollbackClaim(t) => \E label \in Labels : Goto(t, label)
  BY DEF RollbackSecret, RollbackClaim, Request, Labels
<1> QED  BY <1>1, <1>2, <1>3, <1>4, <1>5, <1>6, <1>7, WithinGoto

\* Create takes a sandbox out of the pool, or names one after its own id.
LEMMA WithinCreate ==
    ASSUME IInv, NEW t \in Threads,
           \/ CountRunning(t) \/ CountCreating(t) \/ Provision(t) \/ ClaimWait(t)
           \/ Persist(t) \/ WaitReady(t) \/ MarkRunning(t) \/ MarkDead(t)
    PROVE  Within(t) \/ \E k \in PoolKeys : Acquires(t, k)
<1>0. /\ Id(t) \in Ids /\ th[t].sess \in Session /\ th \in [Threads -> Thread]
      /\ Refs(th[t].sess) \subseteq Reach(t) /\ Id(t) \in Reach(t)
  BY ThreadFacts DEF CountRunning, CountCreating, Provision, ClaimWait, Persist, WaitReady,
     MarkRunning, MarkDead, At, Id, Reach, IInv, TypeOK
<1>1. CASE CountRunning(t) \/ CountCreating(t)
  <2>1. Carries(t, th[t].sess)
    <3>1. CASE Goto(t, "done")
      BY <3>1, JumpCarries DEF Goto, Labels
    <3>2. CASE \E label \in Labels, n \in Nat : th' = [th EXCEPT ![t].pc = label, ![t].seen = n]
      BY <1>0, <3>2 DEF Carries, Thread
    <3>3. Cardinality(InState("running")) \in Nat
      BY KeysAssumption, FS_Subset, FS_CardinalityType DEF InState
    <3>4. \/ Goto(t, "done")
          \/ th' = [th EXCEPT ![t].pc = "provision", ![t].seen = 0]
          \/ th' = [th EXCEPT ![t].pc = "count_creating",
                              ![t].seen = Cardinality(InState("running"))]
      BY <1>1 DEF CountRunning, CountCreating
    <3> QED  BY <3>1, <3>2, <3>3, <3>4 DEF Labels
  <2>2. UNCHANGED <<store, idle>>
    BY <1>1 DEF CountRunning, CountCreating, OnlyThread
  <2> QED  BY <1>0, <2>1, <2>2, WithinReach
<1>2. CASE Provision(t)
  <2>0. UNCHANGED store
    BY <1>2 DEF Provision
  <2>1. CASE Goto(t, "done") /\ UNCHANGED idle
    BY <1>0, <2>0, <2>1, WithinGoto DEF Labels
  <2>2. CASE GotoWith(t, "claim_wait", NewSession(t, Id(t))) /\ UNCHANGED idle
    <3>1. Carries(t, NewSession(t, Id(t))) /\ Refs(NewSession(t, Id(t))) \subseteq Reach(t)
      BY <1>0, <2>2, JumpCarries DEF Labels, NewSession, Refs
    <3> QED  BY <1>0, <2>0, <2>2, <3>1, WithinReach
  <2> QED  BY <1>2, <2>0, <2>1, <2>2 DEF Provision, Acquires, clusterVars
<1>3. CASE ClaimWait(t) \/ WaitReady(t)
  <2>1. UNCHANGED <<store, idle>>
    BY <1>3 DEF ClaimWait, WaitReady, OnlyThread
  <2>2. Carries(t, th[t].sess)
    BY <1>3, JumpCarries DEF ClaimWait, WaitReady, Goto, Labels
  <2> QED  BY <1>0, <2>1, <2>2, WithinReach
<1>4. CASE Persist(t)
  <2>1. Carries(t, th[t].sess)
    BY <1>4, JumpCarries DEF Persist, Goto, Labels
  <2>2. store' = store \/ store' = [store EXCEPT ![Id(t)] = th[t].sess]
    BY <1>4 DEF Persist
  <2> QED  BY <1>0, <1>4, <2>1, <2>2, WithinReach DEF Persist
<1>5. CASE MarkRunning(t)
  <2> DEFINE r == [th[t].sess EXCEPT !.state = "running"]
  <2>1. Carries(t, r)
    BY <1>5, JumpCarries DEF MarkRunning, Labels
  <2>2. store' = store \/ store' = [store EXCEPT ![Id(t)] = r]
    BY <1>5 DEF MarkRunning
  <2>3. Refs(r) \subseteq Reach(t)
    BY <1>0, RefsOfUpdate
  <2> QED  BY <1>0, <1>5, <2>1, <2>2, <2>3, WithinReach DEF MarkRunning
<1>6. CASE MarkDead(t)
  <2>1. Refs([th[t].sess EXCEPT !.state = "dead"]) \subseteq Reach(t)
    BY <1>0, RefsOfUpdate
  <2> QED  BY <1>0, <1>6, <2>1, WithinUpdate DEF MarkDead
<1> QED  BY <1>1, <1>2, <1>3, <1>4, <1>5, <1>6

\* Stop, Resume and Delete write back the references they read, whatever has
\* happened to the record since, plus the pod named after the session.
LEMMA WithinStopResumeDelete ==
    ASSUME IInv, NEW t \in Threads,
           \/ StopGet(t) \/ MarkStopped(t) \/ ResumeGet(t) \/ MarkCreating(t) \/ ResumeWait(t)
           \/ MarkResumed(t) \/ RestoreStopped(t) \/ DeleteStep(t)
    PROVE  Within(t)
<1>0. /\ Id(t) \in Ids /\ th[t].sess \in Session
      /\ Refs(th[t].sess) \subseteq Reach(t) /\ Refs(store[Id(t)]) \subseteq Reach(t)
      /\ Id(t) \in Reach(t)
  BY ThreadFacts DEF StopGet, MarkStopped, ResumeGet, MarkCreating, ResumeWait, MarkResumed,
     RestoreStopped, DeleteStep, DeleteGet, MarkDeleted, At, Id, Reach
<1>1. CASE StopGet(t) \/ ResumeGet(t) \/ DeleteGet(t)
  <2>1. UNCHANGED <<store, idle>>
    BY <1>1 DEF StopGet, ResumeGet, DeleteGet, OnlyThread
  <2>2. Carries(t, th[t].sess) \/ Carries(t, store[Id(t)])
    BY <1>1, JumpCarries DEF StopGet, ResumeGet, DeleteGet, Goto, Labels
  <2> QED  BY <1>0, <2>1, <2>2, WithinReach
<1>2. CASE ResumeWait(t)
  <2>1. Carries(t, th[t].sess)
    BY <1>2, JumpCarries DEF ResumeWait, Goto, Labels
  <2> QED  BY <1>0, <1>2, <2>1, WithinReach DEF ResumeWait, OnlyThread
<1>3. CASE MarkCreating(t)
  <2> DEFINE r == ResumedSession(t, "creating")
  <2>1. Carries(t, r)
    BY <1>3, JumpCarries DEF MarkCreating, Labels
  <2>2. store' = store \/ store' = [store EXCEPT ![Id(t)] = r]
    BY <1>3 DEF MarkCreating
  <2>3. Refs(r) \subseteq Refs(th[t].sess) \cup {Id(t)}
    BY <1>0 DEF ResumedSession, Refs, Session, AbsentSession
  <2> QED  BY <1>0, <1>3, <2>1, <2>2, <2>3, WithinReach DEF MarkCreating
<1>4. CASE MarkStopped(t) \/ MarkDeleted(t) \/ MarkResumed(t) \/ RestoreStopped(t)
  <2>1. /\ Refs([th[t].sess EXCEPT !.state = "stopped"]) \subseteq Reach(t)
        /\ Refs([th[t].sess EXCEPT !.state = "dead"]) \subseteq Reach(t)
        /\ Refs([th[t].sess EXCEPT !.pod = None, !.state = "stopped"]) \subseteq Reach(t)
    BY <1>0, RefsOfUpdate
  <2>2. Refs(ResumedSession(t, "running")) \subseteq Refs(th[t].sess) \cup {Id(t)}
    BY <1>0 DEF ResumedSession, Refs, Session, AbsentSession
  <2> QED  BY <1>0, <1>4, <2>1, <2>2, WithinUpdate DEF MarkStopped, MarkDeleted, MarkResumed, RestoreStopped
<1> QED  BY <1>1, <1>2, <1>3, <1>4 DEF DeleteStep

\* The pool refills with keys nobody refers to; the cluster owns nothing.
LEMMA OwnOthers ==
    ASSUME IInv, Owned, \/ ClusterActs \/ UNCHANGED vars
                        \/ \E k \in PoolKeys : PoolRefills(k)
    PROVE  Owned'
<1>1. CASE ClusterActs \/ UNCHANGED vars
  BY <1>1 DEF ClusterActs, vars, Owned, Id
<1>2. ASSUME NEW k \in PoolKeys, PoolRefills(k)
      PROVE  Owned'
  <2>1. /\ \A i \in Ids : k \notin Refs(store[i])
        /\ \A t \in Threads : k \notin Refs(th[t].sess)
        /\ idle' = idle \cup {k} /\ UNCHANGED <<store, th>>
    BY <1>2 DEF PoolRefills, Refs
  <2> QED  BY <2>1 DEF Owned, Id
<1> QED  BY <1>1, <1>2

\* What a goroutine does within its request reaches no farther than its own
\* references, its own name and, in Create, one warm sandbox.
LEMMA WithinProgress ==
    ASSUME IInv, NEW t \in Threads, LockSession(t) \/ Progress(t)
    PROVE  \/ Within(t) \/ \E k \in PoolKeys : Acquires(t, k)
           \/ Return(t)
BY WithinEnsure, WithinRequests, WithinCreate, WithinStopResumeDelete
   DEF Progress, CreateStep, StopStep, ResumeStep

\* A goroutine at work serves an id.
LEMMA WorkServes ==
    ASSUME IInv, NEW t \in Threads, LockSession(t) \/ Progress(t), ~ Return(t)
    PROVE  Id(t) \in Ids
<1>1. th[t].pc \notin {"idle", "done"}
  BY DEF LockSession, Progress, EnsureStep, EnsureGet, Forget, ClearGet,
     PurgeStep, PurgePod, PurgeSecret, PurgeClaim, CreateStep, CountRunning, CountCreating,
     Provision, ClaimWait, ClaimCreate, SecretCreate, PodCreate, RollbackSecret, RollbackClaim,
     Persist, WaitReady, MarkRunning, MarkDead, StopStep, StopGet, StopPod, StopSecret,
     MarkStopped, ResumeStep, ResumeGet, ResumeSecret, ResumePod, MarkCreating, ResumeWait,
     MarkResumed, RestoreStopped, DeleteStep, DeleteGet, MarkDeleted, At
<1> QED  BY <1>1, ThreadFacts DEF Id

\* A step of t leaves the registers of every other goroutine alone.
LEMMA OthersRest ==
    ASSUME IInv, NEW t \in Threads, LockSession(t) \/ Progress(t)
    PROVE  \A u \in Threads : u # t => th'[u] = th[u]
<1>1. CASE Within(t)
  BY <1>1 DEF Within
<1>2. ASSUME NEW k \in PoolKeys, Acquires(t, k)
      PROVE  \A u \in Threads : u # t => th'[u] = th[u]
  BY <1>2, JumpCarries DEF Acquires, Acquire, Carries, Labels
<1>3. CASE Return(t)
  BY <1>3 DEF Return, IInv, TypeOK
<1> QED  BY <1>1, <1>2, <1>3, WithinProgress

\* Every step keeps Owned.
LEMMA OwnNext ==
    ASSUME IInv, Owned, [Next]_vars
    PROVE  Owned'
<1>1. ASSUME NEW t \in Threads, LockSession(t) \/ Progress(t)
      PROVE  Owned'
  <2>1. CASE Return(t)
    BY <2>1, OwnOutside
  <2>2. CASE ~ Return(t)
    <3>1. Id(t) \in Ids
      BY <1>1, <2>2, WorkServes
    <3>2. Within(t) \/ \E k \in PoolKeys : Acquires(t, k)
      BY <1>1, <2>2, WithinProgress
    <3> QED  BY <3>1, <3>2, OwnStep, OwnAcquire
  <2> QED  BY <2>1, <2>2
<1> QED  BY <1>1, OwnOutside, OwnOthers DEF Next

\* Two sessions never own the same pod or workspace and no session owns what the
\* warm pool may still hand out: not even Stop, Resume, Delete and the cleanups
\* of Create, which write back clones that may be stale by any number of steps.
THEOREM SandboxesAreOwned == Spec => []NoSharedSandbox
<1>1. Init => IInv /\ Owned
  BY InitOK, OwnInit
<1>2. IInv /\ Owned /\ [Next]_vars => IInv' /\ Owned'
  BY StepOK, OwnNext
<1>3. IInv /\ Owned => NoSharedSandbox
  <2>1. IInv => None \notin idle
    BY NoneIsNoKey, KeysAssumption DEF IInv, TypeOK
  <2>2. SUFFICES ASSUME IInv, Owned PROVE NoSharedSandbox
    OBVIOUS
  <2>3. \A i, j \in Ids : i # j =>
          {store[i].pod, store[i].pvc} \cap {store[j].pod, store[j].pvc} \subseteq {None}
    BY <2>2 DEF Owned, Refs
  <2>4. \A i \in Ids : {store[i].pod, store[i].pvc} \cap idle = {}
    BY <2>1, <2>2 DEF Owned, Refs
  <2> QED  BY <2>3, <2>4 DEF NoSharedSandbox
<1> QED  BY <1>1, <1>2, <1>3, PTL DEF Spec

-----------------------------------------------------------------------------
(* Who mounts a workspace.                                                 *)
(*                                                                         *)
(* A pod is named after the session it serves or after the warm sandbox it *)
(* was, and it mounts the workspace of its own name - except that a        *)
(* session that came from the pool mounts, once resumed, the workspace of  *)
(* a warm sandbox.  Retired says that the warm pod is gone by then, for    *)
(* the record and for every stale clone that could still be written back;  *)
(* Mounts says that nobody else refers to a workspace mounted that way.    *)

\* In the pods ps, the warm pod that s took its workspace from is gone.
GoneIn(ps, s) == s.pvc \in PoolKeys => ps[s.pvc].phase \notin {"starting", "ready"}

\* A record whose pod has been stopped, or replaced by one of another name.
Aside(s) == s.state = "stopped" \/ s.pod # s.pvc

\* Labels that are reached only once the pod in sess has been deleted, or
\* because the record read from the store was stopped.
GoneAt == {"resume_secret", "resume_pod", "mark_creating",
           "resume_wait", "mark_resumed", "stop_secret", "mark_stopped", "restore_stopped"}

\* What goroutine r holds is the record of a sandbox without its warm pod.
Retiring(r) == \/ Aside(r.sess) \/ r.pc \in GoneAt
               \/ r.pc = "stop_pod" /\ r.then = "restore_stopped"

Retired ==
    /\ \A i \in Ids : Aside(store[i]) => GoneIn(pods, store[i])
    /\ \A t \in Threads : Retiring(th[t]) => GoneIn(pods, th[t].sess)

\* Nobody but session i refers to key k, and the warm pod of that name is gone.
HeldBy(i, k) ==
    /\ k \notin idle
    /\ ~ PodAlive(k)
    /\ \A j \in Ids : j # i => pods[j].claim # k /\ k \notin Refs(store[j])
    /\ \A t \in Threads : Id(t) # i => k \notin Refs(th[t].sess)

Mounts ==
    /\ \A k \in Keys : PodAlive(k) => pods[k].claim # None
    /\ \A k \in PoolKeys : pods[k].claim \in {k, None}
    /\ \A i \in Ids : pods[i].claim \in {i, None} \cup PoolKeys
    /\ \A i \in Ids : pods[i].claim \in PoolKeys => HeldBy(i, pods[i].claim)

\* What a step of t may do to the pods: delete any of them, or create the one
\* named after its session, on the session's own workspace or on that of a warm
\* sandbox whose pod is gone.
PodsWithin(t) ==
    \A k \in Keys :
        \/ pods'[k].claim = pods[k].claim /\ (PodAlive(k)' => PodAlive(k))
        \/ /\ k = Id(t)
           /\ \/ pods'[k].claim = k
              \/ /\ pods'[k].claim = th[t].sess.pvc
                 /\ th[t].sess.pvc \in Keys /\ GoneIn(pods, th[t].sess)

-----------------------------------------------------------------------------
(* Lemmas about pods.                                                      *)

\* A step of t brings no warm pod back.
LEMMA NoRevival ==
    ASSUME IInv, NEW t \in Threads, Id(t) \in Ids, PodsWithin(t)
    PROVE  /\ \A k \in PoolKeys : PodAlive(k)' => PodAlive(k)
           /\ \A k \in Keys \ {Id(t)} : pods'[k].claim = pods[k].claim
           /\ \A s : GoneIn(pods, s) => GoneIn(pods', s)
<1>1. /\ \A k \in PoolKeys : PodAlive(k)' => PodAlive(k)
      /\ \A k \in Keys \ {Id(t)} : pods'[k].claim = pods[k].claim
  BY KeysAssumption DEF PodsWithin
<1> QED  BY <1>1 DEF GoneIn, PodAlive

\* The requests of the runtime are such steps.
LEMMA EffectsWithin ==
    ASSUME IInv, NEW t \in Threads, Id(t) \in Ids, NEW k \in Keys,
           \/ UNCHANGED pods \/ DeletePod(k) \/ CreatePodMounting(Id(t), Id(t))
           \/ /\ CreatePodMounting(Id(t), th[t].sess.pvc)
              /\ th[t].sess.pvc \in Keys /\ GoneIn(pods, th[t].sess)
    PROVE  PodsWithin(t)
<1>0. pods \in [Keys -> [phase : PodPhases, claim : Keys \cup {None}]] /\ Id(t) \in Keys
  BY KeysAssumption DEF IInv, TypeOK, ClusterTypeOK
<1>1. CASE UNCHANGED pods
  BY <1>1 DEF PodsWithin, PodAlive
<1>2. CASE DeletePod(k)
  BY <1>0, <1>2 DEF PodsWithin, PodAlive, DeletePod
<1>3. CASE CreatePodMounting(Id(t), Id(t))
  BY <1>0, <1>3 DEF PodsWithin, PodAlive, CreatePodMounting
<1>4. CASE /\ CreatePodMounting(Id(t), th[t].sess.pvc)
           /\ th[t].sess.pvc \in Keys /\ GoneIn(pods, th[t].sess)
  BY <1>0, <1>4 DEF PodsWithin, PodAlive, CreatePodMounting
<1> QED  BY <1>1, <1>2, <1>3, <1>4

-----------------------------------------------------------------------------
(* Mounts: the shapes of step that keep it.                                *)

\* A step within its reach mounts nothing that another session holds.
LEMMA MountsStep ==
    ASSUME IInv, Owned, Mounts, NEW t \in Threads, Id(t) \in Ids, Within(t), PodsWithin(t)
    PROVE  Mounts'
<1> DEFINE a == Id(t)
<1>0. /\ a \in Keys /\ a \notin PoolKeys /\ a # None /\ None \notin PoolKeys
      /\ Ids \subseteq Keys /\ PoolKeys \subseteq Keys
  BY KeysAssumption, NoneIsNoKey
<1>1. /\ \A k \in PoolKeys : PodAlive(k)' => PodAlive(k)
      /\ \A k \in Keys \ {a} : pods'[k].claim = pods[k].claim
  BY NoRevival
<1>2. \A k \in Keys : PodAlive(k)' => pods'[k].claim # None
  BY <1>0, NoneIsNoKey DEF Mounts, PodsWithin
<1>3. \A k \in PoolKeys : pods'[k].claim \in {k, None}
  BY <1>0, <1>1 DEF Mounts
<1>4. th[t].sess.pvc # None => th[t].sess.pvc \in Refs(th[t].sess)
  BY DEF Refs
<1>5. \A i \in Ids : pods'[i].claim \in {i, None} \cup PoolKeys
  <2>1. th[t].sess.pvc \in {a, None} \cup PoolKeys
    BY <1>4 DEF Owned
  <2> QED  BY <1>0, <1>1, <2>1 DEF Mounts, PodsWithin
<1>6. ASSUME NEW i \in Ids, NEW p \in PoolKeys, pods'[i].claim = p
      PROVE  HeldBy(i, p)'
  <2>1. CASE i # a
    <3>1. pods[i].claim = p /\ HeldBy(i, p)
      BY <1>0, <1>1, <1>6, <2>1 DEF Mounts
    <3>2. p \notin Reach(t)
      BY <1>0, <1>6, <2>1, <3>1 DEF HeldBy, Reach
    <3>3. p \notin idle' /\ ~ PodAlive(p)'
      BY <1>1, <1>6, <3>1 DEF HeldBy, Within, PodAlive
    <3>4. \A j \in Ids : j # i => pods'[j].claim # p
      <4>1. pods'[a].claim # p
        BY <1>0, <1>4, <1>6, <2>1, <3>1, <3>2 DEF PodsWithin, HeldBy, Reach
      <4> QED  BY <1>0, <1>1, <3>1, <4>1 DEF HeldBy
    <3>5. \A j \in Ids : j # i => p \notin Refs(store'[j])
      BY <3>1, <3>2 DEF HeldBy, Within
    <3>6. \A u \in Threads : th'[u].id # i => p \notin Refs(th'[u].sess)
      BY <3>1, <3>2 DEF HeldBy, Within, Id
    <3> QED  BY <3>3, <3>4, <3>5, <3>6 DEF HeldBy, PodAlive, Id
  <2>2. CASE i = a
    <3>1. HeldBy(i, p)
      <4>1. CASE pods'[i].claim = pods[i].claim
        BY <1>6, <4>1 DEF Mounts
      <4>2. CASE pods'[i].claim # pods[i].claim
        <5>1. p = th[t].sess.pvc /\ GoneIn(pods, th[t].sess)
          BY <1>0, <1>6, <2>2, <4>2 DEF PodsWithin
        <5>2. p \in Refs(th[t].sess) /\ ~ PodAlive(p)
          BY <1>0, <1>4, <1>6, <5>1 DEF GoneIn, PodAlive
        <5>3. \A j \in Ids : j # i => pods[j].claim # p
          BY <1>6, <2>2, <5>2 DEF Mounts, HeldBy
        <5> QED  BY <2>2, <5>2, <5>3 DEF Owned, HeldBy
      <4> QED  BY <4>1, <4>2
    <3>2. p \notin idle' /\ ~ PodAlive(p)'
      BY <1>1, <1>6, <3>1 DEF HeldBy, Within, PodAlive
    <3>3. \A j \in Ids : j # i => pods'[j].claim # p /\ p \notin Refs(store'[j])
      BY <1>0, <1>1, <2>2, <3>1 DEF HeldBy, Within
    <3>4. \A u \in Threads : th'[u].id # i => p \notin Refs(th'[u].sess)
      BY <2>2, <3>1 DEF HeldBy, Within, Id
    <3> QED  BY <3>2, <3>3, <3>4 DEF HeldBy, PodAlive, Id
  <2> QED  BY <2>1, <2>2
<1> QED  BY <1>2, <1>3, <1>5, <1>6 DEF Mounts, PodAlive

\* Taking a warm sandbox keeps it too: nobody mounts what is in the pool.
LEMMA MountsAcquire ==
    ASSUME IInv, Owned, Mounts, NEW t \in Threads, Id(t) \in Ids, NEW k \in PoolKeys,
           Acquires(t, k), UNCHANGED pods
    PROVE  Mounts'
<1>1. Carries(t, NewSession(t, k)) /\ Refs(NewSession(t, k)) \subseteq {k}
  BY JumpCarries DEF Acquires, Acquire, Labels, NewSession, Refs
<1>2. /\ \A u \in Threads : u # t => th'[u] = th[u]
      /\ \/ th'[t].id = th[t].id /\ Refs(th'[t].sess) \subseteq {k}
         \/ Refs(th'[t].sess) = {}
  BY <1>1, AbsentRefs DEF Carries
<1>3. k \in idle /\ idle' \subseteq idle /\ UNCHANGED store
  BY DEF Acquires, Acquire
<1>4. ASSUME NEW i \in Ids, NEW p \in PoolKeys, pods[i].claim = p
      PROVE  HeldBy(i, p)'
  <2>1. HeldBy(i, p) /\ p # k
    BY <1>3, <1>4 DEF Mounts, HeldBy
  <2>2. \A u \in Threads : th'[u].id # i => p \notin Refs(th'[u].sess)
    BY <1>2, <2>1 DEF HeldBy, Id
  <2> QED  BY <1>3, <2>1, <2>2 DEF HeldBy, PodAlive, Id
<1> QED  BY <1>4 DEF Mounts, PodAlive

\* Arrivals, cancellations and returns.
LEMMA MountsOutside ==
    ASSUME IInv, Mounts, NEW t \in Threads, UNCHANGED <<store, idle, pods>>,
           \A u \in Threads : \/ th'[u].id = th[u].id /\ th'[u].sess = th[u].sess
                              \/ Refs(th'[u].sess) = {}
    PROVE  Mounts'
<1>1. ASSUME NEW i \in Ids, NEW p \in PoolKeys, pods[i].claim = p
      PROVE  HeldBy(i, p)'
  BY <1>1 DEF Mounts, HeldBy, PodAlive, Id
<1> QED  BY <1>1 DEF Mounts, PodAlive

\* The cluster and the pool.
LEMMA MountsOthers ==
    ASSUME IInv, Mounts, \/ ClusterActs \/ UNCHANGED vars
                         \/ \E k \in PoolKeys : PoolRefills(k)
    PROVE  Mounts'
<1>0. /\ pods \in [Keys -> [phase : PodPhases, claim : Keys \cup {None}]]
      /\ Ids \subseteq Keys /\ PoolKeys \subseteq Keys /\ None \notin Keys
      /\ Ids \cap PoolKeys = {}
  BY KeysAssumption, NoneIsNoKey DEF IInv, TypeOK, ClusterTypeOK
<1>1. CASE ClusterActs \/ UNCHANGED vars
  <2>1. /\ UNCHANGED <<store, idle, th>>
        /\ \A k \in Keys : /\ pods'[k].claim \in {pods[k].claim, None}
                           /\ PodAlive(k)' => PodAlive(k) /\ pods'[k].claim = pods[k].claim
    <3>1. CASE UNCHANGED vars
      BY <3>1 DEF vars, PodAlive
    <3>2. ASSUME NEW l \in Keys, PodBecomesReady(l) \/ PodTerminates(l) \/ ClaimIsReleased(l)
          PROVE  \A k \in Keys : /\ pods'[k].claim \in {pods[k].claim, None}
                                 /\ PodAlive(k)' => PodAlive(k) /\ pods'[k].claim = pods[k].claim
      BY <1>0, <3>2 DEF PodBecomesReady, PodTerminates, ClaimIsReleased, PodAlive, NoPod
    <3> QED  BY <1>1, <3>1, <3>2 DEF ClusterActs, ClusterStep
  <2>2. ASSUME NEW i \in Ids, NEW p \in PoolKeys, pods'[i].claim = p
        PROVE  HeldBy(i, p)'
    <3>1. pods[i].claim = p /\ HeldBy(i, p)
      BY <1>0, <2>1, <2>2 DEF Mounts
    <3>2. ~ PodAlive(p)'
      BY <1>0, <2>1, <2>2, <3>1 DEF HeldBy
    <3>3. \A j \in Ids : j # i => pods'[j].claim # p
      BY <1>0, <2>1, <2>2, <3>1 DEF HeldBy
    <3> QED  BY <2>1, <3>1, <3>2, <3>3 DEF HeldBy, Id
  <2>3. /\ \A k \in Keys : PodAlive(k)' => pods'[k].claim # None
        /\ \A k \in PoolKeys : pods'[k].claim \in {k, None}
        /\ \A i \in Ids : pods'[i].claim \in {i, None} \cup PoolKeys
    BY <1>0, <2>1 DEF Mounts
  <2> QED  BY <2>2, <2>3 DEF Mounts
<1>2. ASSUME NEW k \in PoolKeys, PoolRefills(k)
      PROVE  Mounts'
  <2>1. /\ UNCHANGED <<store, th>> /\ idle' = idle \cup {k}
        /\ pods' = [pods EXCEPT ![k] = [phase |-> "ready", claim |-> k]]
        /\ \A l \in Keys : pods[l].claim # k
    BY <1>2 DEF PoolRefills, Leftovers, Mounted
  <2>2. pods'[k] = [phase |-> "ready", claim |-> k] /\ \A l \in Keys \ {k} : pods'[l] = pods[l]
    BY <1>0, <2>1
  <2>3. ASSUME NEW i \in Ids, NEW p \in PoolKeys, pods'[i].claim = p
        PROVE  HeldBy(i, p)'
    <3>1. pods[i].claim = p /\ HeldBy(i, p) /\ p # k
      BY <1>0, <2>1, <2>2, <2>3 DEF Mounts
    <3>2. ~ PodAlive(p)'
      BY <1>0, <2>2, <2>3, <3>1 DEF PodAlive, HeldBy
    <3> QED  BY <1>0, <2>1, <2>2, <3>1, <3>2 DEF HeldBy, Id
  <2>4. /\ \A l \in Keys : PodAlive(l)' => pods'[l].claim # None
        /\ \A l \in PoolKeys : pods'[l].claim \in {l, None}
        /\ \A i \in Ids : pods'[i].claim \in {i, None} \cup PoolKeys
    BY <1>0, <2>2 DEF Mounts, PodAlive
  <2> QED  BY <2>3, <2>4 DEF Mounts
<1> QED  BY <1>1, <1>2

-----------------------------------------------------------------------------
(* What a step of a goroutine does to the pods.                            *)

\* Only Resume names a pod after one key and mounts the workspace of another,
\* and only once the record it read was stopped.
LEMMA ThreadPods ==
    ASSUME IInv, Retired, NEW t \in Threads, LockSession(t) \/ Progress(t), ~ Return(t)
    PROVE  PodsWithin(t)
<1>0. Id(t) \in Ids /\ Id(t) \in Keys
  BY WorkServes, KeysAssumption
<1>1. CASE UNCHANGED pods
  BY <1>0, <1>1, EffectsWithin
<1>2. CASE PurgePod(t) \/ StopPod(t)
  <2>1. th[t].sess \in Session /\ (StopPod(t) => th[t].sess.pod # None)
    BY ThreadFacts DEF StopPod, At, Fits, NamedAt
  <2>2. UNCHANGED pods \/ (DeletePod(th[t].sess.pod) /\ th[t].sess.pod # None)
    BY <1>2, <2>1 DEF PurgePod, StopPod, Request, Refused, clusterVars
  <2>3. th[t].sess.pod # None => th[t].sess.pod \in Keys
    BY <2>1, NamedRecord
  <2> QED  BY <1>0, <2>2, <2>3, EffectsWithin
<1>3. CASE PodCreate(t)
  <2>1. UNCHANGED pods \/ CreatePodMounting(Id(t), Id(t))
    BY <1>3 DEF PodCreate, Request, Refused, clusterVars
  <2> QED  BY <1>0, <2>1, EffectsWithin
<1>4. CASE ResumePod(t)
  <2>1. th[t].sess.pvc \in Keys
    BY <1>4, ThreadFacts, TrackedRecord DEF ResumePod, At, Fits, ResumeAt
  <2>2. GoneIn(pods, th[t].sess)
    BY <1>4 DEF Retired, Retiring, GoneAt, ResumePod, At
  <2>3. UNCHANGED pods \/ CreatePodMounting(Id(t), th[t].sess.pvc)
    BY <1>4 DEF ResumePod, Request, Refused, clusterVars
  <2> QED  BY <1>0, <2>1, <2>2, <2>3, EffectsWithin
<1>5. PurgeSecret(t) \/ PurgeClaim(t) \/ StopSecret(t) => UNCHANGED pods
  BY DEF PurgeSecret, PurgeClaim, StopSecret, Request, DeleteSecret, DeleteClaim, clusterVars
<1>6. ClaimCreate(t) \/ SecretCreate(t) \/ RollbackSecret(t) \/ RollbackClaim(t) \/ ResumeSecret(t)
        => UNCHANGED pods
  BY DEF ClaimCreate, SecretCreate, RollbackSecret, RollbackClaim, ResumeSecret, Request, Refused,
     CreateClaim, CreateSecretObject, DeleteSecret, DeleteClaim, clusterVars
<1>7. LockSession(t) \/ EnsureStep(t) \/ DeleteStep(t) \/ StopGet(t) \/ MarkStopped(t) => UNCHANGED pods
  BY DEF LockSession, EnsureStep, EnsureGet, ClearGet, Forget, DeleteStep, DeleteGet, MarkDeleted,
     StopGet, MarkStopped, UpdateAndFinish, OnlyThread, clusterVars
<1>8. CountRunning(t) \/ CountCreating(t) \/ Provision(t) \/ ClaimWait(t) \/ Persist(t)
        \/ WaitReady(t) \/ MarkRunning(t) \/ MarkDead(t) => UNCHANGED pods
  BY DEF CountRunning, CountCreating, Provision, ClaimWait, Persist, WaitReady, MarkRunning,
     MarkDead, UpdateAndFinish, OnlyThread, clusterVars
<1>9. ResumeGet(t) \/ MarkCreating(t) \/ ResumeWait(t) \/ MarkResumed(t) \/ RestoreStopped(t)
        => UNCHANGED pods
  BY DEF ResumeGet, MarkCreating, ResumeWait, MarkResumed, RestoreStopped, UpdateAndFinish,
     OnlyThread, clusterVars
<1> QED
  BY <1>1, <1>2, <1>3, <1>4, <1>5, <1>6, <1>7, <1>8, <1>9
     DEF Progress, PurgeStep, CreateStep, StopStep, ResumeStep

-----------------------------------------------------------------------------
(* Retired: the shapes of step that keep it.                               *)

\* A warm pod that is gone stays gone.
StayGone == \A s : GoneIn(pods, s) => GoneIn(pods', s)

\* What t holds after a step, and the record it has written, refer to warm
\* pods that are gone wherever Retired requires it.
ClonesGone(t) == Retiring(th'[t]) => GoneIn(pods', th'[t].sess)
RecordsGone == \A i \in Ids : \/ store'[i] = store[i]
                              \/ Aside(store'[i]) => GoneIn(pods', store'[i])

\* A step of t that brings no warm pod back keeps Retired if it does so for t.
LEMMA RetiredStep ==
    ASSUME Retired, NEW t \in Threads, StayGone,
           \A u \in Threads : u # t => th'[u] = th[u], ClonesGone(t), RecordsGone
    PROVE  Retired'
BY DEF Retired, ClonesGone, RecordsGone, StayGone

\* A jump or call that carries s: at a label that promises nothing, only a
\* record that is itself set aside needs its warm pod gone.
LEMMA JumpGone ==
    ASSUME IInv, NEW t \in Threads, NEW label \in Labels, NEW s, NEW ret,
           \/ GotoWith(t, label, s) /\ label # "stop_pod"
           \/ CallRuntime(t, label, s, ret),
           GoneIn(pods', s) \/ (~ Aside(s) /\ label \notin GoneAt
                                /\ (label = "stop_pod" => ret # "restore_stopped"))
    PROVE  ClonesGone(t)
<1>0. th \in [Threads -> Thread] /\ None \notin PoolKeys
  BY KeysAssumption, NoneIsNoKey DEF IInv, TypeOK
<1>1. GoneIn(pods', AbsentSession)
  BY <1>0 DEF GoneIn, AbsentSession
<1>2. CASE GotoWith(t, label, s) /\ label = "done"
  <2>1. th'[t].sess = AbsentSession
    BY <1>0, <1>2 DEF GotoWith, FinishedThread, IdleThread
  <2> QED  BY <1>1, <2>1 DEF ClonesGone
<1>3. CASE GotoWith(t, label, s) /\ label # "done" /\ label # "stop_pod"
  <2>1. th'[t].sess = s /\ th'[t].pc = label
    BY <1>0, <1>3 DEF GotoWith, Thread
  <2> QED  BY <1>3, <2>1 DEF ClonesGone, Retiring
<1>4. CASE CallRuntime(t, label, s, ret)
  <2>1. th'[t].sess = s /\ th'[t].pc = label /\ th'[t].then = ret
    BY <1>0, <1>4 DEF CallRuntime, Thread
  <2> QED  BY <2>1 DEF ClonesGone, Retiring
<1> QED  BY <1>2, <1>3, <1>4

\* A plain jump to a label that promises nothing, or from one that promised it.
LEMMA GotoGone ==
    ASSUME IInv, Retired, NEW t \in Threads, NEW label \in Labels, Goto(t, label),
           StayGone, label # "stop_pod",
           label \in GoneAt => Retiring(th[t]) \/ GoneIn(pods', th[t].sess)
    PROVE  ClonesGone(t)
<1>1. GoneIn(pods', th[t].sess) \/ (~ Aside(th[t].sess) /\ label \notin GoneAt)
  BY DEF Retired, Retiring, StayGone
<1> QED  BY <1>1, JumpGone DEF Goto

\* A call of Runtime.Purge, with the record of the store or the clone at hand.
LEMMA PurgeGone ==
    ASSUME IInv, Retired, NEW t \in Threads, NEW s, NEW ret,
           CallRuntime(t, "purge_pod", s, ret),
           StayGone, Aside(s) => GoneIn(pods, s)
    PROVE  ClonesGone(t)
<1>1. GoneIn(pods', s) \/ (~ Aside(s) /\ "purge_pod" \notin GoneAt)
  BY DEF GoneAt, StayGone
<1> QED  BY <1>1, JumpGone DEF Labels

-----------------------------------------------------------------------------
(* Retired, one lemma per kind of step of a goroutine.                     *)

\* EnsureSession, Clear, purgeAndForget and the lock.
LEMMA RetiredEnsure ==
    ASSUME IInv, Retired, StayGone, NEW t \in Threads, LockSession(t) \/ EnsureStep(t)
    PROVE  ClonesGone(t) /\ RecordsGone
<1>0. Id(t) \in Ids /\ None \notin PoolKeys /\ store \in [Ids -> Session]
  BY ThreadFacts, KeysAssumption, NoneIsNoKey
     DEF LockSession, EnsureStep, EnsureGet, ClearGet, Forget, At, Id, IInv, TypeOK
<1>1. Aside(store[Id(t)]) => GoneIn(pods, store[Id(t)])
  BY <1>0 DEF Retired
<1>2. GoneIn(pods', AbsentSession)
  BY <1>0 DEF GoneIn, AbsentSession
<1>3. CASE LockSession(t)
  <2>1. UNCHANGED store /\ \E label \in {"ensure_get", "clear_get"} : Goto(t, label)
    BY <1>3 DEF LockSession, AfterLock
  <2> QED  BY <2>1, GotoGone DEF RecordsGone, Labels, GoneAt
<1>4. CASE EnsureGet(t) \/ ClearGet(t)
  <2>1. UNCHANGED store
    BY <1>4 DEF EnsureGet, ClearGet, OnlyThread
  <2>2. \/ \E label \in {"count_running", "done", "resume_get"} : Goto(t, label)
        \/ CallRuntime(t, "purge_pod", store[Id(t)], "forget")
    BY <1>4 DEF EnsureGet, ClearGet
  <2>3. CASE \E label \in {"count_running", "done", "resume_get"} : Goto(t, label)
    BY <2>1, <2>3, GotoGone DEF RecordsGone, Labels, GoneAt
  <2> QED  BY <1>1, <2>1, <2>2, <2>3, PurgeGone DEF RecordsGone
<1>5. CASE Forget(t)
  <2>1. ClonesGone(t)
    BY <1>2, <1>5, JumpGone DEF Forget, Labels
  <2>2. RecordsGone
    BY <1>0, <1>2, <1>5 DEF Forget, RecordsGone
  <2> QED  BY <2>1, <2>2
<1> QED  BY <1>3, <1>4, <1>5 DEF EnsureStep

\* Runtime.Purge, and the requests of Create: none leads to a label that
\* promises anything.
LEMMA RetiredRequests ==
    ASSUME IInv, Retired, StayGone, NEW t \in Threads,
           \/ PurgeStep(t) \/ ClaimCreate(t) \/ SecretCreate(t) \/ PodCreate(t)
           \/ RollbackSecret(t) \/ RollbackClaim(t)
    PROVE  ClonesGone(t) /\ RecordsGone
<1>0. UNCHANGED store
  BY DEF PurgeStep, PurgePod, PurgeSecret, PurgeClaim, ClaimCreate, SecretCreate, PodCreate,
     RollbackSecret, RollbackClaim, StoreUnchanged
<1>1. CASE PurgeStep(t)
  <2>1. th[t].then \in {"forget", "done", "mark_dead", "mark_deleted"}
    BY <1>1, ThreadFacts DEF PurgeStep, PurgePod, PurgeSecret, PurgeClaim, At, Fits, PurgeAt
  <2>2. \E label \in {"purge_secret", "purge_claim", th[t].then, AfterFailedPurge(t)} :
            Goto(t, label)
    BY <1>1 DEF PurgeStep, PurgePod, PurgeSecret, PurgeClaim, Request, Refused
  <2>3. \E label \in Labels \ (GoneAt \cup {"stop_pod"}) : Goto(t, label)
    BY <2>1, <2>2 DEF AfterFailedPurge, Labels, GoneAt
  <2> QED  BY <1>0, <2>3, GotoGone DEF RecordsGone
<1>2. CASE ClaimCreate(t) \/ SecretCreate(t) \/ PodCreate(t)
  <2>1. \E label \in {"secret_create", "pod_create", "persist", "rollback_secret", "done"} :
            Goto(t, label)
    BY <1>2 DEF ClaimCreate, SecretCreate, PodCreate, Request, Refused
  <2>2. \E label \in Labels \ (GoneAt \cup {"stop_pod"}) : Goto(t, label)
    BY <2>1 DEF Labels, GoneAt
  <2> QED  BY <1>0, <2>2, GotoGone DEF RecordsGone
<1>3. CASE RollbackSecret(t) \/ RollbackClaim(t)
  <2>1. \E label \in {"rollback_claim", "done"} : Goto(t, label)
    BY <1>3 DEF RollbackSecret, RollbackClaim, Request
  <2>2. \E label \in Labels \ (GoneAt \cup {"stop_pod"}) : Goto(t, label)
    BY <2>1 DEF Labels, GoneAt
  <2> QED  BY <1>0, <2>2, GotoGone DEF RecordsGone
<1> QED  BY <1>1, <1>2, <1>3

\* The rest of Create.  What it provisions is not set aside.
LEMMA RetiredCreate ==
    ASSUME IInv, Retired, StayGone, NEW t \in Threads,
           \/ CountRunning(t) \/ CountCreating(t) \/ Provision(t) \/ ClaimWait(t)
           \/ Persist(t) \/ WaitReady(t) \/ MarkRunning(t) \/ MarkDead(t)
    PROVE  ClonesGone(t) /\ RecordsGone
<1>0. /\ th[t].sess \in Session /\ th \in [Threads -> Thread]
      /\ Aside(th[t].sess) => GoneIn(pods, th[t].sess)
      /\ th[t].sess.pod # None => th[t].sess # AbsentSession
  BY ThreadFacts DEF Retired, Retiring, IInv, TypeOK, AbsentSession
<1>1. ASSUME NEW label \in Labels \ (GoneAt \cup {"stop_pod"}), Goto(t, label), UNCHANGED store
      PROVE  ClonesGone(t) /\ RecordsGone
  BY <1>1, GotoGone DEF RecordsGone
<1>2. CASE CountRunning(t) \/ CountCreating(t)
  <2>0. UNCHANGED store
    BY <1>2 DEF CountRunning, CountCreating, OnlyThread
  <2>1. CASE Goto(t, "done")
    BY <1>1, <2>0, <2>1 DEF Labels, GoneAt
  <2>2. CASE \E label \in {"count_creating", "provision"} : \E n :
               th' = [th EXCEPT ![t].pc = label, ![t].seen = n]
    <3>1. th'[t].sess = th[t].sess /\ th'[t].pc \in {"count_creating", "provision"}
      BY <1>0, <2>2 DEF Thread
    <3>2. ClonesGone(t)
      BY <1>0, <3>1 DEF ClonesGone, Retiring, GoneAt, StayGone
    <3> QED  BY <2>0, <3>2 DEF RecordsGone
  <2>3. \/ Goto(t, "done")
        \/ th' = [th EXCEPT ![t].pc = "provision", ![t].seen = 0]
        \/ th' = [th EXCEPT ![t].pc = "count_creating",
                            ![t].seen = Cardinality(InState("running"))]
    BY <1>2 DEF CountRunning, CountCreating
  <2> QED  BY <2>1, <2>2, <2>3
<1>3. CASE Provision(t)
  <2>0. UNCHANGED store
    BY <1>3 DEF Provision
  <2>1. CASE Goto(t, "done")
    BY <1>1, <2>0, <2>1 DEF Labels, GoneAt
  <2>2. ASSUME NEW k, NEW label \in {"persist", "claim_wait"}, GotoWith(t, label, NewSession(t, k))
        PROVE  ClonesGone(t) /\ RecordsGone
    <3>1. ~ Aside(NewSession(t, k))
      BY DEF Aside, NewSession
    <3> QED  BY <2>0, <2>2, <3>1, JumpGone DEF RecordsGone, Labels, GoneAt
  <2> QED  BY <1>3, <2>1, <2>2 DEF Provision, Acquire
<1>4. CASE ClaimWait(t)
  <2>1. Goto(t, "claim_create") \/ Goto(t, "done")
    BY <1>4 DEF ClaimWait
  <2>2. UNCHANGED store
    BY <1>4 DEF ClaimWait, OnlyThread
  <2> QED  BY <1>1, <2>1, <2>2 DEF Labels, GoneAt
<1>5. CASE WaitReady(t)
  <2>1. UNCHANGED store
    BY <1>5 DEF WaitReady, OnlyThread
  <2>2. Goto(t, "mark_running") \/ CallRuntime(t, "purge_pod", th[t].sess, "mark_dead")
    BY <1>5 DEF WaitReady
  <2>3. "mark_running" \in Labels \ (GoneAt \cup {"stop_pod"})
    BY DEF Labels, GoneAt
  <2> QED  BY <1>0, <1>1, <2>1, <2>2, <2>3, PurgeGone DEF RecordsGone
<1>6. CASE Persist(t)
  <2>1. ClonesGone(t)
    <3>1. Goto(t, "wait_ready") \/ CallRuntime(t, "purge_pod", th[t].sess, "done")
      BY <1>6 DEF Persist
    <3>2. "wait_ready" \in Labels /\ "wait_ready" \notin GoneAt
      BY DEF Labels, GoneAt
    <3> QED  BY <1>0, <3>1, <3>2, GotoGone, PurgeGone
  <2>2. store' = store \/ store' = [store EXCEPT ![Id(t)] = th[t].sess]
    BY <1>6 DEF Persist
  <2> QED  BY <1>0, <2>1, <2>2 DEF RecordsGone, StayGone, IInv, TypeOK
<1>7. CASE MarkRunning(t)
  <2> DEFINE r == [th[t].sess EXCEPT !.state = "running"]
  <2>1. Aside(r) => GoneIn(pods, r)
    <3>1. th[t].sess # AbsentSession
      BY <1>0, <1>7, ThreadFacts DEF MarkRunning, At, Fits, NamedAt
    <3>2. r.pod = th[t].sess.pod /\ r.pvc = th[t].sess.pvc /\ r.state = "running"
      BY <1>0, <3>1, TrackedRecord
    <3> QED  BY <1>0, <3>2 DEF Aside, GoneIn
  <2>2. \/ GotoWith(t, "done", r)
        \/ CallRuntime(t, "purge_pod", r, "mark_dead")
    BY <1>7 DEF MarkRunning
  <2>3. store' = store \/ store' = [store EXCEPT ![Id(t)] = r]
    BY <1>7 DEF MarkRunning
  <2> HIDE DEF r
  <2>4. ClonesGone(t)
    BY <2>1, <2>2, JumpGone, PurgeGone DEF Labels, GoneAt, StayGone
  <2> QED  BY <2>1, <2>3, <2>4 DEF RecordsGone, StayGone, IInv, TypeOK
<1>8. CASE MarkDead(t)
  <2> DEFINE r == [th[t].sess EXCEPT !.state = "dead"]
  <2>1. Aside(r) => GoneIn(pods, r)
    <3>1. th[t].sess # AbsentSession
      BY <1>0, <1>8, ThreadFacts DEF MarkDead, At, Fits, NamedAt
    <3>2. r.pod = th[t].sess.pod /\ r.pvc = th[t].sess.pvc /\ r.state = "dead"
      BY <1>0, <3>1, TrackedRecord
    <3> QED  BY <1>0, <3>2 DEF Aside, GoneIn
  <2>2. Goto(t, "done") /\ (store' = store \/ store' = [store EXCEPT ![Id(t)] = r])
    BY <1>8 DEF MarkDead, UpdateAndFinish
  <2> HIDE DEF r
  <2>3. ClonesGone(t)
    BY <2>2, GotoGone DEF Labels, GoneAt
  <2> QED  BY <2>1, <2>2, <2>3 DEF RecordsGone, StayGone, IInv, TypeOK
<1> QED  BY <1>2, <1>3, <1>4, <1>5, <1>6, <1>7, <1>8

\* Stop.  A record becomes stopped only after its pod has been deleted.
LEMMA RetiredStop ==
    ASSUME IInv, Retired, StayGone, NEW t \in Threads, StopStep(t)
    PROVE  ClonesGone(t) /\ RecordsGone
<1>0. /\ th[t].sess \in Session /\ th \in [Threads -> Thread] /\ Id(t) \in Ids
      /\ Aside(th[t].sess) => GoneIn(pods, th[t].sess)
      /\ pods \in [Keys -> [phase : PodPhases, claim : Keys \cup {None}]]
  BY ThreadFacts DEF Retired, Retiring, IInv, TypeOK, ClusterTypeOK,
     StopStep, StopGet, StopPod, StopSecret, MarkStopped, At, Id
<1>1. CASE StopGet(t)
  <2>1. UNCHANGED store
    BY <1>1 DEF StopGet, OnlyThread
  <2>2. CASE Goto(t, "done")
    BY <2>1, <2>2, GotoGone DEF Labels, GoneAt, RecordsGone
  <2>3. CASE CallRuntime(t, "stop_pod", store[Id(t)], "mark_stopped")
    <3>1. Aside(store[Id(t)]) => GoneIn(pods', store[Id(t)])
      BY <1>0 DEF Retired, StayGone
    <3> QED  BY <2>1, <2>3, <3>1, JumpGone DEF Labels, GoneAt, RecordsGone
  <2> QED  BY <1>1, <2>2, <2>3 DEF StopGet
<1>2. CASE StopPod(t)
  <2>0. /\ th[t].then \in {"mark_stopped", "restore_stopped"} /\ UNCHANGED store
        /\ th[t].sess.pod \in Keys
    BY <1>0, <1>2, ThreadFacts, NamedRecord DEF StopPod, At, Fits, StopAt, NamedAt, StoreUnchanged
  <2>1. \/ DeletePod(th[t].sess.pod) /\ Goto(t, "stop_secret")
        \/ Goto(t, AfterFailedStop(t))
    BY <1>2 DEF StopPod, Request
  <2>2. CASE DeletePod(th[t].sess.pod) /\ Goto(t, "stop_secret")
    <3>1. pods'[th[t].sess.pod].phase \notin {"starting", "ready"}
      BY <1>0, <2>0, <2>2 DEF DeletePod, PodExists
    <3>2. GoneIn(pods', th[t].sess)
      BY <1>0, <3>1 DEF GoneIn, Aside, StayGone
    <3> QED  BY <2>0, <2>2, <3>2, GotoGone DEF RecordsGone, Labels
  <2>3. CASE Goto(t, AfterFailedStop(t))
    <3>1. AfterFailedStop(t) \in {"restore_stopped", "done"}
      BY DEF AfterFailedStop
    <3>2. AfterFailedStop(t) = "restore_stopped" => Retiring(th[t])
      BY <1>2 DEF AfterFailedStop, StopIsCleanup, Retiring, StopPod, At
    <3> QED  BY <2>0, <2>3, <3>1, <3>2, GotoGone DEF RecordsGone, Labels, GoneAt
  <2> QED  BY <2>1, <2>2, <2>3
<1>3. CASE StopSecret(t)
  <2>0. Retiring(th[t]) /\ UNCHANGED store
    BY <1>3 DEF StopSecret, At, Retiring, GoneAt, StoreUnchanged
  <2>1. \E label \in {"mark_stopped", "restore_stopped", "done"} : Goto(t, label)
    BY <1>3, ThreadFacts DEF StopSecret, At, Fits, StopAt, Request, AfterFailedStop
  <2> QED  BY <2>0, <2>1, GotoGone DEF RecordsGone, Labels, GoneAt
<1>4. CASE MarkStopped(t)
  <2> DEFINE r == [th[t].sess EXCEPT !.state = "stopped"]
  <2>1. GoneIn(pods, r)
    <3>1. GoneIn(pods, th[t].sess)
      BY <1>4 DEF Retired, Retiring, GoneAt, MarkStopped, At
    <3> QED  BY <1>0, <3>1 DEF GoneIn, Session, AbsentSession
  <2>2. Goto(t, "done") /\ (store' = store \/ store' = [store EXCEPT ![Id(t)] = r])
    BY <1>4 DEF MarkStopped, UpdateAndFinish
  <2> HIDE DEF r
  <2>3. ClonesGone(t)
    BY <2>2, GotoGone DEF Labels, GoneAt
  <2> QED  BY <2>1, <2>2, <2>3 DEF RecordsGone, StayGone, IInv, TypeOK
<1> QED  BY <1>1, <1>2, <1>3, <1>4 DEF StopStep

\* Resume.  It starts from a record that is stopped, and names the new pod
\* after the session.
LEMMA RetiredResume ==
    ASSUME IInv, Retired, StayGone, NEW t \in Threads, ResumeStep(t)
    PROVE  ClonesGone(t) /\ RecordsGone
<1>0. /\ th[t].sess \in Session /\ th \in [Threads -> Thread] /\ Id(t) \in Ids
      /\ Aside(th[t].sess) => GoneIn(pods, th[t].sess)
  BY ThreadFacts DEF Retired, Retiring, IInv, TypeOK, ResumeStep, ResumeGet, ResumeSecret,
     ResumePod, MarkCreating, ResumeWait, MarkResumed, RestoreStopped, At, Id
<1>1. CASE ResumeGet(t)
  <2>1. UNCHANGED store
    BY <1>1 DEF ResumeGet, OnlyThread
  <2>2. CASE Goto(t, "done")
    BY <2>1, <2>2, GotoGone DEF Labels, GoneAt, RecordsGone
  <2>3. CASE store[Id(t)].state = "stopped" /\ GotoWith(t, "resume_secret", store[Id(t)])
    <3>1. GoneIn(pods', store[Id(t)])
      BY <1>0, <2>3 DEF Retired, StayGone, Aside
    <3> QED  BY <2>1, <2>3, <3>1, JumpGone DEF Labels, RecordsGone
  <2> QED  BY <1>1, <2>2, <2>3 DEF ResumeGet
<1>2. CASE ResumeSecret(t) \/ ResumePod(t)
  <2>1. UNCHANGED store /\ Retiring(th[t])
    BY <1>2 DEF ResumeSecret, ResumePod, StoreUnchanged, At, Retiring, GoneAt
  <2>2. \E label \in {"resume_pod", "mark_creating", "done"} : Goto(t, label)
    BY <1>2 DEF ResumeSecret, ResumePod, Request, Refused
  <2> QED  BY <2>1, <2>2, GotoGone DEF Labels, RecordsGone
<1>3. CASE MarkCreating(t)
  <2> DEFINE r == ResumedSession(t, "creating")
  <2>1. GoneIn(pods, r)
    <3>1. GoneIn(pods, th[t].sess)
      BY <1>3 DEF Retired, Retiring, GoneAt, MarkCreating, At
    <3> QED  BY <1>0, <3>1 DEF GoneIn, Session, AbsentSession, ResumedSession
  <2>2. GotoWith(t, "resume_wait", r) \/ CallRuntime(t, "stop_pod", r, "restore_stopped")
    BY <1>3 DEF MarkCreating
  <2>3. store' = store \/ store' = [store EXCEPT ![Id(t)] = r]
    BY <1>3 DEF MarkCreating
  <2> HIDE DEF r
  <2>4. GoneIn(pods', r)
    BY <2>1 DEF StayGone
  <2>5. ClonesGone(t)
    BY <2>2, <2>4, JumpGone DEF Labels
  <2> QED  BY <2>3, <2>4, <2>5 DEF RecordsGone, IInv, TypeOK
<1>4. CASE ResumeWait(t)
  <2>1. UNCHANGED store
    BY <1>4 DEF ResumeWait, OnlyThread
  <2>2. CASE Goto(t, "mark_resumed")
    <3>1. Retiring(th[t])
      BY <1>4 DEF Retiring, GoneAt, ResumeWait, At
    <3> QED  BY <2>1, <2>2, <3>1, GotoGone DEF Labels, RecordsGone
  <2>3. CASE CallRuntime(t, "stop_pod", th[t].sess, "restore_stopped")
    <3>1. GoneIn(pods', th[t].sess)
      BY <1>4 DEF Retired, Retiring, GoneAt, ResumeWait, At, StayGone
    <3> QED  BY <2>1, <2>3, <3>1, JumpGone DEF Labels, RecordsGone
  <2> QED  BY <1>4, <2>2, <2>3 DEF ResumeWait
<1>5. CASE MarkResumed(t)
  <2> DEFINE r == ResumedSession(t, "running")
  <2>1. GoneIn(pods, r)
    <3>1. GoneIn(pods, th[t].sess)
      BY <1>5 DEF Retired, Retiring, GoneAt, MarkResumed, At
    <3> QED  BY <1>0, <3>1 DEF GoneIn, Session, AbsentSession, ResumedSession
  <2>2. Goto(t, "done") /\ (store' = store \/ store' = [store EXCEPT ![Id(t)] = r])
    BY <1>5 DEF MarkResumed, UpdateAndFinish
  <2> HIDE DEF r
  <2>3. ClonesGone(t)
    BY <2>2, GotoGone DEF Labels, GoneAt
  <2> QED  BY <2>1, <2>2, <2>3 DEF RecordsGone, StayGone, IInv, TypeOK
<1>6. CASE RestoreStopped(t)
  <2> DEFINE r == [th[t].sess EXCEPT !.pod = None, !.state = "stopped"]
  <2>1. GoneIn(pods, r)
    <3>1. GoneIn(pods, th[t].sess)
      BY <1>6 DEF Retired, Retiring, GoneAt, RestoreStopped, At
    <3> QED  BY <1>0, <3>1 DEF GoneIn, Session, AbsentSession
  <2>2. Goto(t, "done") /\ (store' = store \/ store' = [store EXCEPT ![Id(t)] = r])
    BY <1>6 DEF RestoreStopped, UpdateAndFinish
  <2> HIDE DEF r
  <2>3. ClonesGone(t)
    BY <2>2, GotoGone DEF Labels, GoneAt
  <2> QED  BY <2>1, <2>2, <2>3 DEF RecordsGone, StayGone, IInv, TypeOK
<1> QED  BY <1>1, <1>2, <1>3, <1>4, <1>5, <1>6 DEF ResumeStep

\* Delete keeps the references of the record it read.
LEMMA RetiredDelete ==
    ASSUME IInv, Retired, StayGone, NEW t \in Threads, DeleteStep(t)
    PROVE  ClonesGone(t) /\ RecordsGone
<1>0. /\ th[t].sess \in Session /\ Id(t) \in Ids
      /\ Aside(th[t].sess) => GoneIn(pods, th[t].sess)
  BY ThreadFacts DEF Retired, Retiring, DeleteStep, DeleteGet, MarkDeleted, At, Id
<1>1. CASE DeleteGet(t)
  <2>1. UNCHANGED store
    BY <1>1 DEF DeleteGet, OnlyThread
  <2>2. CASE Goto(t, "done")
    BY <2>1, <2>2, GotoGone DEF Labels, GoneAt, RecordsGone
  <2>3. CASE CallRuntime(t, "purge_pod", store[Id(t)], "mark_deleted")
    BY <1>0, <2>1, <2>3, PurgeGone DEF Retired, RecordsGone
  <2> QED  BY <1>1, <2>2, <2>3 DEF DeleteGet
<1>2. CASE MarkDeleted(t)
  <2> DEFINE r == [th[t].sess EXCEPT !.state = "dead"]
  <2>1. Aside(r) => GoneIn(pods, r)
    <3>1. th[t].sess # AbsentSession
      BY <1>0, <1>2, ThreadFacts DEF MarkDeleted, At, Fits, NamedAt, AbsentSession
    <3>2. r.pod = th[t].sess.pod /\ r.pvc = th[t].sess.pvc /\ r.state = "dead"
      BY <1>0, <3>1, TrackedRecord
    <3> QED  BY <1>0, <3>2 DEF Aside, GoneIn
  <2>2. Goto(t, "done") /\ (store' = store \/ store' = [store EXCEPT ![Id(t)] = r])
    BY <1>2 DEF MarkDeleted, UpdateAndFinish
  <2> HIDE DEF r
  <2>3. ClonesGone(t)
    BY <2>2, GotoGone DEF Labels, GoneAt
  <2> QED  BY <2>1, <2>2, <2>3 DEF RecordsGone, StayGone, IInv, TypeOK
<1> QED  BY <1>1, <1>2 DEF DeleteStep

-----------------------------------------------------------------------------
(* Mounts and Retired are inductive.                                       *)

\* Initially the only pods are those of the pool.
LEMMA WorkspaceInit == Init => Mounts /\ Retired
<1> SUFFICES ASSUME Init PROVE Mounts /\ Retired
  OBVIOUS
<1>1. /\ \A k \in PoolKeys : pods[k].claim = k
      /\ \A i \in Ids : pods[i] = NoPod
      /\ None \notin PoolKeys /\ Keys = Ids \cup PoolKeys
  BY KeysAssumption, NoneIsNoKey DEF Init
<1>2. Mounts
  BY <1>1, NoneIsNoKey DEF Mounts, NoPod, PodAlive
<1>3. GoneIn(pods, AbsentSession)
  BY <1>1 DEF GoneIn, AbsentSession
<1> QED  BY <1>2, <1>3 DEF Init, Retired, IdleThread

\* A step of a goroutine at work.
LEMMA RetiredProgress ==
    ASSUME IInv, Retired, NEW t \in Threads, LockSession(t) \/ Progress(t), ~ Return(t)
    PROVE  Retired'
<1>1. Id(t) \in Ids /\ PodsWithin(t)
  BY WorkServes, ThreadPods
<1>2. StayGone
  BY <1>1, NoRevival DEF StayGone
<1>3. \A u \in Threads : u # t => th'[u] = th[u]
  BY OthersRest
<1>4. ClonesGone(t) /\ RecordsGone
  BY <1>2, RetiredEnsure, RetiredRequests, RetiredCreate, RetiredStop, RetiredResume, RetiredDelete
     DEF Progress, CreateStep
<1> QED  BY <1>2, <1>3, <1>4, RetiredStep

\* Every step keeps Mounts.
LEMMA MountsNext ==
    ASSUME IInv, Owned, Retired, Mounts, [Next]_vars
    PROVE  Mounts'
<1>1. ASSUME NEW t \in Threads, LockSession(t) \/ Progress(t), ~ Return(t)
      PROVE  Mounts'
  <2>1. Id(t) \in Ids /\ PodsWithin(t)
    BY <1>1, WorkServes, ThreadPods
  <2>2. CASE Within(t)
    BY <2>1, <2>2, MountsStep
  <2>3. ASSUME NEW k \in PoolKeys, Acquires(t, k)
        PROVE  Mounts'
    BY <2>1, <2>3, MountsAcquire DEF Acquires
  <2> QED  BY <1>1, <2>2, <2>3, WithinProgress
<1>2. ASSUME NEW t \in Threads,
             \/ \E op \in Requests, i \in Ids, want \in Wants : Arrive(t, op, i, want)
             \/ Cancel(t) \/ Return(t)
      PROVE  Mounts'
  <2>1. /\ UNCHANGED <<store, idle, pods>>
        /\ \A u \in Threads : \/ th'[u].id = th[u].id /\ th'[u].sess = th[u].sess
                              \/ Refs(th'[u].sess) = {}
    BY <1>2, OutsideMoves, AbsentRefs
  <2> QED  BY <2>1, MountsOutside
<1> QED  BY <1>1, <1>2, MountsOthers DEF Next

\* Every step keeps Retired.
LEMMA RetiredNext ==
    ASSUME IInv, Retired, [Next]_vars
    PROVE  Retired'
<1>0. /\ pods \in [Keys -> [phase : PodPhases, claim : Keys \cup {None}]]
      /\ PoolKeys \subseteq Keys
  BY KeysAssumption DEF IInv, TypeOK, ClusterTypeOK
<1>2. ASSUME NEW t \in Threads,
             \/ \E op \in Requests, i \in Ids, want \in Wants : Arrive(t, op, i, want)
             \/ Cancel(t) \/ Return(t)
      PROVE  Retired'
  <2>1. None \notin PoolKeys
    BY KeysAssumption, NoneIsNoKey
  <2>2. GoneIn(pods, AbsentSession)
    BY <2>1 DEF GoneIn, AbsentSession
  <2> QED  BY <1>2, <2>2, OutsideMoves DEF Retired, Retiring
<1>3. ASSUME NEW k \in PoolKeys, PoolRefills(k)
      PROVE  Retired'
  <2>1. /\ UNCHANGED <<store, th>> /\ pods' = [pods EXCEPT ![k] = [phase |-> "ready", claim |-> k]]
        /\ \A i \in Ids : store[i].pvc # k
        /\ \A t \in Threads : th[t].sess.pvc # k
    BY <1>3 DEF PoolRefills
  <2>2. \A s : GoneIn(pods, s) /\ s.pvc # k => GoneIn(pods', s)
    BY <1>0, <2>1 DEF GoneIn
  <2> QED  BY <2>1, <2>2 DEF Retired
<1>4. CASE ClusterActs \/ UNCHANGED vars
  <2>1. /\ UNCHANGED <<store, th>>
        /\ \A k \in Keys : PodAlive(k)' => PodAlive(k)
    <3>1. CASE UNCHANGED vars
      BY <3>1 DEF vars, PodAlive
    <3>2. ASSUME NEW l \in Keys, PodBecomesReady(l) \/ PodTerminates(l) \/ ClaimIsReleased(l)
          PROVE  \A k \in Keys : PodAlive(k)' => PodAlive(k)
      BY <1>0, <3>2 DEF PodBecomesReady, PodTerminates, ClaimIsReleased, PodAlive, NoPod
    <3> QED  BY <1>4, <3>1, <3>2 DEF ClusterActs, ClusterStep
  <2>2. StayGone
    BY <1>0, <2>1 DEF GoneIn, StayGone, PodAlive
  <2> QED  BY <2>1, <2>2 DEF Retired, StayGone
<1> QED  BY <1>2, <1>3, <1>4, RetiredProgress DEF Next

\* However stops, resumes, re-creations and refills of the pool interleave, and
\* whatever fails, two pods that are not being deleted never mount one workspace.
THEOREM WorkspacesAreExclusive == Spec => []WorkspaceExclusive
<1>1. Init => IInv /\ Owned /\ Mounts /\ Retired
  BY InitOK, OwnInit, WorkspaceInit
<1>2. IInv /\ Owned /\ Mounts /\ Retired /\ [Next]_vars
        => IInv' /\ Owned' /\ Mounts' /\ Retired'
  BY StepOK, OwnNext, MountsNext, RetiredNext
<1>3. Mounts => WorkspaceExclusive
  <2>1. SUFFICES ASSUME Mounts, NEW k \in Keys, NEW l \in Keys, k # l,
                        PodAlive(k), PodAlive(l), pods[k].claim = pods[l].claim
                 PROVE  FALSE
    BY DEF WorkspaceExclusive
  <2>2. /\ pods[k].claim # None /\ Keys = Ids \cup PoolKeys /\ Ids \cap PoolKeys = {}
    BY <2>1, KeysAssumption DEF Mounts
  <2>3. CASE pods[k].claim \in PoolKeys
    <3>1. ~ (k \in PoolKeys /\ l \in PoolKeys)
      BY <2>1, <2>2 DEF Mounts
    <3>2. ~ (k \in Ids)
      BY <2>1, <2>2, <2>3, <3>1 DEF Mounts, HeldBy
    <3>3. ~ (l \in Ids)
      BY <2>1, <2>2, <2>3, <3>1 DEF Mounts, HeldBy
    <3> QED  BY <2>2, <3>1, <3>2, <3>3
  <2>4. CASE pods[k].claim \notin PoolKeys
    BY <2>1, <2>2, <2>4 DEF Mounts
  <2> QED  BY <2>3, <2>4
<1> QED  BY <1>1, <1>2, <1>3, PTL DEF Spec
=============================================================================
