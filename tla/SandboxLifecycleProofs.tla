------------------------ MODULE SandboxLifecycleProofs ------------------------
(***************************************************************************)
(* Proofs about SandboxLifecycle for every set of ids, threads, images and *)
(* warm sandboxes, every cap and every number of faults.                   *)
(*                                                                         *)
(* IInv strengthens TypeOK by what each label says about the registers of  *)
(* the thread that is there; Exclusive adds who may provision an id.       *)
(***************************************************************************)
EXTENDS SandboxLifecycle, TLAPS, FiniteSetTheorems

\* Labels at which the clone in sess has a pod name.
NamedAt == {"claim_wait", "claim_create", "secret_create", "pod_create",
            "persist", "wait_ready", "mark_running", "mark_dead",
            "purge_secret", "purge_claim", "mark_deleted",
            "stop_pod", "stop_secret", "mark_stopped", "restore_stopped",
            "resume_wait", "mark_resumed"}

\* Labels of Resume at which sess is a record read from the store.
ResumeAt == {"resume_secret", "resume_pod", "mark_creating"}

PurgeAt == {"purge_pod", "purge_secret", "purge_claim"}
StopAt == {"stop_pod", "stop_secret"}

\* Labels between the admission check of Create and the insertion of its record.
CreateAt == {"count_running", "count_creating", "provision", "claim_wait",
             "claim_create", "secret_create", "pod_create", "persist"}

\* What a label says about the registers of the thread that is there.
Fits(op, id, label, s, ret) ==
    /\ label \notin {"idle", "done"} => id \in Ids
    /\ label \in NamedAt => s.pod # None
    /\ label \in ResumeAt => s # AbsentSession
    /\ label \in PurgeAt => /\ ret \in {"forget", "done", "mark_dead", "mark_deleted"}
                            /\ ret = "mark_dead" => s.pod # None
    /\ label \in StopAt => ret \in {"mark_stopped", "restore_stopped"}
    /\ label = "ensure_get" => op = "ensure"
    /\ label \in CreateAt => op \in {"ensure", "create"}

LocalOK(r) == r \in Thread /\ Fits(r.op, r.id, r.pc, r.sess, r.then)

IInv == TypeOK /\ \A t \in Threads : LocalOK(th[t])

\* Who may provision an id.  A thread that has passed the admission check of
\* Create finds no record of its id, and neither does one that is about to be
\* checked, unless its context is cancelled and it will be refused.
Unclaimed == \A t \in Threads :
    th[t].pc \in CreateAt =>
        ~ Tracked(Id(t)) \/ (th[t].pc = "count_running" /\ ~ Live(t) /\ th[t].op = "ensure")

\* EnsureSession and Clear hold the keyed lock from their first store call on.
HoldsLock == \A t \in Threads :
    th[t].op \in {"ensure", "clear"} /\ th[t].pc \notin {"idle", "lock", "done"}
        => lock[Id(t)] = t

\* Nobody else works on an id that Create has drawn and not yet persisted.
Private == \A t, u \in Threads :
    t # u /\ th[t].op = "create" /\ th[t].pc \in CreateAt => Id(u) # Id(t)

Exclusive == Unclaimed /\ HoldsLock /\ Private

-----------------------------------------------------------------------------
(* Session records.                                                        *)

\* A session record with a pod name is a complete record.
LEMMA NamedRecord ==
    ASSUME NEW s \in Session, s.pod # None
    PROVE  /\ s # AbsentSession
           /\ s.pod \in Keys /\ s.pvc \in Keys /\ s.image \in Images
           /\ s = [state |-> s.state, image |-> s.image, pod |-> s.pod, pvc |-> s.pvc]
BY DEF Session, AbsentSession

\* Any record but AbsentSession has an image and a workspace.
LEMMA TrackedRecord ==
    ASSUME NEW s \in Session, s # AbsentSession
    PROVE  /\ s.state \in {"creating", "running", "stopped", "dead"}
           /\ s.pvc \in Keys /\ s.image \in Images /\ s.pod \in Keys \cup {None}
           /\ s = [state |-> s.state, image |-> s.image, pod |-> s.pod, pvc |-> s.pvc]
BY DEF Session, AbsentSession

\* The state of a record that names a pod may be set to anything.
LEMMA SetState ==
    ASSUME NEW s \in Session, s.pod # None,
           NEW st \in {"creating", "running", "stopped", "dead"}
    PROVE  /\ [s EXCEPT !.state = st] \in Session
           /\ [s EXCEPT !.state = st].pod = s.pod
BY NamedRecord DEF Session

\* A record may be given a pod, and a stopped one may lose it.
LEMMA SetPod ==
    ASSUME NEW s \in Session, s # AbsentSession, NEW k \in Keys,
           NEW st \in {"creating", "running", "stopped", "dead"}
    PROVE  /\ [s EXCEPT !.pod = k, !.state = st] \in Session
           /\ [s EXCEPT !.pod = k, !.state = st].pod = k
           /\ [s EXCEPT !.pod = None, !.state = "stopped"] \in Session
BY TrackedRecord, NoneIsNoKey DEF Session

\* A record read from the store for a tracked id is not AbsentSession, and only
\* a stopped one is nameless.
LEMMA StoredRecord ==
    ASSUME TypeOK, NEW i \in Ids
    PROVE  /\ store[i] \in Session
           /\ Tracked(i) => store[i] # AbsentSession
           /\ Tracked(i) /\ store[i].state # "stopped" => store[i].pod # None
BY DEF TypeOK, Session, AbsentSession, Tracked

-----------------------------------------------------------------------------
(* Steps of a thread.                                                      *)

\* A thread that serves nobody, or has only its lock left, is in order.
LEMMA IdleOK == LocalOK(IdleThread) /\ LocalOK(FinishedThread)
BY DEF LocalOK, Fits, IdleThread, FinishedThread, Thread, Labels, Session, RequestKinds,
       NamedAt, ResumeAt, PurgeAt, StopAt, CreateAt, AbsentSession

\* A jump keeps every thread in order if the clone fits the target label.
LEMMA GotoOK ==
    ASSUME IInv, NEW t \in Threads, NEW label \in Labels, NEW s \in Session,
           GotoWith(t, label, s), Fits(th[t].op, th[t].id, label, s, th[t].then)
    PROVE  th' \in [Threads -> Thread] /\ \A u \in Threads : LocalOK(th'[u])
<1>0. th \in [Threads -> Thread] /\ \A u \in Threads : LocalOK(th[u])
  BY DEF IInv, TypeOK
<1>1. CASE label = "done"
  BY <1>0, <1>1, IdleOK DEF GotoWith, LocalOK
<1>2. CASE label # "done"
  <2> DEFINE r == [th[t] EXCEPT !.pc = label, !.sess = s]
  <2>1. th' = [th EXCEPT ![t] = r]
    BY <1>2 DEF GotoWith
  <2>2. r \in Thread /\ r.op = th[t].op /\ r.id = th[t].id /\ r.pc = label
        /\ r.sess = s /\ r.then = th[t].then
    BY <1>0 DEF Thread
  <2>3. LocalOK(r)
    BY <2>2 DEF LocalOK
  <2> QED  BY <1>0, <2>1, <2>2, <2>3
<1> QED  BY <1>1, <1>2

\* So does a jump that leaves the clone alone.
LEMMA PlainGotoOK ==
    ASSUME IInv, NEW t \in Threads, NEW label \in Labels, Goto(t, label),
           Fits(th[t].op, th[t].id, label, th[t].sess, th[t].then)
    PROVE  th' \in [Threads -> Thread] /\ \A u \in Threads : LocalOK(th'[u])
<1>1. th[t].sess \in Session
  BY DEF IInv, TypeOK, Thread
<1> QED  BY <1>1, GotoOK DEF Goto

\* So does the call of a subroutine of the runtime.
LEMMA CallOK ==
    ASSUME IInv, NEW t \in Threads, NEW label \in Labels, NEW s \in Session,
           NEW ret \in Labels, CallRuntime(t, label, s, ret),
           Fits(th[t].op, th[t].id, label, s, ret)
    PROVE  th' \in [Threads -> Thread] /\ \A u \in Threads : LocalOK(th'[u])
<1>0. th \in [Threads -> Thread] /\ \A u \in Threads : LocalOK(th[u])
  BY DEF IInv, TypeOK
<1> DEFINE r == [th[t] EXCEPT !.pc = label, !.sess = s, !.then = ret]
<1>1. th' = [th EXCEPT ![t] = r]
  BY <1>0 DEF CallRuntime
<1>2. r \in Thread /\ r.op = th[t].op /\ r.id = th[t].id /\ r.pc = label
      /\ r.sess = s /\ r.then = ret
  BY <1>0 DEF Thread
<1>3. LocalOK(r)
  BY <1>2 DEF LocalOK
<1> QED  BY <1>0, <1>1, <1>2, <1>3

\* Runtime.Purge may be called with any record, as long as the return label fits.
LEMMA PurgeCallOK ==
    ASSUME IInv, NEW t \in Threads, NEW s \in Session, Id(t) \in Ids,
           NEW ret \in {"forget", "mark_deleted"}, CallRuntime(t, "purge_pod", s, ret)
    PROVE  th' \in [Threads -> Thread] /\ \A u \in Threads : LocalOK(th'[u])
<1>1. "purge_pod" \in Labels /\ ret \in Labels
  BY DEF Labels
<1>2. Fits(th[t].op, th[t].id, "purge_pod", s, ret)
  BY DEF Fits, NamedAt, ResumeAt, PurgeAt, StopAt, CreateAt, Id
<1> QED  BY <1>1, <1>2, CallOK

\* The effects of the API requests and the steps of the cluster are well typed.
LEMMA EffectsTyped ==
    ASSUME ClusterTypeOK, NEW k \in Keys, NEW c \in Keys,
           \/ CreateClaim(k) \/ CreateSecretObject(k) \/ CreatePodMounting(k, c)
           \/ DeletePod(k) \/ DeleteSecret(k) \/ DeleteClaim(k)
           \/ UNCHANGED clusterVars
    PROVE  ClusterTypeOK'
<1>1. CASE CreateClaim(k) \/ DeleteClaim(k)
  BY <1>1 DEF ClusterTypeOK, CreateClaim, DeleteClaim, ClaimPhases
<1>2. CASE CreateSecretObject(k) \/ DeleteSecret(k)
  BY <1>2 DEF ClusterTypeOK, CreateSecretObject, DeleteSecret
<1>3. CASE CreatePodMounting(k, c)
  BY <1>3 DEF ClusterTypeOK, CreatePodMounting, PodPhases
<1>4. CASE DeletePod(k)
  BY <1>4 DEF ClusterTypeOK, DeletePod, PodPhases
<1>5. CASE UNCHANGED clusterVars
  BY <1>5 DEF ClusterTypeOK, clusterVars
<1> QED  BY <1>1, <1>2, <1>3, <1>4, <1>5

\* The controllers of the cluster keep its objects well typed.
LEMMA ClusterStepTyped ==
    ASSUME ClusterTypeOK, ClusterStep
    PROVE  ClusterTypeOK'
BY NoneIsNoKey DEF ClusterTypeOK, ClusterStep, PodBecomesReady, PodTerminates,
       ClaimIsReleased, PodPhases, ClaimPhases, NoPod

-----------------------------------------------------------------------------
(* IInv is inductive, one lemma per group of actions.                      *)

\* The orchestrator starts with no session and a full pool.
LEMMA InitOK == Init => IInv
<1> SUFFICES ASSUME Init PROVE IInv
  OBVIOUS
<1>1. ClusterTypeOK
  BY KeysAssumption DEF Init, ClusterTypeOK, PodPhases, ClaimPhases, NoPod
<1>2. store \in [Ids -> Session]
  BY DEF Init, Session
<1>3. faults \in 0 .. MaxFaults
  BY ConfigAssumption DEF Init
<1> QED  BY <1>1, <1>2, <1>3, IdleOK DEF Init, IInv, TypeOK, LocalOK

\* The arrival, the cancellation and the return of a request.
LEMMA ArriveOK ==
    ASSUME IInv, NEW t \in Threads, NEW op \in Requests, NEW i \in Ids,
           NEW want \in Wants, Arrive(t, op, i, want)
    PROVE  IInv'
<1> DEFINE r == [IdleThread EXCEPT !.op = op, !.id = i, !.want = want, !.pc = Entry(op)]
<1>1. op \in RequestKinds /\ want \in Images \cup {None}
  BY ConfigAssumption
<1>2. /\ Entry(op) \in {"lock", "count_running", "stop_get", "resume_get", "delete_get"}
      /\ Entry(op) = "count_running" => op = "create"
  BY <1>1 DEF Entry, RequestKinds
<1>3. LocalOK(r)
  <2>1. r \in Thread
    BY <1>1, <1>2 DEF IdleThread, Thread, Labels, Session
  <2>2. Fits(op, i, Entry(op), AbsentSession, "done")
    BY <1>2 DEF Fits, NamedAt, ResumeAt, PurgeAt, StopAt, CreateAt
  <2> QED  BY <2>1, <2>2 DEF LocalOK, IdleThread
<1>4. th' = [th EXCEPT ![t] = r] /\ OnlyThread
  BY DEF Arrive
<1> QED  BY <1>3, <1>4 DEF IInv, TypeOK, OnlyThread, clusterVars, LocalOK, ClusterTypeOK

\* A cancelled context changes what a request may do next, not what it holds.
LEMMA CancelOK ==
    ASSUME IInv, NEW t \in Threads, Cancel(t)
    PROVE  IInv'
<1> DEFINE r == [th[t] EXCEPT !.cancelled = TRUE]
<1>1. th' = [th EXCEPT ![t] = r] /\ th \in [Threads -> Thread] /\ LocalOK(th[t])
  BY DEF Cancel, IInv, TypeOK
<1>2. LocalOK(r)
  <2>1. r \in Thread /\ r.op = th[t].op /\ r.id = th[t].id /\ r.pc = th[t].pc
        /\ r.sess = th[t].sess /\ r.then = th[t].then
    BY <1>1 DEF Thread
  <2> QED  BY <1>1, <2>1 DEF LocalOK
<1>3. faults' \in 0 .. MaxFaults
  BY ConfigAssumption DEF Cancel, IInv, TypeOK
<1> QED  BY <1>1, <1>2, <1>3 DEF Cancel, IInv, TypeOK, StoreUnchanged, clusterVars,
            LocalOK, ClusterTypeOK

\* A request that returns leaves an idle thread and gives its lock back.
LEMMA ReturnOK ==
    ASSUME IInv, NEW t \in Threads, Return(t)
    PROVE  IInv'
BY IdleOK DEF Return, IInv, TypeOK, clusterVars, LocalOK, ClusterTypeOK

\* Three shapes of step: only the thread moves, the store is written too, or
\* an API request is made.
LEMMA ThreadOnlyOK ==
    ASSUME IInv, OnlyThread, th' \in [Threads -> Thread],
           \A u \in Threads : LocalOK(th'[u])
    PROVE  IInv'
BY DEF IInv, TypeOK, OnlyThread, clusterVars, ClusterTypeOK

\* A store write: the record it writes is a session record.
LEMMA StoreWriteOK ==
    ASSUME IInv, store' \in [Ids -> Session], UNCHANGED <<lock, idle, faults, clusterVars>>,
           th' \in [Threads -> Thread], \A u \in Threads : LocalOK(th'[u])
    PROVE  IInv'
BY DEF IInv, TypeOK, clusterVars, ClusterTypeOK

\* What an API request does besides its effect.
RequestOutcome(t, ok, err) ==
    /\ Goto(t, ok) \/ Goto(t, err)
    /\ faults' \in 0 .. MaxFaults
    /\ ClusterTypeOK'
    /\ StoreUnchanged

\* A fault leaves one fault fewer.
LEMMA FaultsTyped ==
    ASSUME IInv, faults > 0, faults' = faults - 1
    PROVE  faults' \in 0 .. MaxFaults
BY ConfigAssumption DEF IInv, TypeOK

\* A request without effect leaves the cluster as it was.
LEMMA NoEffectTyped ==
    ASSUME IInv
    PROVE  /\ UNCHANGED clusterVars => ClusterTypeOK'
           /\ UNCHANGED faults => faults' \in 0 .. MaxFaults
BY DEF IInv, TypeOK, ClusterTypeOK, clusterVars

\* An API request is in order if both labels it may lead to are.
LEMMA RequestOK ==
    ASSUME IInv, NEW t \in Threads, NEW ok \in Labels, NEW err \in Labels,
           RequestOutcome(t, ok, err),
           Fits(th[t].op, th[t].id, ok, th[t].sess, th[t].then),
           Fits(th[t].op, th[t].id, err, th[t].sess, th[t].then)
    PROVE  IInv'
<1>1. th' \in [Threads -> Thread] /\ \A u \in Threads : LocalOK(th'[u])
  BY PlainGotoOK DEF RequestOutcome
<1> QED  BY <1>1 DEF RequestOutcome, IInv, TypeOK, StoreUnchanged

\* So is one that a cheaper check refuses.
LEMMA RefusedOK ==
    ASSUME IInv, NEW t \in Threads, NEW err \in Labels, Refused(t, err), StoreUnchanged,
           Fits(th[t].op, th[t].id, err, th[t].sess, th[t].then)
    PROVE  IInv'
BY PlainGotoOK, ThreadOnlyOK DEF Refused, OnlyThread, StoreUnchanged

\* A last Update writes a record and ends the request.
LEMMA UpdateOK ==
    ASSUME IInv, NEW t \in Threads, NEW background, NEW s \in Session,
           UpdateAndFinish(t, background, s), Id(t) \in Ids
    PROVE  IInv'
<1>1. Fits(th[t].op, th[t].id, "done", th[t].sess, th[t].then)
  BY DEF Fits, NamedAt, ResumeAt, PurgeAt, StopAt, CreateAt
<1>2. th' \in [Threads -> Thread] /\ \A u \in Threads : LocalOK(th'[u])
  BY <1>1, PlainGotoOK DEF UpdateAndFinish, Labels
<1>3. store' \in [Ids -> Session]
  BY DEF UpdateAndFinish, IInv, TypeOK
<1> QED  BY <1>2, <1>3, StoreWriteOK DEF UpdateAndFinish

\* What IInv says about one thread.
LEMMA ThreadFacts ==
    ASSUME IInv, NEW t \in Threads
    PROVE  /\ th[t] \in Thread /\ th[t].sess \in Session
           /\ th[t].pc \in Labels /\ th[t].then \in Labels
           /\ Fits(th[t].op, th[t].id, th[t].pc, th[t].sess, th[t].then)
           /\ th[t].pc \notin {"idle", "done"} => th[t].id \in Ids /\ th[t].id \in Keys
BY KeysAssumption DEF IInv, TypeOK, LocalOK, Thread, Fits

\* EnsureSession, Clear, purgeAndForget and the lock.
LEMMA EnsureStepOK ==
    ASSUME IInv, NEW t \in Threads, LockSession(t) \/ EnsureStep(t)
    PROVE  IInv'
<1> USE DEF Fits, NamedAt, ResumeAt, PurgeAt, StopAt, CreateAt, Labels
<1>0. USE ThreadFacts, IdleOK
<1>1. CASE LockSession(t)
  <2>1. AfterLock(t) \in Labels
        /\ Fits(th[t].op, th[t].id, AfterLock(t), th[t].sess, th[t].then)
    BY <1>1 DEF LockSession, AfterLock, At
  <2>2. th' \in [Threads -> Thread] /\ \A u \in Threads : LocalOK(th'[u])
    BY <1>1, <2>1, PlainGotoOK DEF LockSession
  <2>3. lock' \in [Ids -> Threads \cup {None}]
    BY <1>1 DEF LockSession, IInv, TypeOK
  <2> QED  BY <1>1, <2>2, <2>3 DEF LockSession, IInv, TypeOK, clusterVars, ClusterTypeOK
<1>2. CASE EnsureGet(t)
  <2> DEFINE s == store[Id(t)]
  <2>1. At(t, "ensure_get") /\ OnlyThread /\ Id(t) \in Ids /\ th[t].op = "ensure"
    BY <1>2 DEF EnsureGet, At, Id
  <2>2. s \in Session
    BY <2>1, StoredRecord DEF IInv
  <2>3. \/ \E label \in {"count_running", "done", "resume_get"} : Goto(t, label)
        \/ CallRuntime(t, "purge_pod", s, "forget")
    BY <1>2 DEF EnsureGet
  <2>4. CASE CallRuntime(t, "purge_pod", s, "forget")
    BY <2>1, <2>2, <2>4, PurgeCallOK, ThreadOnlyOK
  <2>5. CASE \E label \in {"count_running", "done", "resume_get"} : Goto(t, label)
    BY <2>1, <2>5, PlainGotoOK, ThreadOnlyOK DEF Id
  <2> QED  BY <2>3, <2>4, <2>5
<1>3. CASE ClearGet(t)
  <2>1. At(t, "clear_get") /\ OnlyThread /\ Id(t) \in Ids
    BY <1>3 DEF ClearGet, At, Id
  <2>2. store[Id(t)] \in Session
    BY <2>1, StoredRecord DEF IInv
  <2>3. Goto(t, "done") \/ CallRuntime(t, "purge_pod", store[Id(t)], "forget")
    BY <1>3 DEF ClearGet
  <2>4. CASE Goto(t, "done")
    BY <2>1, <2>4, PlainGotoOK, ThreadOnlyOK DEF Id
  <2>5. CASE CallRuntime(t, "purge_pod", store[Id(t)], "forget")
    BY <2>1, <2>2, <2>5, PurgeCallOK, ThreadOnlyOK
  <2> QED  BY <2>3, <2>4, <2>5
<1>4. CASE Forget(t)
  <2>1. Id(t) \in Ids /\ AbsentSession \in Session
    BY <1>4 DEF Forget, At, Id, Session
  <2>2. store' \in [Ids -> Session]
    BY <1>4, <2>1 DEF Forget, IInv, TypeOK
  <2>3. CASE th[t].op = "ensure"
    <3>1. GotoWith(t, "count_running", AbsentSession)
      BY <1>4, <2>3 DEF Forget
    <3> QED  BY <1>4, <2>1, <2>2, <2>3, <3>1, GotoOK, StoreWriteOK DEF Forget, Id
  <2>4. CASE th[t].op # "ensure"
    <3>1. GotoWith(t, "done", AbsentSession)
      BY <1>4, <2>4 DEF Forget
    <3> QED  BY <1>4, <2>1, <2>2, <3>1, GotoOK, StoreWriteOK DEF Forget, Id
  <2> QED  BY <2>3, <2>4
<1> QED  BY <1>1, <1>2, <1>3, <1>4 DEF EnsureStep

\* Runtime.Purge.
LEMMA PurgeStepOK ==
    ASSUME IInv, NEW t \in Threads, PurgeStep(t)
    PROVE  IInv'
<1> DEFINE s == th[t].sess
           failed == AfterFailedPurge(t)
           OKAt(label) == Fits(th[t].op, th[t].id, label, th[t].sess, th[t].then)
<1>1. /\ th[t].pc \in PurgeAt /\ StoreUnchanged /\ ClusterTypeOK
      /\ th[t].then \in Labels /\ s \in Session /\ OKAt(th[t].pc)
  BY ThreadFacts DEF PurgeStep, PurgePod, PurgeSecret, PurgeClaim, At, PurgeAt,
     IInv, TypeOK, OnlyThread
<1>2. failed \in Labels /\ OKAt(failed)
  BY <1>1 DEF AfterFailedPurge, Fits, NamedAt, ResumeAt, PurgeAt, StopAt, CreateAt, Labels
<1>3. CASE PurgePod(t)
  <2>1. CASE s.pod = None
    BY <1>1, <1>2, <1>3, <2>1, RefusedOK DEF PurgePod
  <2>2. CASE s.pod # None
    <3>1. DeletePod(s.pod) => ClusterTypeOK'
      BY <1>1, <2>2, NamedRecord, EffectsTyped
    <3>2. RequestOutcome(t, "purge_secret", failed)
      BY <1>1, <1>3, <2>2, <3>1, FaultsTyped, NoEffectTyped
         DEF PurgePod, Request, RequestOutcome
    <3>3. "purge_secret" \in Labels /\ OKAt("purge_secret")
      BY <1>1, <2>2 DEF Fits, NamedAt, ResumeAt, PurgeAt, StopAt, CreateAt, Labels
    <3> QED  BY <1>2, <3>2, <3>3, RequestOK
  <2> QED  BY <2>1, <2>2
<1>4. CASE PurgeSecret(t)
  <2>0. s.pod # None
    BY <1>1, <1>4 DEF PurgeSecret, At, Fits, NamedAt, ResumeAt, PurgeAt, StopAt, CreateAt, Labels
  <2>1. DeleteSecret(s.pod) => ClusterTypeOK'
    BY <1>1, <2>0, NamedRecord, EffectsTyped
  <2>2. RequestOutcome(t, "purge_claim", failed)
    BY <1>1, <1>4, <2>1, FaultsTyped, NoEffectTyped DEF PurgeSecret, Request, RequestOutcome
  <2>3. "purge_claim" \in Labels /\ OKAt("purge_claim")
    BY <1>1, <2>0 DEF Fits, NamedAt, ResumeAt, PurgeAt, StopAt, CreateAt, Labels
  <2> QED  BY <1>2, <2>2, <2>3, RequestOK
<1>5. CASE PurgeClaim(t)
  <2>0. s.pod # None
    BY <1>1, <1>5 DEF PurgeClaim, At, Fits, NamedAt, ResumeAt, PurgeAt, StopAt, CreateAt, Labels
  <2>1. DeleteClaim(s.pvc) => ClusterTypeOK'
    BY <1>1, <2>0, NamedRecord, EffectsTyped
  <2>2. RequestOutcome(t, th[t].then, failed)
    BY <1>1, <1>5, <2>1, FaultsTyped, NoEffectTyped DEF PurgeClaim, Request, RequestOutcome
  <2>3. OKAt(th[t].then)
    BY <1>1, <2>0 DEF Fits, NamedAt, ResumeAt, PurgeAt, StopAt, CreateAt, Labels
  <2> QED  BY <1>1, <1>2, <2>2, <2>3, RequestOK
<1> QED  BY <1>3, <1>4, <1>5 DEF PurgeStep

\* Stop and Runtime.Stop.
LEMMA StopStepOK ==
    ASSUME IInv, NEW t \in Threads, StopStep(t)
    PROVE  IInv'
<1> DEFINE s == th[t].sess
           failed == AfterFailedStop(t)
           OKAt(label) == Fits(th[t].op, th[t].id, label, th[t].sess, th[t].then)
<1>1. /\ Id(t) \in Ids /\ s \in Session /\ ClusterTypeOK /\ th[t].then \in Labels
      /\ OKAt(th[t].pc) /\ OKAt("done") /\ "done" \in Labels
  BY ThreadFacts DEF StopStep, StopGet, StopPod, StopSecret, MarkStopped, At, Id,
     IInv, TypeOK, Fits, NamedAt, ResumeAt, PurgeAt, StopAt, CreateAt, Labels
<1>2. CASE StopGet(t)
  <2>1. CASE Live(t) /\ store[Id(t)].state \in {"creating", "running"}
    <3>1. store[Id(t)] \in Session /\ store[Id(t)].pod # None
      BY <1>1, <2>1, StoredRecord DEF IInv, Tracked
    <3>2. CallRuntime(t, "stop_pod", store[Id(t)], "mark_stopped") /\ OnlyThread
      BY <1>2, <2>1 DEF StopGet
    <3>3. /\ "stop_pod" \in Labels /\ "mark_stopped" \in Labels
          /\ Fits(th[t].op, th[t].id, "stop_pod", store[Id(t)], "mark_stopped")
      BY <1>1, <3>1 DEF Fits, NamedAt, ResumeAt, PurgeAt, StopAt, CreateAt, Labels, Id
    <3> QED  BY <3>1, <3>2, <3>3, CallOK, ThreadOnlyOK
  <2>2. CASE ~ (Live(t) /\ store[Id(t)].state \in {"creating", "running"})
    BY <1>1, <1>2, <2>2, PlainGotoOK, ThreadOnlyOK DEF StopGet
  <2> QED  BY <2>1, <2>2
<1>3. CASE StopPod(t) \/ StopSecret(t)
  <2>1. th[t].pc \in StopAt /\ s.pod # None /\ StoreUnchanged
    BY <1>1, <1>3 DEF StopPod, StopSecret, At, Fits, NamedAt, ResumeAt, PurgeAt, StopAt, CreateAt, Labels
  <2>2. /\ DeletePod(s.pod) => ClusterTypeOK'
        /\ DeleteSecret(s.pod) => ClusterTypeOK'
    BY <1>1, <2>1, NamedRecord, EffectsTyped
  <2>3. /\ failed \in Labels /\ OKAt(failed)
        /\ "stop_secret" \in Labels /\ OKAt("stop_secret")
        /\ OKAt(th[t].then)
    BY <1>1, <2>1 DEF AfterFailedStop, Fits, NamedAt, ResumeAt, PurgeAt, StopAt, CreateAt, Labels
  <2>4. CASE StopPod(t)
    <3>1. RequestOutcome(t, "stop_secret", failed)
      BY <2>1, <2>2, <2>4, FaultsTyped, NoEffectTyped DEF StopPod, Request, RequestOutcome
    <3> QED  BY <2>3, <3>1, RequestOK
  <2>5. CASE StopSecret(t)
    <3>1. RequestOutcome(t, th[t].then, failed)
      BY <2>1, <2>2, <2>5, FaultsTyped, NoEffectTyped DEF StopSecret, Request, RequestOutcome
    <3> QED  BY <1>1, <2>3, <3>1, RequestOK
  <2> QED  BY <1>3, <2>4, <2>5
<1>4. CASE MarkStopped(t)
  <2>1. s.pod # None
    BY <1>1, <1>4 DEF MarkStopped, At, Fits, NamedAt, ResumeAt, PurgeAt, StopAt, CreateAt, Labels
  <2>2. [s EXCEPT !.state = "stopped"] \in Session
    BY <1>1, <2>1, SetState
  <2> QED  BY <1>1, <1>4, <2>2, UpdateOK DEF MarkStopped
<1> QED  BY <1>2, <1>3, <1>4 DEF StopStep

\* Delete.
LEMMA DeleteStepOK ==
    ASSUME IInv, NEW t \in Threads, DeleteStep(t)
    PROVE  IInv'
<1> USE DEF Fits, NamedAt, ResumeAt, PurgeAt, StopAt, CreateAt, Labels
<1>0. USE ThreadFacts
<1>1. Id(t) \in Ids
  BY DEF DeleteStep, DeleteGet, MarkDeleted, At, Id
<1>2. CASE DeleteGet(t)
  <2>1. store[Id(t)] \in Session
    BY <1>1, StoredRecord DEF IInv
  <2>2. Goto(t, "done") \/ CallRuntime(t, "purge_pod", store[Id(t)], "mark_deleted")
    BY <1>2 DEF DeleteGet
  <2>3. OnlyThread
    BY <1>2 DEF DeleteGet
  <2>4. CASE Goto(t, "done")
    BY <1>1, <2>3, <2>4, PlainGotoOK, ThreadOnlyOK DEF Id
  <2>5. CASE CallRuntime(t, "purge_pod", store[Id(t)], "mark_deleted")
    BY <1>1, <2>1, <2>3, <2>5, PurgeCallOK, ThreadOnlyOK
  <2> QED  BY <2>2, <2>4, <2>5
<1>3. CASE MarkDeleted(t)
  <2>1. [th[t].sess EXCEPT !.state = "dead"] \in Session
    BY <1>3, SetState DEF MarkDeleted, At
  <2> QED  BY <1>1, <1>3, <2>1, UpdateOK DEF MarkDeleted
<1> QED  BY <1>2, <1>3 DEF DeleteStep

\* The admission check of Create and its choice of a sandbox.
LEMMA AdmitOK ==
    ASSUME IInv, NEW t \in Threads,
           CountRunning(t) \/ CountCreating(t) \/ Provision(t) \/ ClaimWait(t)
    PROVE  IInv'
<1> DEFINE s == th[t].sess
           OKAt(label) == Fits(th[t].op, th[t].id, label, th[t].sess, th[t].then)
<1>1. /\ th[t] \in Thread /\ th \in [Threads -> Thread] /\ Id(t) \in Ids
      /\ OKAt("done") /\ OKAt(th[t].pc) /\ th[t].op \in {"ensure", "create"}
      /\ \A u \in Threads : LocalOK(th[u])
  BY ThreadFacts DEF CountRunning, CountCreating, Provision, ClaimWait, At, Id,
     IInv, TypeOK, Fits, NamedAt, ResumeAt, PurgeAt, StopAt, CreateAt, Labels
<1>2. /\ OKAt("count_creating") /\ OKAt("provision")
      /\ {"done", "count_creating", "provision", "claim_wait", "claim_create", "persist"}
           \subseteq Labels
  BY <1>1 DEF Fits, NamedAt, ResumeAt, PurgeAt, StopAt, CreateAt, Labels, Id
<1>3. CASE CountRunning(t)
  <2>1. Cardinality(InState("running")) \in Nat
    BY KeysAssumption, FS_Subset, FS_CardinalityType DEF InState
  <2> DEFINE r == [th[t] EXCEPT !.pc = "count_creating",
                                !.seen = Cardinality(InState("running"))]
  <2>2. CASE Live(t)
    <3>1. th' = [th EXCEPT ![t] = r] /\ OnlyThread
      BY <1>1, <1>3, <2>2 DEF CountRunning
    <3>2. r \in Thread /\ r.op = th[t].op /\ r.id = th[t].id
          /\ r.pc = "count_creating" /\ r.sess = th[t].sess /\ r.then = th[t].then
      BY <1>1, <1>2, <2>1 DEF Thread
    <3>3. LocalOK(r)
      BY <1>2, <3>2 DEF LocalOK
    <3>4. th' \in [Threads -> Thread] /\ \A u \in Threads : LocalOK(th'[u])
      BY <1>1, <3>1, <3>2, <3>3
    <3> QED  BY <3>1, <3>4, ThreadOnlyOK
  <2>3. CASE ~ Live(t)
    BY <1>1, <1>2, <1>3, <2>3, PlainGotoOK, ThreadOnlyOK DEF CountRunning
  <2> QED  BY <2>2, <2>3
<1>4. CASE CountCreating(t)
  <2> DEFINE r == [th[t] EXCEPT !.pc = "provision", !.seen = 0]
  <2>1. OnlyThread /\ (th' = [th EXCEPT ![t] = r] \/ Goto(t, "done"))
    BY <1>1, <1>4 DEF CountCreating
  <2>2. r \in Thread /\ r.op = th[t].op /\ r.id = th[t].id
        /\ r.pc = "provision" /\ r.sess = th[t].sess /\ r.then = th[t].then
    BY <1>1, <1>2 DEF Thread
  <2>3. LocalOK(r)
    BY <1>2, <2>2 DEF LocalOK
  <2>4. th' \in [Threads -> Thread] /\ \A u \in Threads : LocalOK(th'[u])
    <3>1. CASE Goto(t, "done")
      BY <1>1, <1>2, <3>1, PlainGotoOK
    <3>2. CASE th' = [th EXCEPT ![t] = r]
      BY <1>1, <2>2, <2>3, <3>2
    <3> QED  BY <2>1, <3>1, <3>2
  <2> QED  BY <2>1, <2>4, ThreadOnlyOK
<1>5. CASE Provision(t)
  <2>1. \A k \in Keys : /\ NewSession(t, k) \in Session
                        /\ NewSession(t, k).pod # None
    BY <1>1, ConfigAssumption, NoneIsNoKey
       DEF NewSession, ResolvedImage, Session, Thread
  <2>2. /\ \A k \in Keys : Fits(th[t].op, th[t].id, "persist", NewSession(t, k), th[t].then)
        /\ \A k \in Keys : Fits(th[t].op, th[t].id, "claim_wait", NewSession(t, k), th[t].then)
    BY <1>1, <2>1 DEF Fits, NamedAt, ResumeAt, PurgeAt, StopAt, CreateAt, Labels, Id
  <2>3. faults' \in 0 .. MaxFaults /\ idle' \in SUBSET PoolKeys
    BY <1>5, FaultsTyped, NoEffectTyped DEF Provision, Acquire, IInv, TypeOK
  <2>4. th' \in [Threads -> Thread] /\ \A u \in Threads : LocalOK(th'[u])
    <3>1. CASE Goto(t, "done")
      BY <1>1, <1>2, <3>1, PlainGotoOK
    <3>2. CASE \E k \in PoolKeys : Acquire(t, k)
      <4>1. PICK k \in PoolKeys : Acquire(t, k)
        BY <3>2
      <4>2. k \in Keys /\ GotoWith(t, "persist", NewSession(t, k))
        BY <4>1, KeysAssumption DEF Acquire
      <4> QED  BY <1>2, <2>1, <2>2, <4>2, GotoOK
    <3>3. CASE GotoWith(t, "claim_wait", NewSession(t, Id(t)))
      <4>1. Id(t) \in Keys
        BY <1>1, KeysAssumption
      <4> QED  BY <1>2, <2>1, <2>2, <3>3, <4>1, GotoOK
    <3> QED  BY <1>5, <3>1, <3>2, <3>3 DEF Provision
  <2> QED  BY <1>5, <2>3, <2>4 DEF Provision, IInv, TypeOK, clusterVars, ClusterTypeOK
<1>6. CASE ClaimWait(t)
  <2>0. OKAt("claim_create")
    BY <1>1, <1>6 DEF ClaimWait, At, Fits, NamedAt, ResumeAt, PurgeAt, StopAt, CreateAt, Labels
  <2>1. OnlyThread /\ (Goto(t, "claim_create") \/ Goto(t, "done"))
    BY <1>6 DEF ClaimWait
  <2>2. th' \in [Threads -> Thread] /\ \A u \in Threads : LocalOK(th'[u])
    BY <1>1, <1>2, <2>0, <2>1, PlainGotoOK
  <2> QED  BY <2>1, <2>2, ThreadOnlyOK
<1> QED  BY <1>3, <1>4, <1>5, <1>6

\* Runtime.Create.
LEMMA RuntimeCreateOK ==
    ASSUME IInv, NEW t \in Threads,
           \/ ClaimCreate(t) \/ SecretCreate(t) \/ PodCreate(t)
           \/ RollbackSecret(t) \/ RollbackClaim(t)
    PROVE  IInv'
<1> DEFINE OKAt(label) == Fits(th[t].op, th[t].id, label, th[t].sess, th[t].then)
<1>1. /\ Id(t) \in Ids /\ Id(t) \in Keys /\ ClusterTypeOK /\ StoreUnchanged
      /\ OKAt(th[t].pc)
  BY ThreadFacts DEF ClaimCreate, SecretCreate, PodCreate, RollbackSecret, RollbackClaim,
     At, Id, IInv, TypeOK
<1>2. /\ {"done", "secret_create", "pod_create", "persist", "rollback_secret",
          "rollback_claim"} \subseteq Labels
      /\ OKAt("done") /\ OKAt("rollback_secret") /\ OKAt("rollback_claim")
  BY <1>1 DEF Fits, NamedAt, ResumeAt, PurgeAt, StopAt, CreateAt, Labels, Id
<1>3. /\ CreateClaim(Id(t)) => ClusterTypeOK'
      /\ CreateSecretObject(Id(t)) => ClusterTypeOK'
      /\ CreatePodMounting(Id(t), Id(t)) => ClusterTypeOK'
      /\ DeleteSecret(Id(t)) => ClusterTypeOK'
      /\ DeleteClaim(Id(t)) => ClusterTypeOK'
  BY <1>1, EffectsTyped
<1>4. CASE ClaimCreate(t)
  <2>1. OKAt("secret_create")
    BY <1>1, <1>4 DEF ClaimCreate, At, Fits, NamedAt, ResumeAt, PurgeAt, StopAt, CreateAt, Labels
  <2>2. RequestOutcome(t, "secret_create", "done") \/ Refused(t, "done")
    BY <1>1, <1>3, <1>4, FaultsTyped, NoEffectTyped DEF ClaimCreate, Request, RequestOutcome
  <2> QED  BY <1>1, <1>2, <2>1, <2>2, RequestOK, RefusedOK
<1>5. CASE SecretCreate(t)
  <2>1. OKAt("pod_create")
    BY <1>1, <1>5 DEF SecretCreate, At, Fits, NamedAt, ResumeAt, PurgeAt, StopAt, CreateAt, Labels
  <2>2. RequestOutcome(t, "pod_create", "done") \/ Refused(t, "done")
    BY <1>1, <1>3, <1>5, FaultsTyped, NoEffectTyped DEF SecretCreate, Request, RequestOutcome
  <2> QED  BY <1>1, <1>2, <2>1, <2>2, RequestOK, RefusedOK
<1>6. CASE PodCreate(t)
  <2>1. OKAt("persist")
    BY <1>1, <1>6 DEF PodCreate, At, Fits, NamedAt, ResumeAt, PurgeAt, StopAt, CreateAt, Labels
  <2>2. RequestOutcome(t, "persist", "rollback_secret") \/ Refused(t, "rollback_secret")
    BY <1>1, <1>3, <1>6, FaultsTyped, NoEffectTyped DEF PodCreate, Request, RequestOutcome
  <2> QED  BY <1>1, <1>2, <2>1, <2>2, RequestOK, RefusedOK
<1>7. CASE RollbackSecret(t)
  <2>1. RequestOutcome(t, "rollback_claim", "rollback_claim")
    BY <1>1, <1>3, <1>7, FaultsTyped, NoEffectTyped DEF RollbackSecret, Request, RequestOutcome
  <2> QED  BY <1>2, <2>1, RequestOK
<1>8. CASE RollbackClaim(t)
  <2>1. RequestOutcome(t, "done", "done")
    BY <1>1, <1>3, <1>8, FaultsTyped, NoEffectTyped DEF RollbackClaim, Request, RequestOutcome
  <2> QED  BY <1>2, <2>1, RequestOK
<1> QED  BY <1>4, <1>5, <1>6, <1>7, <1>8

\* The store writes of Create and the wait between them.
LEMMA PublishOK ==
    ASSUME IInv, NEW t \in Threads,
           Persist(t) \/ WaitReady(t) \/ MarkRunning(t) \/ MarkDead(t)
    PROVE  IInv'
<1> DEFINE s == th[t].sess
           OKAt(label) == Fits(th[t].op, th[t].id, label, th[t].sess, th[t].then)
<1>1. /\ Id(t) \in Ids /\ s \in Session /\ s.pod # None /\ store \in [Ids -> Session]
  BY ThreadFacts DEF Persist, WaitReady, MarkRunning, MarkDead, At, Id, IInv, TypeOK,
     Fits, NamedAt
<1>2. /\ {"done", "wait_ready", "mark_running", "purge_pod", "mark_dead"} \subseteq Labels
      /\ OKAt("done") /\ OKAt("wait_ready") /\ OKAt("mark_running")
      /\ \A r \in Session : Fits(th[t].op, th[t].id, "done", r, th[t].then)
      /\ \A r \in Session : Fits(th[t].op, th[t].id, "purge_pod", r, "done")
      /\ \A r \in Session : r.pod # None
            => Fits(th[t].op, th[t].id, "purge_pod", r, "mark_dead")
  BY <1>1 DEF Fits, NamedAt, ResumeAt, PurgeAt, StopAt, CreateAt, Labels, Id
<1>3. /\ [s EXCEPT !.state = "running"] \in Session
      /\ [s EXCEPT !.state = "running"].pod # None
      /\ [s EXCEPT !.state = "dead"] \in Session
  BY <1>1, SetState
<1>4. CASE Persist(t)
  <2>1. store' \in [Ids -> Session]
    BY <1>1, <1>4 DEF Persist
  <2>2. th' \in [Threads -> Thread] /\ \A u \in Threads : LocalOK(th'[u])
    BY <1>1, <1>2, <1>4, CallOK, PlainGotoOK DEF Persist
  <2> QED  BY <1>4, <2>1, <2>2, StoreWriteOK DEF Persist
<1>5. CASE WaitReady(t)
  <2>1. th' \in [Threads -> Thread] /\ \A u \in Threads : LocalOK(th'[u])
    BY <1>1, <1>2, <1>5, CallOK, PlainGotoOK DEF WaitReady
  <2> QED  BY <1>5, <2>1, ThreadOnlyOK DEF WaitReady
<1>6. CASE MarkRunning(t)
  <2> DEFINE r == [s EXCEPT !.state = "running"]
  <2>1. \/ GotoWith(t, "done", r) /\ store' = [store EXCEPT ![Id(t)] = r]
        \/ CallRuntime(t, "purge_pod", r, "mark_dead") /\ store' = store
    BY <1>6 DEF MarkRunning
  <2>2. store' \in [Ids -> Session]
    BY <1>1, <1>3, <2>1
  <2>3. th' \in [Threads -> Thread] /\ \A u \in Threads : LocalOK(th'[u])
    BY <1>2, <1>3, <2>1, CallOK, GotoOK
  <2> QED  BY <1>6, <2>2, <2>3, StoreWriteOK DEF MarkRunning
<1>7. CASE MarkDead(t)
  BY <1>1, <1>3, <1>7, UpdateOK DEF MarkDead
<1> QED  BY <1>4, <1>5, <1>6, <1>7

\* Resume and cleanupFailedResume.
LEMMA ResumeStepOK ==
    ASSUME IInv, NEW t \in Threads, ResumeStep(t)
    PROVE  IInv'
<1> DEFINE s == th[t].sess
           OKAt(label) == Fits(th[t].op, th[t].id, label, th[t].sess, th[t].then)
<1>1. /\ Id(t) \in Ids /\ Id(t) \in Keys /\ s \in Session /\ ClusterTypeOK
      /\ store \in [Ids -> Session] /\ OKAt(th[t].pc)
  BY ThreadFacts DEF ResumeStep, ResumeGet, ResumeSecret, ResumePod, MarkCreating, ResumeWait,
     MarkResumed, RestoreStopped, At, Id, IInv, TypeOK
<1>2. /\ {"done", "resume_secret", "resume_pod", "mark_creating", "resume_wait", "mark_resumed",
          "stop_pod", "restore_stopped"} \subseteq Labels
      /\ OKAt("done")
      /\ \A r \in Session : r # AbsentSession
            => Fits(th[t].op, th[t].id, "resume_secret", r, th[t].then)
      /\ \A r \in Session : r.pod # None
            => /\ Fits(th[t].op, th[t].id, "resume_wait", r, th[t].then)
               /\ Fits(th[t].op, th[t].id, "mark_resumed", r, th[t].then)
               /\ Fits(th[t].op, th[t].id, "stop_pod", r, "restore_stopped")
  BY <1>1 DEF Fits, NamedAt, ResumeAt, PurgeAt, StopAt, CreateAt, Labels, Id
<1>3. CASE ResumeGet(t)
  <2>1. CASE Live(t) /\ store[Id(t)].state = "stopped"
    <3>1. store[Id(t)] \in Session /\ store[Id(t)] # AbsentSession
      BY <1>1, <2>1 DEF AbsentSession
    <3> QED  BY <1>2, <1>3, <2>1, <3>1, GotoOK, ThreadOnlyOK DEF ResumeGet
  <2>2. CASE ~ (Live(t) /\ store[Id(t)].state = "stopped")
    BY <1>2, <1>3, <2>2, PlainGotoOK, ThreadOnlyOK DEF ResumeGet
  <2> QED  BY <2>1, <2>2
<1>4. CASE ResumeSecret(t) \/ ResumePod(t)
  <2>1. s # AbsentSession /\ StoreUnchanged
    BY <1>1, <1>4 DEF ResumeSecret, ResumePod, At, Fits, ResumeAt
  <2>2. OKAt("resume_pod") /\ OKAt("mark_creating")
    BY <1>1, <2>1 DEF Fits, NamedAt, ResumeAt, PurgeAt, StopAt, CreateAt, Labels, Id
  <2>3. /\ CreateSecretObject(Id(t)) => ClusterTypeOK'
        /\ CreatePodMounting(Id(t), s.pvc) => ClusterTypeOK'
    BY <1>1, <2>1, TrackedRecord, EffectsTyped
  <2>4. CASE ResumeSecret(t)
    <3>1. RequestOutcome(t, "resume_pod", "done") \/ Refused(t, "done")
      BY <2>1, <2>3, <2>4, FaultsTyped, NoEffectTyped DEF ResumeSecret, Request, RequestOutcome
    <3> QED  BY <1>2, <2>1, <2>2, <3>1, RequestOK, RefusedOK
  <2>5. CASE ResumePod(t)
    <3>1. RequestOutcome(t, "mark_creating", "done") \/ Refused(t, "done")
      BY <2>1, <2>3, <2>5, FaultsTyped, NoEffectTyped DEF ResumePod, Request, RequestOutcome
    <3> QED  BY <1>2, <2>1, <2>2, <3>1, RequestOK, RefusedOK
  <2> QED  BY <1>4, <2>4, <2>5
<1>5. CASE MarkCreating(t)
  <2> DEFINE r == ResumedSession(t, "creating")
  <2>1. s # AbsentSession
    BY <1>1, <1>5 DEF MarkCreating, At, Fits, ResumeAt
  <2>2. r \in Session /\ r.pod # None
    BY <1>1, <2>1, SetPod, NoneIsNoKey, Zenon DEF ResumedSession
  <2>3. \/ GotoWith(t, "resume_wait", r) /\ store' = [store EXCEPT ![Id(t)] = r]
        \/ CallRuntime(t, "stop_pod", r, "restore_stopped") /\ store' = store
    BY <1>5 DEF MarkCreating
  <2>4. store' \in [Ids -> Session]
    <3> HIDE DEF r
    <3> QED  BY <1>1, <2>2, <2>3
  <2>5. th' \in [Threads -> Thread] /\ \A u \in Threads : LocalOK(th'[u])
    <3> HIDE DEF r
    <3>1. CASE GotoWith(t, "resume_wait", r)
      BY <1>2, <2>2, <3>1, GotoOK
    <3>2. CASE CallRuntime(t, "stop_pod", r, "restore_stopped")
      BY <1>2, <2>2, <3>2, CallOK
    <3> QED  BY <2>3, <3>1, <3>2
  <2> QED  BY <1>5, <2>4, <2>5, StoreWriteOK DEF MarkCreating
<1>6. CASE ResumeWait(t)
  <2>1. s.pod # None
    BY <1>1, <1>6 DEF ResumeWait, At, Fits, NamedAt
  <2>2. th' \in [Threads -> Thread] /\ \A u \in Threads : LocalOK(th'[u])
    BY <1>1, <1>2, <1>6, <2>1, CallOK, PlainGotoOK DEF ResumeWait
  <2> QED  BY <1>6, <2>2, ThreadOnlyOK DEF ResumeWait
<1>7. CASE MarkResumed(t) \/ RestoreStopped(t)
  <2>0. th[t].pc \in {"mark_resumed", "restore_stopped"}
    BY <1>7 DEF MarkResumed, RestoreStopped, At
  <2>1. s # AbsentSession
    BY <1>1, <2>0, NamedRecord DEF Fits, NamedAt
  <2>2. /\ ResumedSession(t, "running") \in Session
        /\ [s EXCEPT !.pod = None, !.state = "stopped"] \in Session
    BY <1>1, <2>1, SetPod, Zenon DEF ResumedSession
  <2> QED  BY <1>1, <1>7, <2>2, UpdateOK DEF MarkResumed, RestoreStopped
<1> QED  BY <1>3, <1>4, <1>5, <1>6, <1>7 DEF ResumeStep

\* The pool and the cluster.
LEMMA OthersOK ==
    ASSUME IInv, ClusterActs \/ \E k \in PoolKeys : PoolRefills(k)
    PROVE  IInv'
<1>1. CASE ClusterActs
  BY <1>1, ClusterStepTyped DEF ClusterActs, IInv, TypeOK
<1>2. CASE \E k \in PoolKeys : PoolRefills(k)
  <2>1. PICK k \in PoolKeys : PoolRefills(k)
    BY <1>2
  <2>2. k \in Keys
    BY KeysAssumption
  <2>3. ClusterTypeOK'
    BY <2>1, <2>2 DEF PoolRefills, IInv, TypeOK, ClusterTypeOK, PodPhases, ClaimPhases
  <2>4. idle' \in SUBSET PoolKeys
    BY <2>1 DEF PoolRefills, IInv, TypeOK
  <2> QED  BY <2>1, <2>3, <2>4 DEF PoolRefills, IInv, TypeOK
<1> QED  BY <1>1, <1>2

\* Every step preserves IInv.
LEMMA StepOK ==
    ASSUME IInv, [Next]_vars
    PROVE  IInv'
<1>1. ASSUME NEW t \in Threads, Progress(t) \/ LockSession(t) \/ Cancel(t)
      PROVE  IInv'
  <2>1. CreateStep(t) => IInv'
    BY AdmitOK, RuntimeCreateOK, PublishOK DEF CreateStep
  <2> QED  BY <1>1, <2>1, EnsureStepOK, PurgeStepOK, StopStepOK, ResumeStepOK, DeleteStepOK,
              ReturnOK, CancelOK DEF Progress
<1>2. CASE UNCHANGED vars
  BY <1>2 DEF vars, IInv, TypeOK, ClusterTypeOK, LocalOK
<1> QED  BY <1>1, <1>2, ArriveOK, OthersOK DEF Next

\* The registers of every thread fit its label, in every reachable state.
LEMMA IInvHolds == Spec => []IInv
BY InitOK, StepOK, PTL DEF Spec

\* Every reachable state is well typed.  In particular no record, and no clone
\* a goroutine works on, loses its pod name unless it is a stopped session:
\* MarkRunning, MarkDead, Stop and Delete always write back complete records.
THEOREM TypeCorrect == Spec => []TypeOK
<1>1. IInv => TypeOK
  BY DEF IInv
<1> QED  BY <1>1, IInvHolds, PTL

-----------------------------------------------------------------------------
(* Exclusive is inductive: what a step of a thread may do to the lock, to   *)
(* the set of tracked ids and to the labels, then why that is enough.      *)

\* Thread t moves to one of the labels, for the same request or for none.
Moves(t, labels) ==
    /\ \A u \in Threads \ {t} : th'[u] = th[u]
    /\ th'[t].pc \in labels
    /\ \/ th'[t] \in {FinishedThread, IdleThread}
       \/ th'[t].op = th[t].op /\ th'[t].id = th[t].id

\* No id becomes tracked.
NoNewRecord == \A i \in Ids : ~ Tracked(i) => ~ Tracked(i)'

Provisioning == CreateAt \ {"count_running"}

\* A move whose target label is not one of Create keeps Exclusive.
LEMMA OtherMoves ==
    ASSUME IInv, Exclusive, NEW t \in Threads, th[t].pc \notin {"idle", "lock", "done"},
           Moves(t, Labels \ (CreateAt \cup {"lock"})), UNCHANGED lock, NoNewRecord
    PROVE  Exclusive'
<1>1. Unclaimed'
  BY ThreadFacts DEF Exclusive, Unclaimed, Moves, NoNewRecord, CreateAt, Id, Live, Tracked
<1>2. HoldsLock'
  BY DEF Exclusive, HoldsLock, Moves, FinishedThread, IdleThread, Id
<1>3. Private'
  <2>1. \A u \in Threads : th[u].pc \in CreateAt => Id(u) # None
    BY ThreadFacts, NoneIsNoKey DEF CreateAt, Id
  <2> QED  BY <2>1 DEF Exclusive, Private, Moves, FinishedThread, IdleThread, Id
<1> QED  BY <1>1, <1>2, <1>3 DEF Exclusive

\* So does a move inside Create, beyond its first store call.
LEMMA CreateMoves ==
    ASSUME IInv, Exclusive, NEW t \in Threads, th[t].pc \in CreateAt,
           th[t].pc = "count_running" => Live(t),
           Moves(t, Labels \ {"lock", "count_running"}), UNCHANGED <<lock, store>>
    PROVE  Exclusive'
<1>1. Unclaimed'
  BY ThreadFacts DEF Exclusive, Unclaimed, Moves, CreateAt, Id, Live, Tracked,
     FinishedThread, IdleThread
<1>2. HoldsLock'
  BY DEF Exclusive, HoldsLock, Moves, FinishedThread, IdleThread, Id, CreateAt
<1>3. Private'
  <2>1. \A u \in Threads : th[u].pc \in CreateAt => Id(u) # None
    BY ThreadFacts, NoneIsNoKey DEF CreateAt, Id
  <2> QED  BY <2>1 DEF Exclusive, Private, Moves, FinishedThread, IdleThread, Id
<1> QED  BY <1>1, <1>2, <1>3 DEF Exclusive

\* And a move of EnsureSession into Create, which holds the lock of its id.
LEMMA EnsureMoves ==
    ASSUME IInv, Exclusive, NEW t \in Threads, th[t].op = "ensure",
           th[t].pc \notin {"idle", "lock", "done"},
           Moves(t, {"count_running"}), UNCHANGED lock, NoNewRecord, th[t].id \in Ids,
           ~ th'[t].cancelled => store'[th[t].id].state = "absent"
    PROVE  Exclusive'
<1>0. th'[t].op = "ensure" /\ th'[t].id = th[t].id
  BY DEF Moves, FinishedThread, IdleThread
<1>1. Unclaimed'
  <2>1. ASSUME NEW u \in Threads, u # t, th'[u].pc \in CreateAt
        PROVE  ~ Tracked(Id(u))' \/ (th'[u].pc = "count_running" /\ ~ Live(u)' /\ th'[u].op = "ensure")
    BY <2>1, ThreadFacts DEF Exclusive, Unclaimed, Moves, NoNewRecord, CreateAt, Id, Live, Tracked
  <2>2. ~ Tracked(Id(t))' \/ (th'[t].pc = "count_running" /\ ~ Live(t)' /\ th'[t].op = "ensure")
    BY <1>0 DEF Moves, Id, Live, Tracked
  <2> QED  BY <2>1, <2>2 DEF Unclaimed
<1>2. HoldsLock'
  BY DEF Exclusive, HoldsLock, Moves, FinishedThread, IdleThread, Id
<1>3. Private'
  BY <1>0 DEF Exclusive, Private, Moves, Id
<1> QED  BY <1>1, <1>2, <1>3 DEF Exclusive

\* A jump or a call moves one thread and nothing else of th.
LEMMA JumpMoves ==
    ASSUME IInv, NEW t \in Threads, NEW label \in Labels, NEW s, NEW ret,
           GotoWith(t, label, s) \/ CallRuntime(t, label, s, ret)
    PROVE  Moves(t, {label}) /\ (label # "done" => th'[t].cancelled = th[t].cancelled)
<1>0. th \in [Threads -> Thread]
  BY DEF IInv, TypeOK
<1>1. CASE GotoWith(t, label, s)
  BY <1>0, <1>1 DEF GotoWith, Moves, Thread, FinishedThread, IdleThread
<1>2. CASE CallRuntime(t, label, s, ret)
  BY <1>0, <1>2 DEF CallRuntime, Moves, Thread
<1> QED  BY <1>1, <1>2

\* A jump to one of some labels is a move to these labels.
LEMMA JumpsInto ==
    ASSUME IInv, NEW t \in Threads, NEW labels \in SUBSET Labels, NEW label \in labels,
           NEW s, NEW ret, GotoWith(t, label, s) \/ CallRuntime(t, label, s, ret)
    PROVE  Moves(t, labels)
<1>1. label \in Labels
  OBVIOUS
<1>2. Moves(t, {label})
  BY <1>1, JumpMoves
<1> QED  BY <1>2 DEF Moves

\* A plain jump moves one thread to one of the labels it may lead to.
LEMMA GotoMoves ==
    ASSUME IInv, NEW t \in Threads, NEW labels \in SUBSET Labels,
           \E label \in labels : Goto(t, label)
    PROVE  Moves(t, labels)
BY JumpsInto DEF Goto

\* A last Update writes only an id that is tracked.
LEMMA UpdateMoves ==
    ASSUME IInv, NEW t \in Threads, NEW background, NEW s,
           UpdateAndFinish(t, background, s)
    PROVE  Moves(t, {"done"}) /\ UNCHANGED lock /\ NoNewRecord
<1>1. Moves(t, {"done"})
  BY GotoMoves DEF UpdateAndFinish, Labels
<1>2. NoNewRecord
  BY DEF UpdateAndFinish, NoNewRecord, CanUpdate, Tracked, IInv, TypeOK
<1> QED  BY <1>1, <1>2 DEF UpdateAndFinish

\* The arrival, the cancellation and the return of a request, and the lock.
LEMMA ExclusiveOutside ==
    ASSUME IInv, Exclusive, NEW t \in Threads,
           \/ \E op \in Requests, i \in Ids, want \in Wants : Arrive(t, op, i, want)
           \/ Cancel(t) \/ Return(t) \/ LockSession(t)
    PROVE  Exclusive'
<1>0. th \in [Threads -> Thread] /\ lock \in [Ids -> Threads \cup {None}]
  BY DEF IInv, TypeOK
<1>a. \A u \in Threads : th[u].pc \in CreateAt => Id(u) \in Ids /\ Id(u) # None
  BY ThreadFacts, NoneIsNoKey DEF CreateAt, Id
<1>1. ASSUME NEW op \in Requests, NEW i \in Ids, NEW want \in Wants, Arrive(t, op, i, want)
      PROVE  Exclusive'
  <2> DEFINE r == [IdleThread EXCEPT !.op = op, !.id = i, !.want = want, !.pc = Entry(op)]
  <2>1. th' = [th EXCEPT ![t] = r] /\ UNCHANGED <<store, lock>>
    BY <1>1 DEF Arrive, OnlyThread
  <2>2. /\ r.op = op /\ r.id = i /\ r.pc = Entry(op) /\ ~ r.cancelled
        /\ Entry(op) \in CreateAt => op = "create"
        /\ op \in {"ensure", "clear"} => Entry(op) = "lock"
    BY ConfigAssumption DEF IdleThread, Entry, CreateAt, RequestKinds
  <2>3. /\ op = "create" => ~ Tracked(i) /\ \A u \in Threads : Id(u) # i
        /\ op # "create" => ~ Unpublished(i)
    BY <1>1 DEF Arrive, Fresh
  <2>4. Unclaimed'
    BY <1>0, <2>1, <2>2, <2>3 DEF Exclusive, Unclaimed, Tracked, Id, Live
  <2>5. HoldsLock'
    BY <1>0, <2>1, <2>2 DEF Exclusive, HoldsLock, Id
  <2>6. Private'
    <3>1. \A u \in Threads : u # t /\ th[u].op = "create" /\ th[u].pc \in CreateAt
                => Id(u) # i
      BY <2>3 DEF Exclusive, Unclaimed, Unpublished
    <3> QED  BY <1>0, <2>1, <2>2, <2>3, <3>1 DEF Exclusive, Private, Id
  <2> QED  BY <2>4, <2>5, <2>6 DEF Exclusive
<1>2. CASE Cancel(t)
  <2>1. /\ th' = [th EXCEPT ![t].cancelled = TRUE] /\ UNCHANGED <<store, lock>>
        /\ Live(t)
    BY <1>2 DEF Cancel, StoreUnchanged
  <2>2. /\ \A u \in Threads : /\ th'[u].op = th[u].op /\ th'[u].id = th[u].id
                              /\ th'[u].pc = th[u].pc
        /\ \A u \in Threads \ {t} : th'[u] = th[u]
    BY <1>0, <2>1 DEF Thread
  <2>3. Unclaimed'
    BY <2>1, <2>2 DEF Exclusive, Unclaimed, Tracked, Id, Live
  <2> QED  BY <2>1, <2>2, <2>3 DEF Exclusive, HoldsLock, Private, Id
<1>3. CASE Return(t)
  <2>1. /\ th' = [th EXCEPT ![t] = IdleThread] /\ UNCHANGED store
        /\ \A i \in Ids : lock[i] # t => lock'[i] = lock[i]
    BY <1>0, <1>3 DEF Return
  <2>2. Unclaimed'
    BY <1>0, <2>1 DEF Exclusive, Unclaimed, Tracked, Id, Live, IdleThread, CreateAt
  <2>3. HoldsLock'
    <3>1. ASSUME NEW u \in Threads, th'[u].op \in {"ensure", "clear"},
                 th'[u].pc \notin {"idle", "lock", "done"}
          PROVE  lock'[th'[u].id] = u
      <4>1. u # t /\ th'[u] = th[u]
        BY <1>0, <2>1, <3>1 DEF IdleThread
      <4>2. lock[Id(u)] = u
        BY <3>1, <4>1 DEF Exclusive, HoldsLock
      <4>3. Id(u) \in Ids
        BY <3>1, <4>1, ThreadFacts DEF Fits, Id
      <4> QED  BY <2>1, <4>1, <4>2, <4>3 DEF Id
    <3> QED  BY <3>1 DEF HoldsLock, Id
  <2>4. Private'
    BY <1>0, <1>a, <2>1 DEF Exclusive, Private, Id, IdleThread
  <2> QED  BY <2>2, <2>3, <2>4 DEF Exclusive
<1>4. CASE LockSession(t)
  <2>1. /\ Goto(t, AfterLock(t)) /\ AfterLock(t) \in {"ensure_get", "clear_get"}
        /\ lock[Id(t)] = None /\ lock' = [lock EXCEPT ![Id(t)] = t] /\ UNCHANGED store
    BY <1>4 DEF LockSession, AfterLock
  <2>2. Moves(t, {"ensure_get", "clear_get"}) /\ Id(t) \in Ids
    BY <1>4, <2>1, GotoMoves, ThreadFacts DEF Labels, LockSession, At, Id
  <2>3. th'[t].id = th[t].id
    BY <2>2 DEF Moves, FinishedThread, IdleThread
  <2>4. Unclaimed'
    BY <2>1, <2>2 DEF Exclusive, Unclaimed, Moves, Tracked, Id, Live, CreateAt
  <2>5. HoldsLock'
    <3>1. \A u \in Threads : u # None
      BY NoneAssumption
    <3> QED  BY <1>0, <2>1, <2>2, <2>3, <3>1 DEF Exclusive, HoldsLock, Moves, Id
  <2>6. Private'
    BY <2>2, <2>3 DEF Exclusive, Private, Moves, Id, CreateAt
  <2> QED  BY <2>4, <2>5, <2>6 DEF Exclusive
<1> QED  BY <1>1, <1>2, <1>3, <1>4

\* EnsureSession, Clear and purgeAndForget.
LEMMA ExclusiveEnsure ==
    ASSUME IInv, Exclusive, NEW t \in Threads, EnsureStep(t)
    PROVE  Exclusive'
<1>0. /\ th[t].pc \in {"ensure_get", "clear_get", "forget"} /\ UNCHANGED lock
      /\ Id(t) \in Ids /\ store \in [Ids -> Session]
      /\ th[t].pc = "ensure_get" => th[t].op = "ensure"
  BY ThreadFacts DEF EnsureStep, EnsureGet, ClearGet, Forget, At, Id, OnlyThread, Fits, IInv, TypeOK
<1>1. CASE EnsureGet(t)
  <2>0. UNCHANGED store /\ NoNewRecord
    BY <1>1 DEF EnsureGet, OnlyThread, NoNewRecord, Tracked
  <2>1. CASE Goto(t, "count_running") /\ ~ (Live(t) /\ Tracked(Id(t)))
    <3>1. Moves(t, {"count_running"}) /\ th'[t].cancelled = th[t].cancelled
      BY <2>1, JumpMoves DEF Goto, Labels
    <3> QED  BY <1>0, <1>1, <2>0, <2>1, <3>1, EnsureMoves DEF EnsureGet, At, Id, Live, Tracked
  <2>2. CASE \/ \E s, ret : CallRuntime(t, "purge_pod", s, ret)
             \/ Goto(t, "done") \/ Goto(t, "resume_get")
    <3>1. Moves(t, Labels \ (CreateAt \cup {"lock"}))
      BY <2>2, JumpMoves DEF Goto, Labels, CreateAt, Moves
    <3> QED  BY <1>0, <2>0, <3>1, OtherMoves
  <2> QED  BY <1>1, <2>1, <2>2 DEF EnsureGet
<1>2. CASE ClearGet(t)
  <2>1. Moves(t, Labels \ (CreateAt \cup {"lock"}))
    BY <1>2, JumpMoves DEF ClearGet, Goto, Labels, CreateAt, Moves
  <2>2. NoNewRecord
    BY <1>2 DEF ClearGet, OnlyThread, NoNewRecord, Tracked
  <2> QED  BY <1>0, <2>1, <2>2, OtherMoves
<1>3. CASE Forget(t)
  <2>1. NoNewRecord
    BY <1>0, <1>3 DEF Forget, NoNewRecord, Tracked, AbsentSession
  <2>2. CASE th[t].op = "ensure"
    <3>1. store'[th[t].id].state = "absent"
      BY <1>0, <1>3, <2>2 DEF Forget, Tracked, AbsentSession, Id
    <3>2. Moves(t, {"count_running"})
      BY <1>3, <2>2, JumpMoves DEF Forget, Labels
    <3> QED  BY <1>0, <2>1, <2>2, <3>1, <3>2, EnsureMoves DEF Id
  <2>3. CASE th[t].op # "ensure"
    <3>1. Moves(t, Labels \ (CreateAt \cup {"lock"}))
      BY <1>3, <2>3, JumpMoves DEF Forget, Labels, CreateAt, Moves
    <3> QED  BY <1>0, <2>1, <3>1, OtherMoves
  <2> QED  BY <2>2, <2>3
<1> QED  BY <1>1, <1>2, <1>3 DEF EnsureStep

\* Runtime.Purge, Runtime.Stop and Delete never lead into Create, and write
\* only ids that are tracked.
LEMMA ExclusiveTeardown ==
    ASSUME IInv, Exclusive, NEW t \in Threads, PurgeStep(t) \/ StopStep(t) \/ DeleteStep(t)
    PROVE  Exclusive'
<1> DEFINE elsewhere == Labels \ (CreateAt \cup {"lock"})
<1>0. th[t].pc \notin {"idle", "lock", "done"} /\ th[t].then \in Labels
  BY ThreadFacts DEF PurgeStep, PurgePod, PurgeSecret, PurgeClaim,
     StopStep, StopGet, StopPod, StopSecret, MarkStopped,
     DeleteStep, DeleteGet, MarkDeleted, At
<1>1. CASE PurgeStep(t)
  <2>1. th[t].then \in {"forget", "done", "mark_dead", "mark_deleted"}
    BY <1>1, ThreadFacts DEF PurgeStep, PurgePod, PurgeSecret, PurgeClaim, At, Fits, PurgeAt
  <2>2. \E label \in {"purge_secret", "purge_claim", th[t].then, AfterFailedPurge(t)} :
            Goto(t, label)
    BY <1>1 DEF PurgeStep, PurgePod, PurgeSecret, PurgeClaim, Request, Refused
  <2>3. {"purge_secret", "purge_claim", th[t].then, AfterFailedPurge(t)} \subseteq elsewhere
    BY <2>1 DEF AfterFailedPurge, Labels, CreateAt
  <2>4. Moves(t, elsewhere)
    BY <2>2, <2>3, GotoMoves
  <2>5. UNCHANGED lock /\ NoNewRecord
    BY <1>1 DEF PurgeStep, PurgePod, PurgeSecret, PurgeClaim, StoreUnchanged, NoNewRecord, Tracked
  <2> QED  BY <1>0, <2>4, <2>5, OtherMoves
<1>2. CASE StopGet(t) \/ DeleteGet(t)
  <2>1. Moves(t, elsewhere)
    <3>1. {"done", "stop_pod", "purge_pod"} \subseteq elsewhere
      BY DEF Labels, CreateAt
    <3>2. \/ Goto(t, "done")
          \/ CallRuntime(t, "stop_pod", store[Id(t)], "mark_stopped")
          \/ CallRuntime(t, "purge_pod", store[Id(t)], "mark_deleted")
      BY <1>2 DEF StopGet, DeleteGet
    <3> QED  BY <3>1, <3>2, JumpsInto DEF Goto
  <2>2. UNCHANGED lock /\ NoNewRecord
    BY <1>2 DEF StopGet, DeleteGet, OnlyThread, NoNewRecord, Tracked
  <2> QED  BY <1>0, <2>1, <2>2, OtherMoves
<1>3. CASE StopPod(t) \/ StopSecret(t)
  <2>1. th[t].then \in {"mark_stopped", "restore_stopped"}
    BY <1>3, ThreadFacts DEF StopPod, StopSecret, At, Fits, StopAt
  <2>2. \E label \in {"stop_secret", th[t].then, AfterFailedStop(t)} : Goto(t, label)
    BY <1>3 DEF StopPod, StopSecret, Request
  <2>3. {"stop_secret", th[t].then, AfterFailedStop(t)} \subseteq elsewhere
    BY <2>1 DEF AfterFailedStop, Labels, CreateAt
  <2>4. Moves(t, elsewhere)
    BY <2>2, <2>3, GotoMoves
  <2>5. UNCHANGED lock /\ NoNewRecord
    BY <1>3 DEF StopPod, StopSecret, StoreUnchanged, NoNewRecord, Tracked
  <2> QED  BY <1>0, <2>4, <2>5, OtherMoves
<1>4. CASE MarkStopped(t) \/ MarkDeleted(t)
  <2>1. "done" \in elsewhere
    BY DEF Labels, CreateAt
  <2> QED  BY <1>0, <1>4, <2>1, UpdateMoves, OtherMoves DEF MarkStopped, MarkDeleted, Moves
<1> QED  BY <1>1, <1>2, <1>3, <1>4 DEF StopStep, DeleteStep

\* Neither does Resume.
LEMMA ExclusiveResume ==
    ASSUME IInv, Exclusive, NEW t \in Threads, ResumeStep(t)
    PROVE  Exclusive'
<1> DEFINE elsewhere == Labels \ (CreateAt \cup {"lock"})
<1>0. th[t].pc \notin {"idle", "lock", "done"}
  BY DEF ResumeStep, ResumeGet, ResumeSecret, ResumePod, MarkCreating, ResumeWait,
     MarkResumed, RestoreStopped, At
<1>1. CASE ResumeGet(t) \/ ResumeWait(t)
  <2>1. Moves(t, elsewhere)
    <3>1. {"done", "resume_secret", "mark_resumed", "stop_pod"} \subseteq elsewhere
      BY DEF Labels, CreateAt
    <3>2. \/ GotoWith(t, "resume_secret", store[Id(t)])
          \/ Goto(t, "done") \/ Goto(t, "mark_resumed")
          \/ CallRuntime(t, "stop_pod", th[t].sess, "restore_stopped")
      BY <1>1 DEF ResumeGet, ResumeWait
    <3> QED  BY <3>1, <3>2, JumpsInto DEF Goto
  <2>2. UNCHANGED lock /\ NoNewRecord
    BY <1>1 DEF ResumeGet, ResumeWait, OnlyThread, NoNewRecord, Tracked
  <2> QED  BY <1>0, <2>1, <2>2, OtherMoves
<1>2. CASE ResumeSecret(t) \/ ResumePod(t)
  <2>1. \E label \in {"resume_pod", "mark_creating", "done"} : Goto(t, label)
    BY <1>2 DEF ResumeSecret, ResumePod, Request, Refused
  <2>2. {"resume_pod", "mark_creating", "done"} \subseteq elsewhere
    BY DEF Labels, CreateAt
  <2>3. Moves(t, elsewhere)
    BY <2>1, <2>2, GotoMoves
  <2>4. UNCHANGED lock /\ NoNewRecord
    BY <1>2 DEF ResumeSecret, ResumePod, StoreUnchanged, NoNewRecord, Tracked
  <2> QED  BY <1>0, <2>3, <2>4, OtherMoves
<1>3. CASE MarkCreating(t)
  <2>1. Moves(t, elsewhere)
    <3>1. {"resume_wait", "stop_pod"} \subseteq elsewhere
      BY DEF Labels, CreateAt
    <3>2. \/ GotoWith(t, "resume_wait", ResumedSession(t, "creating"))
          \/ CallRuntime(t, "stop_pod", ResumedSession(t, "creating"), "restore_stopped")
      BY <1>3 DEF MarkCreating
    <3> QED  BY <3>1, <3>2, JumpsInto
  <2>2. UNCHANGED lock /\ NoNewRecord
    BY <1>3 DEF MarkCreating, NoNewRecord, CanUpdate, Tracked, IInv, TypeOK
  <2> QED  BY <1>0, <2>1, <2>2, OtherMoves
<1>4. CASE MarkResumed(t) \/ RestoreStopped(t)
  <2>1. "done" \in elsewhere
    BY DEF Labels, CreateAt
  <2> QED  BY <1>0, <1>4, <2>1, UpdateMoves, OtherMoves DEF MarkResumed, RestoreStopped, Moves
<1> QED  BY <1>1, <1>2, <1>3, <1>4 DEF ResumeStep

\* Create.  Only Persist adds a record: whoever else was about to provision the
\* same id would hold the same lock, or know an id that is still private.
LEMMA ExclusiveCreate ==
    ASSUME IInv, Exclusive, NEW t \in Threads, CreateStep(t)
    PROVE  Exclusive'
<1> DEFINE elsewhere == Labels \ (CreateAt \cup {"lock"})
           onwards == Labels \ {"lock", "count_running"}
<1>1. CASE CountRunning(t)
  <2>1. th[t].pc = "count_running" /\ UNCHANGED <<lock, store>>
    BY <1>1 DEF CountRunning, At, OnlyThread
  <2>2. CASE Live(t)
    <3>1. Moves(t, onwards)
      BY <1>1, <2>2 DEF CountRunning, Moves, Labels, IInv, TypeOK, Thread
    <3> QED  BY <2>1, <2>2, <3>1, CreateMoves DEF CreateAt
  <2>3. CASE ~ Live(t)
    <3>1. Goto(t, "done")
      BY <1>1, <2>3 DEF CountRunning
    <3>2. "done" \in elsewhere
      BY DEF Labels, CreateAt
    <3>3. Moves(t, elsewhere)
      BY <3>1, <3>2, JumpsInto DEF Goto
    <3> QED  BY <2>1, <3>3, OtherMoves DEF NoNewRecord, Tracked
  <2> QED  BY <2>2, <2>3
<1>2. CASE CountCreating(t) \/ Provision(t) \/ ClaimWait(t)
  <2>1. th[t].pc \in Provisioning /\ UNCHANGED <<lock, store>>
    BY <1>2 DEF CountCreating, Provision, ClaimWait, At, OnlyThread, Provisioning, CreateAt
  <2>2. Moves(t, onwards)
    <3>0. {"done", "claim_wait", "claim_create", "persist"} \subseteq onwards
      BY DEF Labels
    <3>1. CASE CountCreating(t)
      <4>1. CASE Goto(t, "done")
        BY <4>1, <3>0, JumpsInto DEF Goto
      <4>2. CASE th' = [th EXCEPT ![t].pc = "provision", ![t].seen = 0]
        BY <4>2 DEF Moves, Labels, IInv, TypeOK, Thread
      <4> QED  BY <3>1, <4>1, <4>2 DEF CountCreating
    <3>2. CASE Provision(t)
      <4>1. \/ Goto(t, "done") \/ GotoWith(t, "claim_wait", NewSession(t, Id(t)))
            \/ \E k \in PoolKeys : GotoWith(t, "persist", NewSession(t, k))
        BY <3>2 DEF Provision, Acquire
      <4> QED  BY <4>1, <3>0, JumpsInto DEF Goto
    <3>3. CASE ClaimWait(t)
      <4>1. Goto(t, "done") \/ Goto(t, "claim_create")
        BY <3>3 DEF ClaimWait
      <4> QED  BY <4>1, <3>0, JumpsInto DEF Goto
    <3> QED  BY <1>2, <3>1, <3>2, <3>3
  <2> QED  BY <2>1, <2>2, CreateMoves DEF Provisioning
<1>3. CASE ClaimCreate(t) \/ SecretCreate(t) \/ PodCreate(t)
  <2>1. th[t].pc \in Provisioning /\ UNCHANGED <<lock, store>>
    BY <1>3 DEF ClaimCreate, SecretCreate, PodCreate, At, StoreUnchanged, Provisioning, CreateAt
  <2>2. \E label \in {"secret_create", "pod_create", "persist", "rollback_secret", "done"} :
            Goto(t, label)
    BY <1>3 DEF ClaimCreate, SecretCreate, PodCreate, Request, Refused
  <2>3. {"secret_create", "pod_create", "persist", "rollback_secret", "done"} \subseteq onwards
    BY DEF Labels
  <2>4. Moves(t, onwards)
    BY <2>2, <2>3, GotoMoves
  <2> QED  BY <2>1, <2>4, CreateMoves DEF Provisioning
<1>4. CASE RollbackSecret(t) \/ RollbackClaim(t)
  <2>1. th[t].pc \notin {"idle", "lock", "done"} /\ UNCHANGED lock /\ NoNewRecord
    BY <1>4 DEF RollbackSecret, RollbackClaim, At, StoreUnchanged, NoNewRecord, Tracked
  <2>2. \E label \in {"rollback_claim", "done"} : Goto(t, label)
    BY <1>4 DEF RollbackSecret, RollbackClaim, Request
  <2>3. {"rollback_claim", "done"} \subseteq elsewhere
    BY DEF Labels, CreateAt
  <2>4. Moves(t, elsewhere)
    BY <2>2, <2>3, GotoMoves
  <2> QED  BY <2>1, <2>4, OtherMoves
<1>5. CASE Persist(t)
  <2>1. /\ th[t].pc = "persist" /\ UNCHANGED lock /\ th[t].op \in {"ensure", "create"}
        /\ th[t].id \in Ids /\ store \in [Ids -> Session]
    BY <1>5, ThreadFacts DEF Persist, At, Fits, CreateAt, IInv, TypeOK
  <2>2. Moves(t, {"wait_ready", "purge_pod"})
    BY <1>5, JumpMoves DEF Persist, Goto, Moves, Labels
  <2>3. \A i \in Ids : i # th[t].id => store'[i] = store[i]
    BY <1>5, <2>1 DEF Persist, Id
  <2>4. \A u \in Threads : u # t /\ th[u].pc \in CreateAt => th[u].id # th[t].id
    <3>1. SUFFICES ASSUME NEW u \in Threads, u # t, th[u].pc \in CreateAt, th[u].id = th[t].id
                   PROVE  FALSE
      OBVIOUS
    <3>2. th[u].op \in {"ensure", "create"}
      BY <3>1, ThreadFacts DEF Fits
    <3>3. th[u].op = "ensure" /\ th[t].op = "ensure"
      BY <2>1, <3>1, <3>2 DEF Exclusive, Private, CreateAt, Id
    <3> QED  BY <2>1, <3>1, <3>3 DEF Exclusive, HoldsLock, CreateAt, Id
  <2>5. Unclaimed'
    <3>1. ASSUME NEW u \in Threads, th'[u].pc \in CreateAt
          PROVE  u # t /\ th'[u] = th[u] /\ th[u].id \in Ids /\ th[u].id # th[t].id
      BY <2>2, <2>4, <3>1, ThreadFacts DEF Moves, CreateAt
    <3> QED  BY <2>3, <3>1 DEF Exclusive, Unclaimed, Tracked, Id, Live
  <2>6. HoldsLock'
    BY <2>1, <2>2 DEF Exclusive, HoldsLock, Moves, FinishedThread, IdleThread, Id
  <2>7. Private'
    <3>1. \A u \in Threads : th[u].pc \in CreateAt => th[u].id # None
      BY ThreadFacts, NoneIsNoKey DEF CreateAt
    <3> QED  BY <2>2, <3>1 DEF Exclusive, Private, Moves, FinishedThread, IdleThread, Id, CreateAt
  <2> QED  BY <2>5, <2>6, <2>7 DEF Exclusive
<1>6. CASE WaitReady(t) \/ MarkRunning(t)
  <2>1. th[t].pc \notin {"idle", "lock", "done"} /\ UNCHANGED lock
    BY <1>6 DEF WaitReady, MarkRunning, At, OnlyThread
  <2>2. NoNewRecord
    BY <1>6 DEF WaitReady, MarkRunning, OnlyThread, NoNewRecord, CanUpdate, Tracked, IInv, TypeOK
  <2>3. Moves(t, {"mark_running", "done", "purge_pod"})
    <3>1. CASE WaitReady(t)
      BY <3>1, JumpMoves DEF WaitReady, Goto, Moves, Labels
    <3>2. CASE MarkRunning(t)
      BY <3>2, JumpMoves DEF MarkRunning, Moves, Labels
    <3> QED  BY <1>6, <3>1, <3>2
  <2>4. Moves(t, elsewhere)
    BY <2>3 DEF Moves, Labels, CreateAt
  <2> QED  BY <2>1, <2>2, <2>4, OtherMoves
<1>7. CASE MarkDead(t)
  <2>1. th[t].pc = "mark_dead" /\ "done" \in elsewhere
    BY <1>7 DEF MarkDead, At, Labels, CreateAt
  <2> QED  BY <1>7, <2>1, UpdateMoves, OtherMoves DEF MarkDead, Moves
<1> QED  BY <1>1, <1>2, <1>3, <1>4, <1>5, <1>6, <1>7 DEF CreateStep

\* Exclusive holds initially and every step keeps it.
LEMMA ExclusiveInit == Init => Exclusive
BY DEF Init, Exclusive, Unclaimed, HoldsLock, Private, IdleThread, CreateAt

\* Every step keeps Exclusive.
LEMMA ExclusiveStep ==
    ASSUME IInv, Exclusive, [Next]_vars
    PROVE  Exclusive'
<1>1. CASE UNCHANGED <<store, lock, th>>
  BY <1>1 DEF Exclusive, Unclaimed, HoldsLock, Private, Tracked, Id, Live
<1>2. CASE ClusterActs \/ (\E k \in PoolKeys : PoolRefills(k)) \/ UNCHANGED vars
  BY <1>1, <1>2 DEF ClusterActs, PoolRefills, vars
<1>3. ASSUME NEW t \in Threads, Progress(t)
      PROVE  Exclusive'
  BY <1>3, ExclusiveEnsure, ExclusiveTeardown, ExclusiveCreate, ExclusiveResume,
     ExclusiveOutside DEF Progress
<1> QED  BY <1>2, <1>3, ExclusiveOutside DEF Next

\* No request that reaches store.Create finds a record of its id there, for any
\* number of ids, of threads and of faults.  The keyed lock covers EnsureSession
\* against itself and Clear, the randomness of NewID covers Create, and none of
\* Stop, Resume and Delete - which take no lock - can create a record.
THEOREM NoCollision == Spec => []PersistNeverCollides
<1>1. Init => IInv /\ Exclusive
  BY InitOK, ExclusiveInit
<1>2. IInv /\ Exclusive /\ [Next]_vars => IInv' /\ Exclusive'
  BY StepOK, ExclusiveStep
<1>3. Exclusive => PersistNeverCollides
  BY DEF Exclusive, Unclaimed, PersistNeverCollides, At, CreateAt
<1> QED  BY <1>1, <1>2, <1>3, PTL DEF Spec

\* Two requests for one session never provision it at the same time.
THEOREM OneProvisioner ==
    Spec => [](\A t, u \in Threads :
                 t # u /\ th[t].pc \in CreateAt /\ th[u].pc \in CreateAt => Id(t) # Id(u))
<1> DEFINE Alone == \A t, u \in Threads :
             t # u /\ th[t].pc \in CreateAt /\ th[u].pc \in CreateAt => Id(t) # Id(u)
<1>1. Init => IInv /\ Exclusive
  BY InitOK, ExclusiveInit
<1>2. IInv /\ Exclusive /\ [Next]_vars => IInv' /\ Exclusive'
  BY StepOK, ExclusiveStep
<1>3. IInv /\ Exclusive => Alone
  <2>1. SUFFICES ASSUME IInv, Exclusive, NEW t \in Threads, NEW u \in Threads, t # u,
                        th[t].pc \in CreateAt, th[u].pc \in CreateAt, Id(t) = Id(u)
                 PROVE  FALSE
    OBVIOUS
  <2>2. th[t].op \in {"ensure", "create"} /\ th[u].op \in {"ensure", "create"}
    BY <2>1, ThreadFacts DEF Fits
  <2>3. th[t].op = "ensure" /\ th[u].op = "ensure"
    BY <2>1, <2>2 DEF Exclusive, Private
  <2>4. lock[Id(t)] = t /\ lock[Id(u)] = u
    BY <2>1, <2>3 DEF Exclusive, HoldsLock, CreateAt
  <2> QED  BY <2>1, <2>4
<1> QED  BY <1>1, <1>2, <1>3, PTL DEF Spec
=============================================================================
