------------------------- MODULE SandboxServiceProofs -------------------------
(***************************************************************************)
(* What the lifecycle guarantees as long as nothing fails: proofs of       *)
(* CreatingIsAttended and, where only EnsureSession and Clear are served,  *)
(* of RunningMeansReady and NoLeakWhenQuiet, with any number of ids,       *)
(* threads, images and warm sandboxes.  Then, whatever fails: where only   *)
(* these two are served the manager implements SessionContract, and where  *)
(* nothing is stopped the running cap is missed by few.                    *)
(***************************************************************************)
EXTENDS SandboxOwnershipProofs

\* Without faults no context is cancelled: a cancellation counts as a fault.
Patient == faults = 0 /\ \A t \in Threads : Live(t)

\* A goroutine that will take the record of its id out of "creating": it waits
\* for the pod, or cleans up a Create or a Resume that has failed.
Attending(r) ==
    \/ r.pc \in {"wait_ready", "mark_running", "mark_dead",
                 "resume_wait", "mark_resumed", "restore_stopped"}
    \/ r.pc \in PurgeAt /\ r.then = "mark_dead"
    \/ r.pc \in StopAt /\ r.then = "restore_stopped"

Attended ==
    \A i \in InState("creating") : \E t \in Threads : Id(t) = i /\ Attending(th[t])

-----------------------------------------------------------------------------
(* Registers after a jump.                                                 *)

\* A jump sets the label and the clone, a call also where to return to, and a
\* request that is done keeps nothing.
LEMMA JumpRegs ==
    ASSUME IInv, NEW t \in Threads, NEW label, NEW s, NEW ret
    PROVE  /\ GotoWith(t, label, s) /\ label # "done" =>
                /\ th'[t].pc = label /\ th'[t].sess = s /\ th'[t].then = th[t].then
                /\ th'[t].id = th[t].id /\ th'[t].op = th[t].op
                /\ th'[t].cancelled = th[t].cancelled
           /\ GotoWith(t, "done", s) => th'[t] = FinishedThread
           /\ CallRuntime(t, label, s, ret) =>
                /\ th'[t].pc = label /\ th'[t].sess = s /\ th'[t].then = ret
                /\ th'[t].id = th[t].id /\ th'[t].op = th[t].op
                /\ th'[t].cancelled = th[t].cancelled
<1>0. th \in [Threads -> Thread]
  BY DEF IInv, TypeOK
<1>1. ASSUME GotoWith(t, label, s), label # "done"
      PROVE  /\ th'[t].pc = label /\ th'[t].sess = s /\ th'[t].then = th[t].then
             /\ th'[t].id = th[t].id /\ th'[t].op = th[t].op
             /\ th'[t].cancelled = th[t].cancelled
  <2>1. th'[t] = [th[t] EXCEPT !.pc = label, !.sess = s]
    BY <1>0, <1>1 DEF GotoWith
  <2> QED  BY <1>0, <2>1 DEF Thread
<1>2. ASSUME CallRuntime(t, label, s, ret)
      PROVE  /\ th'[t].pc = label /\ th'[t].sess = s /\ th'[t].then = ret
             /\ th'[t].id = th[t].id /\ th'[t].op = th[t].op
             /\ th'[t].cancelled = th[t].cancelled
  <2>1. th'[t] = [th[t] EXCEPT !.pc = label, !.sess = s, !.then = ret]
    BY <1>0, <1>2 DEF CallRuntime
  <2> QED  BY <1>0, <2>1 DEF Thread
<1>3. GotoWith(t, "done", s) => th'[t] = FinishedThread
  BY <1>0 DEF GotoWith
<1> QED  BY <1>1, <1>2, <1>3

\* The same of a jump that does not end the request ...
LEMMA MoveRegs ==
    ASSUME IInv, NEW t \in Threads, NEW label, NEW s, GotoWith(t, label, s), label # "done"
    PROVE  /\ th'[t].pc = label /\ th'[t].sess = s /\ th'[t].then = th[t].then
           /\ th'[t].id = th[t].id /\ th'[t].op = th[t].op
           /\ th'[t].cancelled = th[t].cancelled
<1> DEFINE g == GotoWith(t, label, s)
<1>1. g /\ label # "done" =>
          /\ th'[t].pc = label /\ th'[t].sess = s /\ th'[t].then = th[t].then
          /\ th'[t].id = th[t].id /\ th'[t].op = th[t].op
          /\ th'[t].cancelled = th[t].cancelled
  BY JumpRegs
<1>2. g
  OBVIOUS
<1> HIDE DEF g
<1> QED  BY <1>1, <1>2

\* ... and of one that does.
LEMMA EndRegs ==
    ASSUME IInv, NEW t \in Threads, NEW s, GotoWith(t, "done", s)
    PROVE  th'[t] = FinishedThread
<1>1. th \in [Threads -> Thread]
  BY DEF IInv, TypeOK
<1> QED  BY <1>1 DEF GotoWith

\* A goroutine that jumps is neither cancelled nor does it move another one.
LEMMA JumpIsPatient ==
    ASSUME IInv, NEW t \in Threads, Live(t), NEW label, NEW s, NEW ret,
           GotoWith(t, label, s) \/ CallRuntime(t, label, s, ret)
    PROVE  Live(t)'
<1>1. ~ FinishedThread.cancelled
  BY DEF FinishedThread, IdleThread
<1> QED  BY <1>1, JumpRegs DEF Live

-----------------------------------------------------------------------------
(* CreatingIsAttended.                                                     *)

\* A step of t that has no fault to spend: no context is cancelled by it.
LEMMA ThreadIsPatient ==
    ASSUME IInv, NEW t \in Threads, LockSession(t) \/ Progress(t), Live(t)
    PROVE  Live(t)'
<1>0. th \in [Threads -> Thread]
  BY DEF IInv, TypeOK
<1>1. CASE Return(t)
  BY <1>0, <1>1 DEF Return, Live, IdleThread
<1>2. CASE LockSession(t) \/ EnsureStep(t) \/ DeleteStep(t)
  BY <1>2, JumpIsPatient DEF LockSession, EnsureStep, EnsureGet, ClearGet, Forget,
     DeleteStep, DeleteGet, MarkDeleted, UpdateAndFinish, Goto
<1>3. CASE PurgeStep(t) \/ StopStep(t)
  BY <1>3, JumpIsPatient DEF PurgeStep, PurgePod, PurgeSecret, PurgeClaim,
     StopStep, StopGet, StopPod, StopSecret, MarkStopped, Request, Refused, UpdateAndFinish, Goto
<1>4. CASE ResumeStep(t)
  BY <1>4, JumpIsPatient DEF ResumeStep, ResumeGet, ResumeSecret, ResumePod, MarkCreating,
     ResumeWait, MarkResumed, RestoreStopped, Request, Refused, UpdateAndFinish, Goto
<1>5. CASE CountRunning(t) \/ CountCreating(t)
  <2>1. \/ Goto(t, "done")
        \/ \E label, n : th' = [th EXCEPT ![t].pc = label, ![t].seen = n]
    BY <1>5 DEF CountRunning, CountCreating
  <2>2. ASSUME NEW label, NEW n, th' = [th EXCEPT ![t].pc = label, ![t].seen = n]
        PROVE  Live(t)'
    <3>1. th'[t] = [th[t] EXCEPT !.pc = label, !.seen = n]
      BY <1>0, <2>2
    <3> QED  BY <1>0, <3>1 DEF Live, Thread
  <2> QED  BY <2>1, <2>2, JumpIsPatient DEF Goto
<1>6. CASE ClaimCreate(t) \/ SecretCreate(t) \/ PodCreate(t) \/ RollbackSecret(t) \/ RollbackClaim(t)
  BY <1>6, JumpIsPatient DEF ClaimCreate, SecretCreate, PodCreate, RollbackSecret, RollbackClaim,
     Request, Refused, Goto
<1>7. CASE Provision(t) \/ ClaimWait(t) \/ Persist(t) \/ WaitReady(t) \/ MarkRunning(t) \/ MarkDead(t)
  BY <1>7, JumpIsPatient DEF Provision, Acquire, ClaimWait, Persist, WaitReady, MarkRunning,
     MarkDead, UpdateAndFinish, Goto
<1> QED  BY <1>1, <1>2, <1>3, <1>4, <1>5, <1>6, <1>7 DEF Progress, CreateStep

\* Without faults none is spent, and no context is ever cancelled.
LEMMA PatientNext ==
    ASSUME IInv, Patient, [Next]_vars
    PROVE  Patient'
<1>0. th \in [Threads -> Thread] /\ faults = 0 /\ \A t \in Threads : Live(t)
  BY DEF IInv, TypeOK, Patient
<1>1. ASSUME NEW t \in Threads, LockSession(t) \/ Progress(t)
      PROVE  UNCHANGED faults
  <2>0. ~ (faults > 0)
    BY <1>0
  <2>1. LockSession(t) \/ EnsureStep(t) \/ DeleteStep(t) \/ Return(t) => UNCHANGED faults
    BY DEF LockSession, EnsureStep, EnsureGet, ClearGet, Forget, DeleteStep, DeleteGet, MarkDeleted,
       UpdateAndFinish, OnlyThread, Return
  <2>2. PurgeStep(t) \/ StopStep(t) => UNCHANGED faults
    BY <2>0 DEF PurgeStep, PurgePod, PurgeSecret, PurgeClaim, StopStep, StopGet, StopPod,
       StopSecret, MarkStopped, Request, Refused, UpdateAndFinish, OnlyThread
  <2>3. ResumeStep(t) => UNCHANGED faults
    BY <2>0 DEF ResumeStep, ResumeGet, ResumeSecret, ResumePod, MarkCreating, ResumeWait,
       MarkResumed, RestoreStopped, Request, Refused, UpdateAndFinish, OnlyThread
  <2>4. CreateStep(t) => UNCHANGED faults
    BY <2>0 DEF CreateStep, CountRunning, CountCreating, Provision, ClaimWait, ClaimCreate,
       SecretCreate, PodCreate, RollbackSecret, RollbackClaim, Persist, WaitReady, MarkRunning,
       MarkDead, Request, Refused, UpdateAndFinish, OnlyThread
  <2> QED  BY <1>1, <2>1, <2>2, <2>3, <2>4 DEF Progress
<1>2. ASSUME NEW t \in Threads, LockSession(t) \/ Progress(t)
      PROVE  Patient'
  <2>1. UNCHANGED faults /\ \A u \in Threads : u # t => th'[u] = th[u]
    BY <1>1, <1>2, OthersRest
  <2>2. Live(t)'
    BY <1>0, <1>2, ThreadIsPatient
  <2> QED  BY <1>0, <2>1, <2>2 DEF Patient, Live
<1>3. ASSUME NEW t \in Threads, NEW op \in Requests, NEW i \in Ids, NEW want \in Wants,
             Arrive(t, op, i, want)
      PROVE  Patient'
  <2> DEFINE r == [IdleThread EXCEPT !.op = op, !.id = i, !.want = want, !.pc = Entry(op)]
  <2>1. th' = [th EXCEPT ![t] = r]
    BY <1>3 DEF Arrive
  <2>2. r.cancelled = FALSE
    BY DEF IdleThread
  <2> QED  BY <1>0, <1>3, <2>1, <2>2 DEF Patient, Live, Arrive, OnlyThread
<1>4. ASSUME NEW t \in Threads, Cancel(t)
      PROVE  FALSE
  BY <1>0, <1>4 DEF Cancel
<1>5. CASE ClusterActs \/ UNCHANGED vars \/ \E k \in PoolKeys : PoolRefills(k)
  BY <1>0, <1>5 DEF ClusterActs, vars, PoolRefills, Patient, Live
<1> QED  BY <1>2, <1>3, <1>4, <1>5 DEF Next

\* A step of t adds no record in "creating" without attending to it, and gives
\* up attending to one only by taking it out of "creating".
TakesUp(t) == \A i \in Ids :
    store'[i].state = "creating" =>
        store[i].state = "creating" \/ (i = th'[t].id /\ Attending(th'[t]))
LetsGo(t) ==
    Attending(th[t]) => \/ th'[t].id = Id(t) /\ Attending(th'[t])
                        \/ store'[Id(t)].state # "creating"

\* Such a step keeps Attended.
LEMMA AttendedStep ==
    ASSUME Attended, NEW t \in Threads, \A u \in Threads : u # t => th'[u] = th[u],
           TakesUp(t), LetsGo(t)
    PROVE  Attended'
<1>1. SUFFICES ASSUME NEW i \in Ids, store'[i].state = "creating"
               PROVE  \E u \in Threads : th'[u].id = i /\ Attending(th'[u])
  BY DEF Attended, InState, Id
<1>2. CASE i = th'[t].id /\ Attending(th'[t])
  BY <1>2
<1>3. CASE store[i].state = "creating"
  <2>1. PICK u \in Threads : Id(u) = i /\ Attending(th[u])
    BY <1>3 DEF Attended, InState
  <2>2. CASE u # t
    BY <2>1, <2>2 DEF Id
  <2>3. CASE u = t
    BY <1>1, <2>1, <2>3 DEF LetsGo
  <2> QED  BY <2>2, <2>3
<1> QED  BY <1>1, <1>2, <1>3 DEF TakesUp

\* Steps at labels that attend to nothing, and write no record in "creating".
LEMMA AttendedElsewhere ==
    ASSUME IInv, NEW t \in Threads,
           \/ LockSession(t) \/ EnsureStep(t) \/ DeleteStep(t) \/ StopGet(t) \/ MarkStopped(t)
           \/ ResumeGet(t) \/ ResumeSecret(t) \/ ResumePod(t)
           \/ CountRunning(t) \/ CountCreating(t) \/ Provision(t) \/ ClaimWait(t)
           \/ ClaimCreate(t) \/ SecretCreate(t) \/ PodCreate(t)
           \/ RollbackSecret(t) \/ RollbackClaim(t)
    PROVE  TakesUp(t) /\ LetsGo(t)
<1>0. /\ store \in [Ids -> Session] /\ th[t].sess \in Session
      /\ th[t].pc \in NamedAt => th[t].sess # AbsentSession
  BY ThreadFacts DEF IInv, TypeOK, Fits, AbsentSession
<1>1. ~ Attending(th[t])
  BY DEF LockSession, EnsureStep, EnsureGet, ClearGet, Forget, DeleteStep, DeleteGet, MarkDeleted,
     StopGet, MarkStopped, ResumeGet, ResumeSecret, ResumePod, CountRunning, CountCreating,
     Provision, ClaimWait, ClaimCreate, SecretCreate, PodCreate, RollbackSecret, RollbackClaim,
     At, Attending, PurgeAt, StopAt
<1>2. CASE UNCHANGED store
  BY <1>1, <1>2 DEF TakesUp, LetsGo
<1>3. CASE Forget(t)
  BY <1>0, <1>1, <1>3 DEF Forget, AbsentSession, TakesUp, LetsGo
<1>4. CASE MarkStopped(t) \/ MarkDeleted(t)
  <2>1. \E st \in {"stopped", "dead"} :
          store' = store \/ store' = [store EXCEPT ![Id(t)] = [th[t].sess EXCEPT !.state = st]]
    BY <1>4 DEF MarkStopped, MarkDeleted, UpdateAndFinish
  <2>2. th[t].sess # AbsentSession
    BY <1>0, <1>4 DEF MarkStopped, MarkDeleted, At, NamedAt
  <2>3. \A st \in {"stopped", "dead"} : [th[t].sess EXCEPT !.state = st].state = st
    BY <1>0, <2>2, TrackedRecord
  <2> QED  BY <1>0, <1>1, <2>1, <2>3 DEF TakesUp, LetsGo
<1> QED
  BY <1>2, <1>3, <1>4 DEF LockSession, EnsureStep, EnsureGet, ClearGet, DeleteStep, DeleteGet, StopGet,
     ResumeGet, ResumeSecret, ResumePod, CountRunning, CountCreating, Provision, ClaimWait,
     ClaimCreate, SecretCreate, PodCreate, RollbackSecret, RollbackClaim, OnlyThread, StoreUnchanged

\* Runtime.Purge and Runtime.Stop: cleanups return to the label that settles
\* the record, whatever their requests came to.
LEMMA AttendedRequests ==
    ASSUME IInv, NEW t \in Threads, PurgeStep(t) \/ StopPod(t) \/ StopSecret(t)
    PROVE  TakesUp(t) /\ LetsGo(t)
<1>0. UNCHANGED store
  BY DEF PurgeStep, PurgePod, PurgeSecret, PurgeClaim, StopPod, StopSecret, StoreUnchanged
<1>1. CASE PurgeStep(t)
  <2>1. /\ th[t].pc \in PurgeAt
        /\ \E label \in {"purge_secret", "purge_claim", th[t].then, AfterFailedPurge(t)} :
            Goto(t, label)
    BY <1>1 DEF PurgeStep, PurgePod, PurgeSecret, PurgeClaim, Request, Refused, At, PurgeAt
  <2>2. CASE th[t].then = "mark_dead"
    <3>1. PICK label \in {"purge_secret", "purge_claim", "mark_dead"} : Goto(t, label)
      BY <2>1, <2>2 DEF AfterFailedPurge
    <3>2. th'[t].pc = label /\ th'[t].then = "mark_dead" /\ th'[t].id = th[t].id
      BY <2>2, <3>1, JumpRegs DEF Goto
    <3> QED  BY <1>0, <3>1, <3>2 DEF TakesUp, LetsGo, Attending, PurgeAt, Id
  <2>3. CASE th[t].then # "mark_dead"
    BY <1>0, <2>1, <2>3 DEF TakesUp, LetsGo, Attending, PurgeAt, StopAt
  <2> QED  BY <2>2, <2>3
<1>2. CASE StopPod(t) \/ StopSecret(t)
  <2>1. /\ th[t].pc \in StopAt
        /\ \E label \in {"stop_secret", th[t].then, AfterFailedStop(t)} : Goto(t, label)
    BY <1>2 DEF StopPod, StopSecret, Request, At, StopAt
  <2>2. CASE th[t].then = "restore_stopped"
    <3>1. PICK label \in {"stop_secret", "restore_stopped"} : Goto(t, label)
      BY <2>1, <2>2 DEF AfterFailedStop, StopIsCleanup
    <3>2. th'[t].pc = label /\ th'[t].then = "restore_stopped" /\ th'[t].id = th[t].id
      BY <2>2, <3>1, JumpRegs DEF Goto
    <3> QED  BY <1>0, <3>1, <3>2 DEF TakesUp, LetsGo, Attending, StopAt, Id
  <2>3. CASE th[t].then # "restore_stopped"
    BY <1>0, <2>1, <2>3 DEF TakesUp, LetsGo, Attending, PurgeAt, StopAt
  <2> QED  BY <2>2, <2>3
<1> QED  BY <1>1, <1>2

\* What an Update without cancellation leaves: no record, or the one it writes.
LEMMA UpdateSettles ==
    ASSUME IInv, NEW t \in Threads, Id(t) \in Ids, Live(t), NEW background \in BOOLEAN,
           NEW r, r.state # "creating", UpdateAndFinish(t, background, r)
    PROVE  TakesUp(t) /\ store'[Id(t)].state # "creating"
<1>0. store \in [Ids -> Session]
  BY DEF IInv, TypeOK
<1>1. store' = IF Tracked(Id(t)) THEN [store EXCEPT ![Id(t)] = r] ELSE store
  BY DEF UpdateAndFinish, CanUpdate
<1>2. ~ Tracked(Id(t)) => store[Id(t)].state = "absent"
  BY DEF Tracked
<1> QED  BY <1>0, <1>1, <1>2 DEF TakesUp

\* Create and Resume put a record in "creating" and attend to it until one of
\* their Updates takes it out again.
LEMMA AttendedRecords ==
    ASSUME IInv, NEW t \in Threads, Live(t),
           \/ Persist(t) \/ WaitReady(t) \/ MarkRunning(t) \/ MarkDead(t)
           \/ MarkCreating(t) \/ ResumeWait(t) \/ MarkResumed(t) \/ RestoreStopped(t)
    PROVE  TakesUp(t) /\ LetsGo(t)
<1>0. /\ store \in [Ids -> Session] /\ th[t].sess \in Session /\ Id(t) \in Ids
      /\ th[t].sess # AbsentSession
  <2>1. th[t].pc \in NamedAt \cup ResumeAt
    BY DEF NamedAt, ResumeAt, Persist, WaitReady, MarkRunning, MarkDead, MarkCreating,
       ResumeWait, MarkResumed, RestoreStopped, At
  <2>2. th[t].pc \notin {"idle", "done"}
    BY <2>1 DEF NamedAt, ResumeAt
  <2> QED  BY <2>1, <2>2, ThreadFacts DEF IInv, TypeOK, Fits, AbsentSession, Id
<1>1. /\ [th[t].sess EXCEPT !.state = "running"].state = "running"
      /\ [th[t].sess EXCEPT !.state = "dead"].state = "dead"
      /\ [th[t].sess EXCEPT !.pod = None, !.state = "stopped"].state = "stopped"
      /\ ResumedSession(t, "running").state = "running"
  BY <1>0, TrackedRecord DEF ResumedSession
<1>2. CASE Persist(t)
  <2>0. ~ Attending(th[t])
    BY <1>2 DEF Persist, At, Attending, PurgeAt, StopAt
  <2>1. CASE UNCHANGED store
    BY <2>0, <2>1 DEF TakesUp, LetsGo
  <2>2. CASE store' = [store EXCEPT ![Id(t)] = th[t].sess] /\ Goto(t, "wait_ready")
    <3>1. th'[t].pc = "wait_ready" /\ th'[t].id = Id(t)
      BY <2>2, JumpRegs DEF Goto, Id
    <3> QED  BY <1>0, <2>0, <2>2, <3>1 DEF TakesUp, LetsGo, Attending
  <2> QED  BY <1>2, <2>1, <2>2 DEF Persist
<1>3. CASE WaitReady(t)
  <2>1. UNCHANGED store
    BY <1>3 DEF WaitReady, OnlyThread
  <2>2. Goto(t, "mark_running") \/ CallRuntime(t, "purge_pod", th[t].sess, "mark_dead")
    BY <1>3 DEF WaitReady
  <2>3. th'[t].id = Id(t) /\ Attending(th'[t])
    BY <2>2, JumpRegs DEF Goto, Attending, PurgeAt, Id
  <2> QED  BY <2>1, <2>3 DEF TakesUp, LetsGo
<1>4. CASE MarkRunning(t)
  <2> DEFINE r == [th[t].sess EXCEPT !.state = "running"]
  <2>1. CASE store' = [store EXCEPT ![Id(t)] = r]
    BY <1>0, <1>1, <2>1 DEF TakesUp, LetsGo
  <2>2. CASE UNCHANGED store /\ CallRuntime(t, "purge_pod", r, "mark_dead")
    <3>1. th'[t].id = Id(t) /\ Attending(th'[t])
      BY <2>2, JumpRegs DEF Attending, PurgeAt, Id
    <3> QED  BY <2>2, <3>1 DEF TakesUp, LetsGo
  <2> QED  BY <1>4, <2>1, <2>2 DEF MarkRunning
<1>5. CASE MarkDead(t) \/ MarkResumed(t) \/ RestoreStopped(t)
  BY <1>0, <1>1, <1>5, UpdateSettles DEF MarkDead, MarkResumed, RestoreStopped, LetsGo
<1>6. CASE MarkCreating(t)
  <2> DEFINE r == ResumedSession(t, "creating")
  <2>1. /\ \/ GotoWith(t, "resume_wait", r)
           \/ CallRuntime(t, "stop_pod", r, "restore_stopped")
        /\ store' = store \/ store' = [store EXCEPT ![Id(t)] = r]
    BY <1>6 DEF MarkCreating
  <2> HIDE DEF r
  <2>2. th'[t].id = Id(t) /\ Attending(th'[t])
    <3>1. CASE GotoWith(t, "resume_wait", r)
      BY <3>1, JumpRegs DEF Attending, Id
    <3>2. CASE CallRuntime(t, "stop_pod", r, "restore_stopped")
      BY <3>2, JumpRegs DEF Attending, StopAt, Id
    <3> QED  BY <2>1, <3>1, <3>2
  <2> QED  BY <1>0, <2>1, <2>2 DEF TakesUp, LetsGo
<1>7. CASE ResumeWait(t)
  <2>1. UNCHANGED store
    BY <1>7 DEF ResumeWait, OnlyThread
  <2>2. Goto(t, "mark_resumed") \/ CallRuntime(t, "stop_pod", th[t].sess, "restore_stopped")
    BY <1>7 DEF ResumeWait
  <2>3. th'[t].id = Id(t) /\ Attending(th'[t])
    BY <2>2, JumpRegs DEF Goto, Attending, StopAt, Id
  <2> QED  BY <2>1, <2>3 DEF TakesUp, LetsGo
<1> QED  BY <1>2, <1>3, <1>4, <1>5, <1>6, <1>7

\* Every step without faults keeps Attended.
LEMMA AttendedNext ==
    ASSUME IInv, Patient, Attended, [Next]_vars
    PROVE  Attended'
<1>1. ASSUME NEW t \in Threads, LockSession(t) \/ Progress(t), ~ Return(t)
      PROVE  Attended'
  <2>1. TakesUp(t) /\ LetsGo(t)
    BY <1>1, AttendedElsewhere, AttendedRequests, AttendedRecords
       DEF Patient, Progress, EnsureStep, DeleteStep, StopStep, ResumeStep, CreateStep
  <2> QED  BY <1>1, <2>1, OthersRest, AttendedStep
<1>2. ASSUME NEW t \in Threads,
             \/ \E op \in Requests, i \in Ids, want \in Wants : Arrive(t, op, i, want)
             \/ Return(t)
      PROVE  Attended'
  <2>1. UNCHANGED store /\ \A u \in Threads : u # t => th'[u] = th[u]
    BY <1>2 DEF Arrive, OnlyThread, Return, IInv, TypeOK
  <2>2. ~ Attending(th[t])
    BY <1>2 DEF Arrive, Return, At, Attending, PurgeAt, StopAt
  <2> QED  BY <2>1, <2>2, AttendedStep DEF TakesUp, LetsGo
<1>3. CASE \E t \in Threads : Cancel(t)
  BY <1>3 DEF Patient, Cancel
<1>4. CASE ClusterActs \/ UNCHANGED vars \/ \E k \in PoolKeys : PoolRefills(k)
  BY <1>4 DEF ClusterActs, vars, PoolRefills, Attended, InState, Id
<1> QED  BY <1>1, <1>2, <1>3, <1>4 DEF Next

\* Without faults, whatever requests interleave, a record in "creating" - which
\* counts against the cap - is always one that some request will settle.
THEOREM CreatingIsNeverAbandoned ==
    ASSUME MaxFaults = 0
    PROVE  Spec => []CreatingIsAttended
<1>1. Init => IInv /\ Patient /\ Attended
  BY InitOK DEF Init, Patient, Live, IdleThread, Attended, InState, AbsentSession
<1>2. IInv /\ Patient /\ Attended /\ [Next]_vars => IInv' /\ Patient' /\ Attended'
  BY StepOK, PatientNext, AttendedNext
<1>3. Attended => CreatingIsAttended
  BY DEF Attended, CreatingIsAttended, Attending, PurgeAt, StopAt, At
<1> QED  BY <1>1, <1>2, <1>3, PTL DEF Spec

-----------------------------------------------------------------------------
(* Where only EnsureSession and Clear are served, and nothing fails.       *)
(*                                                                         *)
(* The keyed lock then serialises the work on an id, so that a goroutine   *)
(* knows at every label which objects its sandbox has (Phase), the record  *)
(* it works on is the one in the store, and every object that nobody has   *)
(* deleted is in the pool, belongs to a running record, or is held by the  *)
(* goroutine at work on it (Accounted).                                    *)

\* The instances these proofs are about.
Calm == MaxFaults = 0 /\ Requests \subseteq {"ensure", "clear"}

ServingAt ==
    {"idle", "lock", "done", "ensure_get", "clear_get", "forget",
     "count_running", "count_creating", "provision", "claim_wait", "claim_create",
     "secret_create", "pod_create", "rollback_secret", "rollback_claim",
     "persist", "wait_ready", "mark_running", "mark_dead"} \cup PurgeAt

\* Labels at which a goroutine works on the record it has read or written, and
\* at which it builds a sandbox under the name of its own session.
OnRecord == {"wait_ready", "mark_running", "mark_dead", "forget"} \cup PurgeAt
Building == {"claim_wait", "claim_create", "secret_create", "pod_create"}

\* The registers of a goroutine that serves such a request.
Serving(r) ==
    /\ ~ r.cancelled
    /\ r.pc \in ServingAt
    /\ r.op \in {"none", "ensure", "clear"}
    /\ r.op = "none" => r.pc \in {"idle", "done"}
    /\ r.sess.pod = r.sess.pvc
    /\ r.pc \in PurgeAt => r.then \in {"forget", "mark_dead"}
    /\ r.pc \in Building => r.sess.pod = r.id
    /\ r.pc \in Building \cup {"persist", "wait_ready", "mark_running", "mark_dead"}
         => r.sess.state = "creating"
    /\ r.pc \in PurgeAt /\ r.then = "mark_dead" => r.sess.state = "creating"

\* All three objects of k are there, and nobody has asked to delete any of them.
Up(k) == PodAlive(k) /\ pods[k].claim = k /\ pvcs[k] = "bound" /\ secrets[k]
UpAndReady(k) == Up(k) /\ pods[k].phase = "ready"

\* What a label says about the objects of the sandbox and about its record.
Phase(r) ==
    /\ r.pc \in {"secret_create", "pod_create", "rollback_secret", "rollback_claim"}
         => ~ PodAlive(r.id)
    /\ r.pc \in {"secret_create", "rollback_claim"} => ~ secrets[r.id]
    /\ r.pc \in {"secret_create", "pod_create"} => pvcs[r.id] = "bound"
    /\ r.pc = "pod_create" => secrets[r.id]
    /\ r.pc \in {"persist", "wait_ready", "mark_running"} => Up(r.sess.pod)
    /\ r.pc = "mark_running" => pods[r.sess.pod].phase = "ready"
    /\ r.pc \in {"purge_secret", "purge_claim"} => ~ PodAlive(r.sess.pod)
    /\ r.pc = "purge_claim" => ~ secrets[r.sess.pod]
    /\ r.pc \in {"forget", "mark_dead"} => ~ Retained(r.sess.pod)
    /\ r.pc \in {"rollback_secret", "rollback_claim"} => store[r.id].state = "absent"
    /\ r.pc \in OnRecord => store[r.id] = r.sess /\ r.sess.pod \in Keys

\* r has created objects of k, or is about to delete them.
Holds(r, k) ==
    \/ r.pc \in {"secret_create", "pod_create", "rollback_secret", "rollback_claim"} /\ k = r.id
    \/ r.pc \in {"persist", "wait_ready", "mark_running"} \cup PurgeAt /\ k = r.sess.pod

RunsOn(i, k) == store[i].state = "running" /\ store[i].pod = k
Purging(r, i) == r.id = i /\ r.pc \in PurgeAt \cup {"forget"}

AllServing == \A t \in Threads : Serving(th[t])
AllPhases == \A t \in Threads : Phase(th[t])
OwnWorkspaces == \A i \in Ids : store[i].state # "stopped" /\ store[i].pod = store[i].pvc
RunningReady == \A i \in InState("running") :
    UpAndReady(store[i].pod) \/ \E t \in Threads : Purging(th[t], i)
Accounted == \A k \in Keys : Retained(k) =>
    k \in idle \/ (\E i \in Ids : RunsOn(i, k)) \/ \E t \in Threads : Holds(th[t], k)
PoolReady == \A k \in idle : UpAndReady(k)

Service == AllServing /\ AllPhases /\ OwnWorkspaces /\ RunningReady /\ Accounted /\ PoolReady

\* What the earlier invariants contribute.
Base == IInv /\ Exclusive /\ Owned /\ Patient

-----------------------------------------------------------------------------
(* Objects and goroutines a step does not concern.                         *)

\* For all that Service says, the objects of k stay as they were.
Similar(k) ==
    /\ PodAlive(k)' <=> PodAlive(k)
    /\ PodAlive(k) => pods'[k].claim = pods[k].claim
    /\ pods[k].phase = "ready" => pods'[k].phase = "ready"
    /\ (pvcs'[k] = "bound") <=> (pvcs[k] = "bound")
    /\ secrets'[k] = secrets[k]

\* What Service says about the objects of such a key stays true.
LEMMA SimilarKeeps ==
    ASSUME NEW k, Similar(k)
    PROVE  /\ Up(k) => Up(k)'
           /\ UpAndReady(k) => UpAndReady(k)'
           /\ Retained(k)' <=> Retained(k)
BY DEF Similar, Up, UpAndReady, Retained

\* So does what Phase says about a goroutine whose keys are such.
LEMMA PhaseKept ==
    ASSUME NEW r, Phase(r),
           r.pc \in {"secret_create", "pod_create", "rollback_secret", "rollback_claim"}
             => Similar(r.id),
           r.pc \in OnRecord \cup {"persist"} => Similar(r.sess.pod),
           r.pc \in OnRecord \cup {"rollback_secret", "rollback_claim"}
             => store'[r.id] = store[r.id]
    PROVE  Phase(r)'
<1> DEFINE k == r.sess.pod
<1>1. CASE r.pc \in OnRecord \cup {"persist"}
  <2>1. /\ Up(k) => Up(k)'
        /\ Retained(k)' <=> Retained(k)
        /\ PodAlive(k)' <=> PodAlive(k)
        /\ pods[k].phase = "ready" => pods'[k].phase = "ready"
        /\ secrets'[k] = secrets[k]
    BY <1>1, SimilarKeeps DEF Similar
  <2> QED  BY <1>1, <2>1 DEF Phase, OnRecord, PurgeAt
<1>2. CASE r.pc \in {"secret_create", "pod_create", "rollback_secret", "rollback_claim"}
  <2>1. /\ PodAlive(r.id)' <=> PodAlive(r.id)
        /\ (pvcs'[r.id] = "bound") <=> (pvcs[r.id] = "bound")
        /\ secrets'[r.id] = secrets[r.id]
    BY <1>2 DEF Similar
  <2> QED  BY <1>2, <2>1 DEF Phase, OnRecord, PurgeAt
<1>3. CASE /\ r.pc \notin OnRecord \cup {"persist"}
           /\ r.pc \notin {"secret_create", "pod_create", "rollback_secret", "rollback_claim"}
  BY <1>3 DEF Phase, OnRecord, PurgeAt
<1> QED  BY <1>1, <1>2, <1>3

\* The keys of the objects that t works on.
Touched(t) == {Id(t), th[t].sess.pod}

AtWork(t) == th[t].pc \notin {"idle", "lock", "done"}

\* Two goroutines at work serve different ids and touch different objects.
LEMMA ApartAtWork ==
    ASSUME Base, Service, NEW t \in Threads, NEW u \in Threads, t # u, AtWork(t), AtWork(u)
    PROVE  /\ Id(u) # Id(t)
           /\ Id(u) \notin Touched(t)
           /\ th[u].sess.pod # None => th[u].sess.pod \notin Touched(t)
<1>0. /\ Id(t) \in Ids /\ Id(u) \in Ids /\ None \notin Keys
      /\ Ids \subseteq Keys /\ Ids \cap PoolKeys = {}
  BY ThreadFacts, KeysAssumption, NoneIsNoKey DEF AtWork, Base, Id
<1>1. Id(u) # Id(t)
  <2>1. th[t].op \in {"ensure", "clear"} /\ th[u].op \in {"ensure", "clear"}
    BY DEF Service, AllServing, Serving, AtWork
  <2>2. lock[Id(t)] = t /\ lock[Id(u)] = u
    BY <2>1 DEF Base, Exclusive, HoldsLock, AtWork
  <2> QED  BY <2>2
<1>2. Refs(th[t].sess) \subseteq {Id(t)} \cup PoolKeys /\ Refs(th[u].sess) \subseteq {Id(u)} \cup PoolKeys
  BY DEF Base, Owned
<1>3. Refs(th[t].sess) \cap Refs(th[u].sess) = {}
  BY <1>1 DEF Base, Owned
<1> QED  BY <1>0, <1>1, <1>2, <1>3 DEF Touched, Refs

\* Nor does t touch the sandbox of another session or one in the pool.
LEMMA ApartFromRecords ==
    ASSUME Base, Service, NEW t \in Threads, AtWork(t)
    PROVE  /\ \A j \in Ids : j # Id(t) /\ store[j].pod # None => store[j].pod \notin Touched(t)
           /\ \A k \in idle : k \notin Touched(t)
<1>0. /\ Id(t) \in Ids /\ None \notin Keys /\ Ids \subseteq Keys /\ Ids \cap PoolKeys = {}
      /\ idle \subseteq PoolKeys /\ PoolKeys \subseteq Keys
  BY ThreadFacts, KeysAssumption, NoneIsNoKey DEF AtWork, Base, Id, IInv, TypeOK
<1>1. \A j \in Ids : j # Id(t) => /\ Refs(store[j]) \subseteq {j} \cup PoolKeys
                                  /\ Refs(th[t].sess) \cap Refs(store[j]) = {}
  BY DEF Base, Owned
<1>2. Refs(th[t].sess) \cap idle = {}
  BY DEF Base, Owned
<1> QED  BY <1>0, <1>1, <1>2 DEF Touched, Refs

-----------------------------------------------------------------------------
(* The shapes of step that keep Service.                                   *)

\* A step that only moves t, gives or takes a lock, or takes a warm sandbox.
LEMMA ServiceQuietStep ==
    ASSUME Base, Service, NEW t \in Threads, \A u \in Threads : u # t => th'[u] = th[u],
           UNCHANGED <<store, clusterVars>>, Serving(th'[t]), Phase(th'[t]),
           idle' \subseteq idle, \A k \in idle \ idle' : Holds(th'[t], k),
           \A k \in Keys : Holds(th[t], k) /\ Retained(k) => Holds(th'[t], k),
           \A i \in InState("running") : Purging(th[t], i) => Purging(th'[t], i)
    PROVE  Service'
<1>0. UNCHANGED <<pods, pvcs, secrets>>
  BY DEF clusterVars
<1>1. AllServing'
  BY DEF Service, AllServing
<1>2. AllPhases'
  <2>1. \A u \in Threads : Phase(th'[u])
    BY DEF Service, AllPhases
  <2> QED  BY <1>0, <2>1 DEF AllPhases, Phase, Up, PodAlive, Retained
<1>3. OwnWorkspaces' /\ PoolReady'
  BY <1>0 DEF Service, OwnWorkspaces, PoolReady, UpAndReady, Up, PodAlive
<1>4. RunningReady'
  <2>1. ASSUME NEW i \in InState("running") PROVE UpAndReady(store[i].pod) \/ \E u \in Threads : Purging(th'[u], i)
    BY <2>1 DEF Service, RunningReady
  <2> QED  BY <1>0, <2>1 DEF RunningReady, InState, UpAndReady, Up, PodAlive
<1>5. Accounted'
  <2>1. ASSUME NEW k \in Keys, Retained(k)
        PROVE  k \in idle' \/ (\E i \in Ids : RunsOn(i, k)) \/ \E u \in Threads : Holds(th'[u], k)
    BY <2>1 DEF Service, Accounted
  <2> QED  BY <1>0, <2>1 DEF Accounted, Retained, PodAlive, RunsOn
<1> QED  BY <1>1, <1>2, <1>3, <1>4, <1>5 DEF Service

\* Every object that exists after a step of t existed before or is held by t,
\* and neither t nor the record of its id lets go of one that still exists.
Accounts(t, i) == \A k \in Keys : Retained(k)' =>
    /\ Retained(k) \/ Holds(th'[t], k)
    /\ Holds(th[t], k) \/ RunsOn(i, k) => Holds(th'[t], k) \/ RunsOn(i, k)'

\* A step of t that touches no object and no record but its own.
LEMMA ServiceStep ==
    ASSUME Base, Service, NEW t \in Threads, AtWork(t), \A u \in Threads : u # t => th'[u] = th[u],
           NEW i \in Ids, i = Id(t),
           UNCHANGED idle, \A j \in Ids : j # i => store'[j] = store[j],
           \A k \in Keys : k \notin Touched(t) => Similar(k),
           Serving(th'[t]), Phase(th[t])',
           store'[i].state # "stopped", store'[i].pod = store'[i].pvc,
           store'[i].state = "running" => UpAndReady(store[i].pod)' \/ Purging(th'[t], i),
           Accounts(t, i)
    PROVE  Service'
<1>0. /\ Id(t) \in Ids /\ Ids \subseteq Keys /\ PoolKeys \subseteq Keys /\ idle \subseteq PoolKeys
      /\ store \in [Ids -> Session] /\ None \notin Keys
  BY ThreadFacts, KeysAssumption, NoneIsNoKey DEF AtWork, Base, Id, IInv, TypeOK
<1>1. AllServing'
  BY DEF Service, AllServing
<1>2. AllPhases'
  <2>1. ASSUME NEW u \in Threads, u # t, NEW r, r = th[u]
        PROVE  Phase(r)'
    <3>1. Phase(r)
      BY <2>1 DEF Service, AllPhases
    <3>2. r.pc \in {"secret_create", "pod_create", "rollback_secret", "rollback_claim"}
             => Similar(r.id) /\ r.id \in Ids /\ r.id # Id(t)
      <4>1. SUFFICES ASSUME r.pc \in {"secret_create", "pod_create", "rollback_secret", "rollback_claim"}
                     PROVE  Similar(r.id) /\ r.id \in Ids /\ r.id # Id(t)
        OBVIOUS
      <4>2. AtWork(u)
        BY <2>1, <4>1 DEF AtWork
      <4>3. r.id \in Ids /\ r.id # Id(t) /\ r.id \notin Touched(t)
        BY <2>1, <4>2, ApartAtWork, ThreadFacts DEF Id, AtWork, Base
      <4> QED  BY <1>0, <4>3
    <3>3. r.pc \in OnRecord \cup {"persist"} => Similar(r.sess.pod) /\ r.id \in Ids /\ r.id # Id(t)
      <4>1. SUFFICES ASSUME r.pc \in OnRecord \cup {"persist"}
                     PROVE  Similar(r.sess.pod) /\ r.id \in Ids /\ r.id # Id(t)
        OBVIOUS
      <4>2. AtWork(u)
        BY <2>1, <4>1 DEF AtWork, OnRecord, PurgeAt
      <4>3. r.sess.pod \in Keys
        <5>1. CASE r.pc \in OnRecord
          BY <3>1, <5>1 DEF Phase
        <5>2. CASE r.pc = "persist"
          BY <2>1, <5>2, ThreadFacts, NamedRecord DEF Base, Fits, NamedAt
        <5> QED  BY <4>1, <5>1, <5>2
      <4>4. r.id \in Ids /\ r.id # Id(t) /\ r.sess.pod \notin Touched(t)
        BY <1>0, <2>1, <4>2, <4>3, ApartAtWork, ThreadFacts DEF Id, AtWork, Base
      <4> QED  BY <4>3, <4>4
    <3>4. r.pc \in OnRecord \cup {"rollback_secret", "rollback_claim"}
             => store'[r.id] = store[r.id]
      BY <3>2, <3>3
    <3> QED  BY <3>1, <3>2, <3>3, <3>4, PhaseKept
  <2>2. ASSUME NEW u \in Threads
        PROVE  Phase(th[u])'
    <3>1. CASE u # t
      <4>1. PICK r : r = th[u]
        OBVIOUS
      <4>2. th'[u] = r /\ Phase(r)'
        BY <2>1, <3>1, <4>1
      <4> QED  BY <4>2 DEF Phase, Up, PodAlive, Retained
    <3>2. CASE u = t
      BY <3>2
    <3> QED  BY <3>1, <3>2
  <2> QED  BY <2>2 DEF AllPhases
<1>3. OwnWorkspaces'
  BY DEF Service, OwnWorkspaces
<1>4. PoolReady'
  <2>1. \A k \in idle : Similar(k) /\ UpAndReady(k)
    BY <1>0, ApartFromRecords DEF Service, PoolReady
  <2>2. \A k \in idle : UpAndReady(k)'
    BY <2>1, SimilarKeeps
  <2> QED  BY <2>2 DEF PoolReady, UpAndReady, Up, PodAlive
<1>5. RunningReady'
  <2>1. ASSUME NEW j \in Ids, store'[j].state = "running", j # i, NEW k, k = store[j].pod
        PROVE  UpAndReady(k)' \/ \E u \in Threads : Purging(th'[u], j)
    <3>1. store'[j] = store[j]
      BY <2>1
    <3>2. CASE UpAndReady(k)
      <4>1. k \in Keys
        BY <1>0, <2>1, <3>1 DEF Session, AbsentSession
      <4>2. k \notin Touched(t)
        BY <1>0, <2>1, <4>1, ApartFromRecords
      <4> QED  BY <3>2, <4>1, <4>2, SimilarKeeps
    <3>3. CASE \E u \in Threads : Purging(th[u], j)
      BY <2>1, <3>3 DEF Purging, Id
    <3> QED  BY <2>1, <3>1, <3>2, <3>3 DEF Service, RunningReady, InState
  <2>2. ASSUME NEW j \in Ids, store'[j].state = "running"
        PROVE  UpAndReady(store[j].pod)' \/ \E u \in Threads : Purging(th[u], j)'
    <3>1. CASE j = i
      BY <2>2, <3>1 DEF Purging
    <3>2. CASE j # i
      <4>1. PICK k : k = store[j].pod
        OBVIOUS
      <4>2. k = store'[j].pod
        BY <3>2, <4>1
      <4>3. UpAndReady(k)' \/ \E u \in Threads : Purging(th'[u], j)
        BY <2>1, <2>2, <3>2, <4>1
      <4> QED  BY <4>2, <4>3 DEF UpAndReady, Up, PodAlive, Purging
    <3> QED  BY <3>1, <3>2
  <2> QED  BY <2>2 DEF RunningReady, InState
<1>6. Accounted'
  <2>1. ASSUME NEW k \in Keys, Retained(k)'
        PROVE  k \in idle \/ (\E j \in Ids : RunsOn(j, k)') \/ \E u \in Threads : Holds(th'[u], k)
    <3>1. CASE ~ Retained(k)
      BY <2>1, <3>1 DEF Accounts
    <3>2. CASE k \in idle
      BY <3>2
    <3>3. ASSUME NEW j \in Ids, RunsOn(j, k)
          PROVE  RunsOn(j, k)' \/ Holds(th'[t], k)
      <4>1. CASE j = i
        BY <2>1, <3>3, <4>1 DEF Accounts, RunsOn
      <4>2. CASE j # i
        BY <3>3, <4>2 DEF RunsOn
      <4> QED  BY <4>1, <4>2
    <3>4. ASSUME NEW u \in Threads, Holds(th[u], k)
          PROVE  (\E j \in Ids : RunsOn(j, k)') \/ Holds(th'[u], k)
      <4>1. CASE u = t
        BY <1>0, <2>1, <3>4, <4>1 DEF Accounts, RunsOn
      <4>2. CASE u # t
        BY <3>4, <4>2
      <4> QED  BY <4>1, <4>2
    <3> QED  BY <3>1, <3>2, <3>3, <3>4 DEF Service, Accounted
  <2> QED  BY <2>1 DEF Accounted, Holds
<1> QED  BY <1>1, <1>2, <1>3, <1>4, <1>5, <1>6 DEF Service

-----------------------------------------------------------------------------
(* Steps that move one goroutine and nothing else.                         *)

\* What is known of a goroutine at work.
LEMMA WorkFacts ==
    ASSUME Base, Service, NEW t \in Threads, AtWork(t)
    PROVE  /\ Serving(th[t]) /\ Phase(th[t]) /\ ~ th[t].cancelled /\ Live(t) /\ faults = 0
           /\ Id(t) \in Ids /\ Id(t) \in Keys /\ Id(t) = th[t].id
           /\ th[t].op \in {"ensure", "clear"} /\ lock[Id(t)] = t
           /\ th[t].sess \in Session /\ store \in [Ids -> Session] /\ store[Id(t)] \in Session
<1>1. /\ Id(t) \in Ids /\ Id(t) \in Keys /\ Id(t) = th[t].id /\ th[t].sess \in Session
      /\ store \in [Ids -> Session]
  BY ThreadFacts DEF AtWork, Base, Id, IInv, TypeOK
<1>2. Serving(th[t]) /\ Phase(th[t]) /\ Live(t) /\ ~ th[t].cancelled /\ faults = 0
  BY DEF Service, AllServing, AllPhases, Base, Patient, Live
<1>3. th[t].op \in {"ensure", "clear"}
  BY <1>2 DEF Serving, AtWork
<1>4. lock[Id(t)] = t
  BY <1>3 DEF Base, Exclusive, HoldsLock, AtWork
<1> QED  BY <1>1, <1>2, <1>3, <1>4

\* A plain jump leaves the other registers alone, and a request that is done
\* keeps none.
LEMMA GotoRegs ==
    ASSUME IInv, NEW t \in Threads, NEW label, Goto(t, label)
    PROVE  /\ label = "done" => th'[t] = FinishedThread
           /\ label # "done" =>
                /\ th'[t].pc = label /\ th'[t].sess = th[t].sess /\ th'[t].then = th[t].then
                /\ th'[t].id = th[t].id /\ th'[t].op = th[t].op
                /\ th'[t].cancelled = th[t].cancelled
<1>1. GotoWith(t, label, th[t].sess)
  BY DEF Goto
<1>2. CASE label = "done"
  BY <1>1, <1>2, EndRegs
<1>3. CASE label # "done"
  BY <1>1, <1>3, MoveRegs
<1> QED  BY <1>2, <1>3

\* A goroutine that serves nobody, or has only its lock left, says nothing.
LEMMA RestFacts ==
    ASSUME NEW r, r \in {IdleThread, FinishedThread}
    PROVE  Serving(r) /\ Phase(r)
<1>1. /\ ~ r.cancelled /\ r.pc \in {"idle", "done"} /\ r.op = "none"
      /\ r.sess = AbsentSession
  BY DEF IdleThread, FinishedThread
<1>2. AbsentSession.pod = AbsentSession.pvc
  BY DEF AbsentSession
<1> QED  BY <1>1, <1>2 DEF Serving, Phase, ServingAt, PurgeAt, Building, OnRecord

\* Nor does it after the step that lets it rest.
LEMMA RestFactsAfter ==
    ASSUME NEW t, th'[t] \in {IdleThread, FinishedThread}
    PROVE  Phase(th[t])'
<1>1. th'[t].pc \in {"idle", "done"}
  BY DEF IdleThread, FinishedThread
<1> QED  BY <1>1 DEF Phase, PurgeAt, OnRecord

\* Labels at which a goroutine is responsible for no object.
Free == ServingAt \ ({"secret_create", "pod_create", "rollback_secret", "rollback_claim",
                      "persist", "wait_ready", "mark_running"} \cup PurgeAt)

\* A goroutine at such a label holds nothing, and purges only at "forget".
LEMMA FreeHoldsNothing ==
    ASSUME NEW r, r.pc \in Free
    PROVE  /\ \A k : ~ Holds(r, k)
           /\ r.pc # "forget" => \A i : ~ Purging(r, i)
BY DEF Free, Holds, Purging, ServingAt, PurgeAt

\* A goroutine that is responsible for nothing may come to rest.
LEMMA ServiceRests ==
    ASSUME Base, Service, NEW t \in Threads, \A u \in Threads : u # t => th'[u] = th[u],
           UNCHANGED <<store, idle, clusterVars>>, th[t].pc \in Free \ {"forget"},
           th'[t] \in {IdleThread, FinishedThread}
    PROVE  Service'
BY RestFacts, FreeHoldsNothing, ServiceQuietStep

\* It may also go on to another such label, with a clone of the right shape.
LEMMA ServiceMoves ==
    ASSUME Base, Service, NEW t \in Threads, \A u \in Threads : u # t => th'[u] = th[u],
           UNCHANGED <<store, idle, clusterVars>>, th[t].pc \in Free \ {"forget"},
           th'[t].pc \in Free \ OnRecord, th'[t].op \in {"ensure", "clear"},
           ~ th'[t].cancelled, th'[t].sess.pod = th'[t].sess.pvc,
           th'[t].pc \in Building => th'[t].sess.pod = th'[t].id /\ th'[t].sess.state = "creating"
    PROVE  Service'
<1>1. Serving(th'[t])
  BY DEF Serving, Free, OnRecord, PurgeAt, Building
<1>2. Phase(th'[t])
  BY DEF Phase, Free, OnRecord, PurgeAt
<1> QED  BY <1>1, <1>2, FreeHoldsNothing, ServiceQuietStep

\* The arrival and the return of a request, and the lock.
LEMMA ServiceOutside ==
    ASSUME Requests \subseteq {"ensure", "clear"}, Base, Service, NEW t \in Threads,
           \/ \E op \in Requests, i \in Ids, want \in Wants : Arrive(t, op, i, want)
           \/ Return(t) \/ LockSession(t)
    PROVE  Service'
<1>0. th \in [Threads -> Thread] /\ IInv /\ Live(t)
  BY DEF Base, IInv, TypeOK, Patient
<1>1. ASSUME NEW op \in Requests, NEW i \in Ids, NEW want \in Wants, Arrive(t, op, i, want)
      PROVE  Service'
  <2> DEFINE r == [IdleThread EXCEPT !.op = op, !.id = i, !.want = want, !.pc = Entry(op)]
  <2>1. th' = [th EXCEPT ![t] = r] /\ UNCHANGED <<store, idle, clusterVars>> /\ th[t].pc = "idle"
    BY <1>1 DEF Arrive, OnlyThread, At
  <2>2. op \in {"ensure", "clear"}
    BY <1>1
  <2>3. /\ r.op \in {"ensure", "clear"} /\ r.pc = "lock" /\ ~ r.cancelled
        /\ r.sess = AbsentSession
    BY <2>2 DEF IdleThread, Entry
  <2>4. th'[t] = r /\ \A u \in Threads : u # t => th'[u] = th[u]
    BY <1>0, <2>1
  <2>5. AbsentSession.pod = AbsentSession.pvc
    BY DEF AbsentSession
  <2> HIDE DEF r
  <2> QED  BY <2>1, <2>3, <2>4, <2>5, ServiceMoves DEF Free, ServingAt, PurgeAt, OnRecord, Building
<1>2. CASE Return(t)
  <2>1. /\ th'[t] = IdleThread /\ th[t].pc = "done" /\ \A u \in Threads : u # t => th'[u] = th[u]
        /\ UNCHANGED <<store, idle, clusterVars>>
    BY <1>0, <1>2 DEF Return, At
  <2> QED  BY <2>1, ServiceRests DEF Free, ServingAt, PurgeAt
<1>3. CASE LockSession(t)
  <2>1. /\ th[t].pc = "lock" /\ Goto(t, AfterLock(t)) /\ UNCHANGED <<store, idle, clusterVars>>
        /\ \A u \in Threads : u # t => th'[u] = th[u]
    BY <1>0, <1>3, OthersRest DEF LockSession, At
  <2>2. AfterLock(t) \in {"ensure_get", "clear_get"}
    BY DEF AfterLock
  <2>3. /\ th'[t].pc \in {"ensure_get", "clear_get"} /\ th'[t].sess = th[t].sess
        /\ th'[t].op = th[t].op /\ th'[t].cancelled = th[t].cancelled
    <3>1. PICK label \in {"ensure_get", "clear_get"} : Goto(t, label)
      BY <2>1, <2>2
    <3> QED  BY <1>0, <3>1, GotoRegs
  <2>4. Serving(th[t])
    BY DEF Service, AllServing
  <2>5. th'[t].op \in {"ensure", "clear"} /\ ~ th'[t].cancelled /\ th'[t].sess.pod = th'[t].sess.pvc
    BY <2>1, <2>3, <2>4 DEF Serving
  <2> QED  BY <2>1, <2>3, <2>5, ServiceMoves DEF Free, ServingAt, PurgeAt, OnRecord, Building
<1> QED  BY <1>1, <1>2, <1>3

\* The look at the record in EnsureSession and Clear.
LEMMA ServiceGets ==
    ASSUME Base, Service, NEW t \in Threads, EnsureGet(t) \/ ClearGet(t)
    PROVE  Service'
<1>0. /\ UNCHANGED <<store, idle, clusterVars>> /\ \A u \in Threads : u # t => th'[u] = th[u]
      /\ th[t].pc \in {"ensure_get", "clear_get"} /\ AtWork(t) /\ IInv
  BY OthersRest DEF EnsureGet, ClearGet, OnlyThread, At, AtWork, Base, Progress, EnsureStep
<1> DEFINE s == store[Id(t)]
<1>1. s.state # "stopped" /\ s.pod = s.pvc /\ s \in Session
  BY <1>0, WorkFacts DEF Service, OwnWorkspaces
<1>2. \/ Goto(t, "done") \/ Goto(t, "count_running")
      \/ Tracked(Id(t)) /\ CallRuntime(t, "purge_pod", s, "forget")
  BY <1>0, <1>1 DEF EnsureGet, ClearGet
<1>3. CASE Goto(t, "done")
  <2>1. th'[t] = FinishedThread
    BY <1>0, <1>3, GotoRegs
  <2> QED  BY <1>0, <2>1, ServiceRests DEF Free, ServingAt, PurgeAt
<1>4. CASE Goto(t, "count_running")
  <2>1. /\ th'[t].pc = "count_running" /\ th'[t].sess = th[t].sess
        /\ th'[t].op = th[t].op /\ th'[t].cancelled = th[t].cancelled
    BY <1>0, <1>4, GotoRegs
  <2>2. /\ th[t].op \in {"ensure", "clear"} /\ ~ th[t].cancelled
        /\ th[t].sess.pod = th[t].sess.pvc
    BY <1>0, WorkFacts DEF Serving
  <2> QED  BY <1>0, <2>1, <2>2, ServiceMoves DEF Free, ServingAt, PurgeAt, OnRecord, Building
<1>5. CASE Tracked(Id(t)) /\ CallRuntime(t, "purge_pod", s, "forget")
  <2>1. /\ th'[t].pc = "purge_pod" /\ th'[t].sess = s /\ th'[t].then = "forget"
        /\ th'[t].id = Id(t) /\ th'[t].op = th[t].op /\ th'[t].cancelled = th[t].cancelled
    BY <1>0, <1>5, JumpRegs DEF Id
  <2>2. th[t].op \in {"ensure", "clear"} /\ ~ th[t].cancelled
    BY <1>0, WorkFacts
  <2>3. s.pod \in Keys
    BY <1>1, <1>5 DEF Session, AbsentSession, Tracked
  <2>4. Serving(th'[t])
    BY <1>1, <2>1, <2>2 DEF Serving, ServingAt, PurgeAt, Building
  <2>5. Phase(th'[t])
    BY <2>1, <2>3 DEF Phase, PurgeAt, OnRecord
  <2>6. th[t].pc \in Free \ {"forget"}
    BY <1>0 DEF Free, ServingAt, PurgeAt
  <2> QED  BY <1>0, <2>4, <2>5, <2>6, FreeHoldsNothing, ServiceQuietStep
<1> QED  BY <1>2, <1>3, <1>4, <1>5

\* The admission check of Create.
LEMMA ServiceCounts ==
    ASSUME Base, Service, NEW t \in Threads, CountRunning(t) \/ CountCreating(t)
    PROVE  Service'
<1>0. /\ UNCHANGED <<store, idle, clusterVars>> /\ \A u \in Threads : u # t => th'[u] = th[u]
      /\ th[t].pc \in {"count_running", "count_creating"} /\ AtWork(t) /\ IInv
      /\ th \in [Threads -> Thread]
  BY OthersRest DEF CountRunning, CountCreating, OnlyThread, At, AtWork, Base, Progress,
     CreateStep, IInv, TypeOK
<1>1. th[t].pc \in Free \ {"forget"}
  BY <1>0 DEF Free, ServingAt, PurgeAt
<1>2. CASE Goto(t, "done")
  <2>1. th'[t] = FinishedThread
    BY <1>0, <1>2, GotoRegs
  <2> QED  BY <1>0, <1>1, <2>1, ServiceRests
<1>3. ASSUME NEW label \in {"count_creating", "provision"}, NEW n,
             th' = [th EXCEPT ![t].pc = label, ![t].seen = n]
      PROVE  Service'
  <2>1. th'[t] = [th[t] EXCEPT !.pc = label, !.seen = n]
    BY <1>0, <1>3
  <2>2. /\ th'[t].pc = label /\ th'[t].op = th[t].op /\ th'[t].sess = th[t].sess
        /\ th'[t].cancelled = th[t].cancelled
    BY <1>0, <2>1 DEF Thread
  <2>3. /\ th[t].op \in {"ensure", "clear"} /\ ~ th[t].cancelled
        /\ th[t].sess.pod = th[t].sess.pvc
    BY <1>0, WorkFacts DEF Serving
  <2> QED  BY <1>0, <1>1, <1>3, <2>2, <2>3, ServiceMoves DEF Free, ServingAt, PurgeAt, OnRecord, Building
<1> QED  BY <1>2, <1>3 DEF CountRunning, CountCreating

\* The choice of a cold sandbox, and the wait for an old claim to go.
LEMMA ServiceCold ==
    ASSUME Base, Service, NEW t \in Threads,
           Provision(t) \/ ClaimWait(t), UNCHANGED idle
    PROVE  Service' \/ \E k \in PoolKeys : Acquires(t, k)
<1>1. SUFFICES ASSUME ~ \E k \in PoolKeys : Acquires(t, k)
               PROVE  Service'
  OBVIOUS
<1>0. /\ \A u \in Threads : u # t => th'[u] = th[u]
      /\ th[t].pc \in {"provision", "claim_wait"} /\ AtWork(t) /\ IInv
  BY OthersRest DEF Provision, ClaimWait, At, AtWork, Base, Progress, CreateStep
<1>2. th[t].pc \in Free \ {"forget"}
  BY <1>0 DEF Free, ServingAt, PurgeAt
<1>3. UNCHANGED <<store, clusterVars>>
  BY DEF Provision, ClaimWait, OnlyThread
<1>4. /\ th[t].op \in {"ensure", "clear"} /\ ~ th[t].cancelled
      /\ th[t].sess.pod = th[t].sess.pvc
      /\ th[t].pc = "claim_wait" => th[t].sess.pod = th[t].id /\ th[t].sess.state = "creating"
  BY <1>0, WorkFacts DEF Serving, Building
<1>5. \/ Goto(t, "done")
      \/ th[t].pc = "provision" /\ GotoWith(t, "claim_wait", NewSession(t, Id(t)))
      \/ th[t].pc = "claim_wait" /\ Goto(t, "claim_create")
  BY <1>1, <1>3 DEF Provision, ClaimWait, Acquires, At, clusterVars
<1>6. CASE Goto(t, "done")
  <2>1. th'[t] = FinishedThread
    BY <1>0, <1>6, GotoRegs
  <2> QED  BY <1>0, <1>2, <1>3, <2>1, ServiceRests
<1>7. CASE GotoWith(t, "claim_wait", NewSession(t, Id(t)))
  <2> DEFINE n == NewSession(t, Id(t))
  <2>1. n.pod = Id(t) /\ n.pvc = Id(t) /\ n.state = "creating"
    BY DEF NewSession
  <2>2. GotoWith(t, "claim_wait", n)
    BY <1>7
  <2> HIDE DEF n
  <2>3. /\ th'[t].pc = "claim_wait" /\ th'[t].sess = n /\ th'[t].id = Id(t)
        /\ th'[t].op = th[t].op /\ th'[t].cancelled = th[t].cancelled
    BY <1>0, <2>2, MoveRegs DEF Id
  <2> QED  BY <1>0, <1>2, <1>3, <1>4, <2>1, <2>3, ServiceMoves
           DEF Free, ServingAt, PurgeAt, OnRecord, Building
<1>8. CASE th[t].pc = "claim_wait" /\ Goto(t, "claim_create")
  <2>1. /\ th'[t].pc = "claim_create" /\ th'[t].sess = th[t].sess /\ th'[t].id = th[t].id
        /\ th'[t].op = th[t].op /\ th'[t].cancelled = th[t].cancelled
    BY <1>0, <1>8, GotoRegs
  <2> QED  BY <1>0, <1>2, <1>3, <1>4, <1>8, <2>1, ServiceMoves
           DEF Free, ServingAt, PurgeAt, OnRecord, Building
<1> QED  BY <1>5, <1>6, <1>7, <1>8

\* The wait for the pod: a timeout starts the cleanup.
LEMMA ServiceWaitReady ==
    ASSUME Base, Service, NEW t \in Threads, WaitReady(t)
    PROVE  Service'
<1>0. /\ UNCHANGED <<store, idle, clusterVars>> /\ \A u \in Threads : u # t => th'[u] = th[u]
      /\ th[t].pc = "wait_ready" /\ AtWork(t) /\ IInv
  BY OthersRest DEF WaitReady, OnlyThread, At, AtWork, Base, Progress, CreateStep
<1> DEFINE s == th[t].sess
<1>1. /\ th[t].op \in {"ensure", "clear"} /\ ~ th[t].cancelled /\ s.pod = s.pvc
      /\ s.state = "creating" /\ Id(t) = th[t].id
  BY <1>0, WorkFacts DEF Serving
<1>2. Up(s.pod) /\ store[th[t].id] = s /\ s.pod \in Keys
  BY <1>0, WorkFacts DEF Phase, OnRecord
<1>3. store[th[t].id].state # "running"
  BY <1>1, <1>2
<1>4. \/ Goto(t, "mark_running") /\ pods[s.pod].phase = "ready"
      \/ CallRuntime(t, "purge_pod", s, "mark_dead")
  BY DEF WaitReady
<1>5. \E label \in {"mark_running", "purge_pod"} :
        /\ th'[t].pc = label /\ th'[t].sess = s /\ th'[t].id = th[t].id /\ th'[t].op = th[t].op
        /\ th'[t].cancelled = th[t].cancelled
        /\ label = "purge_pod" => th'[t].then = "mark_dead"
        /\ label = "mark_running" => pods[s.pod].phase = "ready"
  <2>1. CASE Goto(t, "mark_running") /\ pods[s.pod].phase = "ready"
    BY <1>0, <2>1, GotoRegs
  <2>2. CASE CallRuntime(t, "purge_pod", s, "mark_dead")
    BY <1>0, <2>2, JumpRegs
  <2> QED  BY <1>4, <2>1, <2>2
<1>6. Serving(th'[t])
  BY <1>1, <1>5 DEF Serving, ServingAt, PurgeAt, Building
<1>7. Phase(th'[t])
  BY <1>2, <1>5 DEF Phase, PurgeAt, OnRecord
<1>8. \A k : Holds(th[t], k) => Holds(th'[t], k)
  BY <1>0, <1>5 DEF Holds, PurgeAt
<1>9. \A i : ~ Purging(th[t], i)
  BY <1>0 DEF Purging, PurgeAt
<1> QED  BY <1>0, <1>6, <1>7, <1>8, <1>9, ServiceQuietStep

\* The choice of a warm sandbox: t takes charge of what the pool had ready.
LEMMA ServiceAcquire ==
    ASSUME Base, Service, NEW t \in Threads, th[t].pc = "provision",
           NEW k \in PoolKeys, Acquire(t, k), UNCHANGED <<store, clusterVars>>
    PROVE  Service'
<1>0. IInv /\ AtWork(t) /\ k \in Keys /\ None \notin Keys
  BY KeysAssumption, NoneIsNoKey DEF Base, AtWork
<1> DEFINE n == NewSession(t, k)
<1>1. n.pod = k /\ n.pvc = k /\ n.state = "creating"
  BY DEF NewSession
<1>2. k \in idle /\ idle' = idle \ {k} /\ GotoWith(t, "persist", n)
  BY DEF Acquire
<1> HIDE DEF n
<1>3. /\ th'[t].pc = "persist" /\ th'[t].sess = n /\ th'[t].id = Id(t)
      /\ th'[t].op = th[t].op /\ th'[t].cancelled = th[t].cancelled
  BY <1>0, <1>2, MoveRegs DEF Id
<1>4. \A u \in Threads : u # t => th'[u] = th[u]
  BY <1>0, <1>2, JumpCarries DEF Carries, Labels
<1>5. Serving(th'[t])
  BY <1>0, <1>1, <1>3, WorkFacts DEF Serving, ServingAt, PurgeAt, Building
<1>6. Up(k)
  BY <1>2 DEF Service, PoolReady, UpAndReady
<1>7. Phase(th'[t])
  BY <1>1, <1>3, <1>6 DEF Phase, PurgeAt, OnRecord
<1>8. Holds(th'[t], k)
  BY <1>1, <1>3 DEF Holds
<1>9. th[t].pc \in Free \ {"forget"}
  BY DEF Free, ServingAt, PurgeAt
<1> QED  BY <1>2, <1>4, <1>5, <1>7, <1>8, <1>9, FreeHoldsNothing, ServiceQuietStep

-----------------------------------------------------------------------------
(* Steps that write objects.                                               *)

\* An id that is being provisioned has no object yet.
LEMMA NothingLeft ==
    ASSUME Base, Service, NEW t \in Threads, AtWork(t), ~ Tracked(Id(t)), th[t].pc \in Free,
           NEW i \in Ids, i = Id(t)
    PROVE  ~ Retained(i)
<1>0. i \in Keys /\ i \notin idle /\ None \notin Keys
  BY KeysAssumption, NoneIsNoKey DEF Base, IInv, TypeOK
<1>1. \A j \in Ids : ~ RunsOn(j, i)
  BY <1>0, ApartFromRecords DEF RunsOn, Tracked, Touched
<1>2. ASSUME NEW u \in Threads, Holds(th[u], i)
      PROVE  FALSE
  <2>1. u # t
    BY <1>2, FreeHoldsNothing
  <2>2. AtWork(u)
    BY <1>2 DEF Holds, AtWork, PurgeAt
  <2>3. i = Id(u) \/ i = th[u].sess.pod
    BY <1>2 DEF Holds, Id
  <2> QED  BY <1>0, <2>1, <2>2, <2>3, ApartAtWork DEF Touched
<1> QED  BY <1>0, <1>1, <1>2 DEF Service, Accounted

\* A live Create has found no record, and until it writes one there is none.
LEMMA NoRecordYet ==
    ASSUME Base, Service, NEW t \in Threads, th[t].pc \in CreateAt
    PROVE  ~ Tracked(Id(t))
BY DEF Base, Exclusive, Unclaimed, Patient

\* A step of t that creates or deletes an object of its own id, whose record it
\* has not written yet.
LEMMA ServiceBuilds ==
    ASSUME Base, Service, NEW t \in Threads, NEW i \in Ids, i = Id(t),
           th[t].pc \in {"claim_create", "secret_create", "pod_create",
                         "rollback_secret", "rollback_claim"},
           \A u \in Threads : u # t => th'[u] = th[u],
           UNCHANGED <<store, idle>>, \A k \in Keys : k # i => Similar(k),
           Serving(th'[t]), Phase(th[t])', Retained(i)' => Holds(th'[t], i)
    PROVE  Service'
<1>0. AtWork(t) /\ Id(t) = th[t].id
  BY DEF AtWork, Id
<1>1. store[i].state = "absent"
  <2>1. CASE th[t].pc \in CreateAt
    BY <2>1, NoRecordYet DEF Tracked
  <2>2. CASE th[t].pc \notin CreateAt
    BY <1>0, <2>2, WorkFacts DEF Phase, CreateAt
  <2> QED  BY <2>1, <2>2
<1>2. \A k : Holds(th[t], k) => k = i
  BY <1>0 DEF Holds, PurgeAt
<1>3. \A k \in Keys : k # i => (Retained(k)' <=> Retained(k))
  BY SimilarKeeps
<1>4. Accounts(t, i)
  BY <1>1, <1>2, <1>3 DEF Accounts, RunsOn
<1>5. store'[i].state # "stopped" /\ store'[i].pod = store'[i].pvc
  BY DEF Service, OwnWorkspaces
<1> QED  BY <1>0, <1>1, <1>4, <1>5, ServiceStep DEF Touched

\* The claim, the Secret and the pod of a cold sandbox, in this order.
LEMMA ServiceCreates ==
    ASSUME Base, Service, NEW t \in Threads, ClaimCreate(t) \/ SecretCreate(t) \/ PodCreate(t)
    PROVE  Service'
<1>0. /\ UNCHANGED <<store, idle>> /\ \A u \in Threads : u # t => th'[u] = th[u]
      /\ th[t].pc \in {"claim_create", "secret_create", "pod_create"} /\ AtWork(t) /\ IInv
  BY OthersRest DEF ClaimCreate, SecretCreate, PodCreate, StoreUnchanged, At, AtWork, Base,
     Progress, CreateStep
<1>1. PICK i \in Ids : i = Id(t)
  BY <1>0, WorkFacts
<1>2. /\ i \in Keys /\ i = th[t].id /\ ~ (faults > 0) /\ Live(t) /\ Phase(th[t])
      /\ th[t].op \in {"ensure", "clear"} /\ ~ th[t].cancelled /\ th[t].sess.pod = i
      /\ th[t].sess.pod = th[t].sess.pvc /\ th[t].sess.state = "creating"
  BY <1>0, <1>1, WorkFacts DEF Serving, Building
<1>3. /\ pods \in [Keys -> [phase : PodPhases, claim : Keys \cup {None}]]
      /\ pvcs \in [Keys -> ClaimPhases] /\ secrets \in [Keys -> BOOLEAN]
  BY <1>0 DEF IInv, TypeOK, ClusterTypeOK
<1>4. ~ Tracked(i)
  BY <1>0, <1>1, NoRecordYet DEF CreateAt
<1>9. th[t].id = i
  BY <1>1 DEF Id
<1>5. CASE ClaimCreate(t)
  <2>1. th[t].pc = "claim_create"
    BY <1>5 DEF ClaimCreate, At
  <2>2. ~ Retained(i)
    BY <1>0, <1>1, <1>4, <2>1, NothingLeft DEF Free, ServingAt, PurgeAt
  <2>3. CASE Goto(t, "done") /\ UNCHANGED clusterVars
    <3>1. th'[t] = FinishedThread
      BY <1>0, <2>3, GotoRegs
    <3> QED  BY <1>0, <2>1, <2>3, <3>1, ServiceRests DEF Free, ServingAt, PurgeAt
  <2>4. CASE CreateClaim(i) /\ Goto(t, "secret_create")
    <3>1. /\ th'[t].pc = "secret_create" /\ th'[t].sess = th[t].sess /\ th'[t].id = i
          /\ th'[t].op = th[t].op /\ th'[t].cancelled = th[t].cancelled
      BY <1>0, <1>9, <2>4, GotoRegs
    <3>2. UNCHANGED <<pods, secrets>> /\ pvcs'[i] = "bound" /\ \A k \in Keys : k # i => pvcs'[k] = pvcs[k]
      BY <1>2, <1>3, <2>4 DEF CreateClaim
    <3>3. \A k \in Keys : k # i => Similar(k)
      BY <3>2 DEF Similar, PodAlive
    <3>4. Serving(th'[t])
      BY <1>2, <3>1 DEF Serving, ServingAt, PurgeAt, Building
    <3>5. ~ PodAlive(i)' /\ ~ secrets'[i]
      BY <2>2, <3>2 DEF Retained, PodAlive
    <3>6. Phase(th[t])'
      BY <3>1, <3>2, <3>5 DEF Phase, PurgeAt, OnRecord, PodAlive
    <3>7. Holds(th'[t], i)
      BY <3>1 DEF Holds
    <3> QED  BY <1>0, <1>1, <3>3, <3>4, <3>6, <3>7, ServiceBuilds
  <2> QED  BY <1>1, <1>2, <1>5, <2>3, <2>4 DEF ClaimCreate, Refused, Request
<1>6. CASE SecretCreate(t)
  <2>1. th[t].pc = "secret_create"
    BY <1>6 DEF SecretCreate, At
  <2>2. ~ PodAlive(i) /\ ~ secrets[i] /\ pvcs[i] = "bound"
    BY <1>2, <2>1 DEF Phase
  <2>3. CreateSecretObject(i) /\ Goto(t, "pod_create")
    BY <1>1, <1>2, <1>6, <2>2 DEF SecretCreate, Request
  <2>4. /\ th'[t].pc = "pod_create" /\ th'[t].sess = th[t].sess /\ th'[t].id = i
        /\ th'[t].op = th[t].op /\ th'[t].cancelled = th[t].cancelled
    BY <1>0, <1>9, <2>3, GotoRegs
  <2>5. UNCHANGED <<pods, pvcs>> /\ secrets'[i] = TRUE /\ \A k \in Keys : k # i => secrets'[k] = secrets[k]
    BY <1>2, <1>3, <2>3 DEF CreateSecretObject
  <2>6. \A k \in Keys : k # i => Similar(k)
    BY <2>5 DEF Similar, PodAlive
  <2>7. Serving(th'[t])
    BY <1>2, <2>4 DEF Serving, ServingAt, PurgeAt, Building
  <2>8. Phase(th[t])'
    BY <2>2, <2>4, <2>5 DEF Phase, PurgeAt, OnRecord, PodAlive
  <2>9. Holds(th'[t], i)
    BY <2>4 DEF Holds
  <2> QED  BY <1>0, <1>1, <2>6, <2>7, <2>8, <2>9, ServiceBuilds
<1>7. CASE PodCreate(t)
  <2>1. th[t].pc = "pod_create"
    BY <1>7 DEF PodCreate, At
  <2>2. ~ PodAlive(i) /\ secrets[i] /\ pvcs[i] = "bound" /\ store[i].state = "absent"
    BY <1>2, <1>4, <2>1 DEF Phase, Tracked
  <2>3. CASE Goto(t, "rollback_secret") /\ UNCHANGED clusterVars
    <3>1. /\ th'[t].pc = "rollback_secret" /\ th'[t].sess = th[t].sess /\ th'[t].id = i
          /\ th'[t].op = th[t].op /\ th'[t].cancelled = th[t].cancelled
      BY <1>0, <1>9, <2>3, GotoRegs
    <3>2. Serving(th'[t])
      BY <1>2, <3>1 DEF Serving, ServingAt, PurgeAt, Building
    <3>3. Phase(th[t])'
      BY <1>0, <2>2, <2>3, <3>1 DEF Phase, PurgeAt, OnRecord, PodAlive, clusterVars
    <3>4. Holds(th'[t], i)
      BY <3>1 DEF Holds
    <3>5. \A k \in Keys : Similar(k)
      BY <2>3 DEF Similar, PodAlive, clusterVars
    <3> QED  BY <1>0, <1>1, <3>2, <3>3, <3>4, <3>5, ServiceBuilds
  <2>4. CASE CreatePodMounting(i, i) /\ Goto(t, "persist")
    <3>1. /\ th'[t].pc = "persist" /\ th'[t].sess = th[t].sess /\ th'[t].id = i
          /\ th'[t].op = th[t].op /\ th'[t].cancelled = th[t].cancelled
      BY <1>0, <1>9, <2>4, GotoRegs
    <3>2. /\ UNCHANGED <<pvcs, secrets>> /\ pods'[i] = [phase |-> "starting", claim |-> i]
          /\ \A k \in Keys : k # i => pods'[k] = pods[k]
      BY <1>2, <1>3, <2>4 DEF CreatePodMounting
    <3>3. \A k \in Keys : k # i => Similar(k)
      BY <3>2 DEF Similar, PodAlive
    <3>4. Serving(th'[t])
      BY <1>2, <3>1 DEF Serving, ServingAt, PurgeAt, Building
    <3>5. Up(i)'
      BY <2>2, <3>2 DEF Up, PodAlive
    <3>6. Phase(th[t])'
      BY <1>2, <3>1, <3>5 DEF Phase, PurgeAt, OnRecord, Up, PodAlive
    <3>7. Holds(th'[t], i)
      BY <1>2, <3>1 DEF Holds
    <3> QED  BY <1>0, <1>1, <3>3, <3>4, <3>6, <3>7, ServiceBuilds
  <2> QED  BY <1>1, <1>2, <1>7, <2>3, <2>4 DEF PodCreate, Refused, Request
<1> QED  BY <1>5, <1>6, <1>7

\* The rollback of a pod creation that was refused.
LEMMA ServiceRollsBack ==
    ASSUME Base, Service, NEW t \in Threads, RollbackSecret(t) \/ RollbackClaim(t)
    PROVE  Service'
<1>0. /\ UNCHANGED <<store, idle>> /\ \A u \in Threads : u # t => th'[u] = th[u]
      /\ th[t].pc \in {"rollback_secret", "rollback_claim"} /\ AtWork(t) /\ IInv
  BY OthersRest DEF RollbackSecret, RollbackClaim, StoreUnchanged, At, AtWork, Base,
     Progress, CreateStep
<1>1. PICK i \in Ids : i = Id(t)
  BY <1>0, WorkFacts
<1>2. /\ i \in Keys /\ i = th[t].id /\ ~ (faults > 0) /\ Phase(th[t])
      /\ th[t].op \in {"ensure", "clear"} /\ ~ th[t].cancelled /\ th[t].sess.pod = th[t].sess.pvc
  BY <1>0, <1>1, WorkFacts DEF Serving
<1>3. /\ pods \in [Keys -> [phase : PodPhases, claim : Keys \cup {None}]]
      /\ pvcs \in [Keys -> ClaimPhases] /\ secrets \in [Keys -> BOOLEAN]
  BY <1>0 DEF IInv, TypeOK, ClusterTypeOK
<1>4. ~ PodAlive(i) /\ store[i].state = "absent"
  BY <1>0, <1>2 DEF Phase
<1>5. CASE RollbackSecret(t)
  <2>1. DeleteSecret(i) /\ Goto(t, "rollback_claim")
    BY <1>1, <1>2, <1>5 DEF RollbackSecret, Request
  <2>2. /\ th'[t].pc = "rollback_claim" /\ th'[t].sess = th[t].sess /\ th'[t].id = i
        /\ th'[t].op = th[t].op /\ th'[t].cancelled = th[t].cancelled
    BY <1>0, <1>2, <2>1, GotoRegs
  <2>3. UNCHANGED <<pods, pvcs>> /\ secrets'[i] = FALSE /\ \A k \in Keys : k # i => secrets'[k] = secrets[k]
    BY <1>2, <1>3, <2>1 DEF DeleteSecret
  <2>4. \A k \in Keys : k # i => Similar(k)
    BY <2>3 DEF Similar, PodAlive
  <2>5. Serving(th'[t])
    BY <1>2, <2>2 DEF Serving, ServingAt, PurgeAt, Building
  <2>6. Phase(th[t])'
    BY <1>0, <1>4, <2>2, <2>3 DEF Phase, PurgeAt, OnRecord, PodAlive
  <2>7. Holds(th'[t], i)
    BY <2>2 DEF Holds
  <2> QED  BY <1>0, <1>1, <2>4, <2>5, <2>6, <2>7, ServiceBuilds
<1>6. CASE RollbackClaim(t)
  <2>0. ~ secrets[i]
    BY <1>2, <1>6 DEF RollbackClaim, At, Phase
  <2>1. DeleteClaim(i) /\ Goto(t, "done")
    BY <1>1, <1>2, <1>6 DEF RollbackClaim, Request
  <2>2. th'[t] = FinishedThread
    BY <1>0, <2>1, GotoRegs
  <2>3. UNCHANGED <<pods, secrets>> /\ pvcs'[i] # "bound" /\ \A k \in Keys : k # i => pvcs'[k] = pvcs[k]
    BY <1>2, <1>3, <2>1 DEF DeleteClaim
  <2>4. \A k \in Keys : k # i => Similar(k)
    BY <2>3 DEF Similar, PodAlive
  <2>5. ~ Retained(i)'
    BY <1>4, <2>0, <2>3 DEF Retained, PodAlive
  <2> QED  BY <1>0, <1>1, <2>2, <2>4, <2>5, RestFacts, RestFactsAfter, ServiceBuilds
<1> QED  BY <1>5, <1>6

\* Runtime.Purge of the sandbox in the record: pod, Secret, claim.
LEMMA ServicePurges ==
    ASSUME Base, Service, NEW t \in Threads, PurgeStep(t)
    PROVE  Service'
<1>0. /\ UNCHANGED <<store, idle>> /\ \A u \in Threads : u # t => th'[u] = th[u]
      /\ th[t].pc \in PurgeAt /\ AtWork(t) /\ IInv
  BY OthersRest DEF PurgeStep, PurgePod, PurgeSecret, PurgeClaim, StoreUnchanged, At, AtWork, Base,
     Progress, PurgeAt
<1>1. PICK i \in Ids : i = Id(t)
  BY <1>0, WorkFacts
<1>2. /\ ~ (faults > 0) /\ Live(t) /\ Phase(th[t]) /\ Serving(th[t])
      /\ th[t].op \in {"ensure", "clear"} /\ ~ th[t].cancelled
  BY <1>0, WorkFacts
<1>3. th[t].id = i
  BY <1>1 DEF Id
<1>4. PICK k : k = th[t].sess.pod
  OBVIOUS
<1>5. /\ k \in Keys /\ k # None /\ th[t].sess.pvc = k /\ th[t].then \in {"forget", "mark_dead"}
      /\ store[i] = th[t].sess /\ (th[t].then = "mark_dead" => th[t].sess.state = "creating")
  BY <1>0, <1>2, <1>3, <1>4, NoneIsNoKey DEF Phase, Serving, OnRecord
<1>6. /\ pods \in [Keys -> [phase : PodPhases, claim : Keys \cup {None}]]
      /\ pvcs \in [Keys -> ClaimPhases] /\ secrets \in [Keys -> BOOLEAN]
  BY <1>0 DEF IInv, TypeOK, ClusterTypeOK
<1>7. ASSUME NEW label \in {"purge_secret", "purge_claim", "forget", "mark_dead"}, Goto(t, label),
             label \in {"forget", "mark_dead"} => label = th[t].then,
             \A l \in Keys : l # k => Similar(l), ~ PodAlive(k)',
             label # "purge_secret" => ~ secrets'[k],
             label \in {"forget", "mark_dead"} => ~ Retained(k)',
             Retained(k)' => Retained(k)
      PROVE  Service'
  <2>1. /\ th'[t].pc = label /\ th'[t].sess = th[t].sess /\ th'[t].then = th[t].then
        /\ th'[t].id = i /\ th'[t].op = th[t].op /\ th'[t].cancelled = th[t].cancelled
    BY <1>0, <1>3, <1>7, GotoRegs
  <2>2. Serving(th'[t])
    BY <1>2, <1>4, <1>5, <1>7, <2>1 DEF Serving, ServingAt, PurgeAt, Building
  <2>3. Phase(th[t])'
    <3>1. store'[i] = th[t].sess /\ k \in Keys
      BY <1>0, <1>5
    <3> QED  BY <1>4, <1>7, <2>1, <3>1 DEF Phase, PurgeAt, OnRecord
  <2>4. store'[i].state = "running" => Purging(th'[t], i)
    BY <1>0, <1>5, <1>7, <2>1 DEF Purging, PurgeAt
  <2>5. \A l \in Keys : Retained(l)' => Retained(l)
    BY <1>7, SimilarKeeps
  <2>6. \A l \in Keys : Retained(l)' /\ Holds(th[t], l) => Holds(th'[t], l)
    BY <1>0, <1>4, <1>7, <2>1 DEF Holds, PurgeAt
  <2>7. Accounts(t, i)
    BY <1>0, <2>5, <2>6 DEF Accounts, RunsOn
  <2>8. store'[i].state # "stopped" /\ store'[i].pod = store'[i].pvc
    BY <1>0 DEF Service, OwnWorkspaces
  <2>9. \A l \in Keys : l \notin Touched(t) => Similar(l)
    BY <1>4, <1>7 DEF Touched
  <2> QED  BY <1>0, <1>1, <2>2, <2>3, <2>4, <2>7, <2>8, <2>9, ServiceStep
<1>8. CASE PurgePod(t)
  <2>1. DeletePod(k) /\ Goto(t, "purge_secret")
    BY <1>2, <1>4, <1>5, <1>8 DEF PurgePod, Request
  <2>2. /\ UNCHANGED <<pvcs, secrets>> /\ pods'[k].phase \in {"none", "terminating"}
        /\ \A l \in Keys : l # k => pods'[l] = pods[l]
    BY <1>5, <1>6, <2>1 DEF DeletePod, PodExists
  <2>3. (\A l \in Keys : l # k => Similar(l)) /\ ~ PodAlive(k)' /\ (Retained(k)' => Retained(k))
    BY <2>2 DEF Similar, PodAlive, Retained
  <2> QED  BY <1>7, <2>1, <2>3
<1>9. CASE PurgeSecret(t)
  <2>1. DeleteSecret(k) /\ Goto(t, "purge_claim") /\ ~ PodAlive(k)
    BY <1>2, <1>4, <1>9 DEF PurgeSecret, Request, Phase, At
  <2>2. /\ UNCHANGED <<pods, pvcs>> /\ ~ secrets'[k]
        /\ \A l \in Keys : l # k => secrets'[l] = secrets[l]
    BY <1>5, <1>6, <2>1 DEF DeleteSecret
  <2>3. (\A l \in Keys : l # k => Similar(l)) /\ ~ PodAlive(k)' /\ (Retained(k)' => Retained(k))
    BY <2>1, <2>2 DEF Similar, PodAlive, Retained
  <2> QED  BY <1>7, <2>1, <2>2, <2>3
<1>10. CASE PurgeClaim(t)
  <2>1. DeleteClaim(k) /\ Goto(t, th[t].then) /\ ~ PodAlive(k) /\ ~ secrets[k]
    BY <1>2, <1>4, <1>5, <1>10 DEF PurgeClaim, Request, Phase, At
  <2>2. /\ UNCHANGED <<pods, secrets>> /\ pvcs'[k] # "bound"
        /\ \A l \in Keys : l # k => pvcs'[l] = pvcs[l]
    BY <1>5, <1>6, <2>1 DEF DeleteClaim
  <2>3. (\A l \in Keys : l # k => Similar(l)) /\ ~ PodAlive(k)' /\ ~ Retained(k)' /\ ~ secrets'[k]
    BY <2>1, <2>2 DEF Similar, PodAlive, Retained
  <2> QED  BY <1>5, <1>7, <2>1, <2>3
<1> QED  BY <1>8, <1>9, <1>10 DEF PurgeStep

-----------------------------------------------------------------------------
(* Steps that write a record.                                              *)

\* A step of t that writes its record and no object: what it held must be held
\* by the new label, or run under the new record.
LEMMA ServiceRecords ==
    ASSUME Base, Service, NEW t \in Threads, AtWork(t), NEW i \in Ids, i = Id(t),
           \A u \in Threads : u # t => th'[u] = th[u], UNCHANGED <<idle, clusterVars>>,
           NEW s \in Session, store' = [store EXCEPT ![i] = s],
           s.state # "stopped", s.pod = s.pvc, Serving(th'[t]), Phase(th[t])',
           s.state = "running" => UpAndReady(s.pod),
           \A k \in Keys : Retained(k) /\ (Holds(th[t], k) \/ RunsOn(i, k))
             => Holds(th'[t], k) \/ (s.state = "running" /\ s.pod = k)
    PROVE  Service'
<1>0. store \in [Ids -> Session]
  BY DEF Base, IInv, TypeOK
<1>1. store'[i] = s /\ \A j \in Ids : j # i => store'[j] = store[j]
  BY <1>0
<1>2. UNCHANGED <<pods, pvcs, secrets>>
  BY DEF clusterVars
<1>3. \A k \in Keys : Similar(k)
  BY <1>2 DEF Similar, PodAlive
<1>4. \A k \in Keys : Retained(k)' <=> Retained(k)
  BY <1>3, SimilarKeeps
<1>5. Accounts(t, i)
  BY <1>1, <1>4 DEF Accounts, RunsOn
<1>6. store'[i].state = "running" => UpAndReady(store[i].pod)'
  BY <1>1, <1>2 DEF UpAndReady, Up, PodAlive
<1> QED  BY <1>1, <1>3, <1>5, <1>6, ServiceStep

\* Persist inserts the record of the sandbox that was just provisioned.
LEMMA ServicePersists ==
    ASSUME Base, Service, NEW t \in Threads, Persist(t)
    PROVE  Service'
<1>0. /\ UNCHANGED <<idle, clusterVars>> /\ \A u \in Threads : u # t => th'[u] = th[u]
      /\ th[t].pc = "persist" /\ AtWork(t) /\ IInv
  BY OthersRest DEF Persist, At, AtWork, Base, Progress, CreateStep
<1>1. PICK i \in Ids : i = Id(t)
  BY <1>0, WorkFacts
<1>2. PICK s \in Session : s = th[t].sess
  BY <1>0, WorkFacts
<1>3. /\ Live(t) /\ Up(s.pod) /\ s.pod = s.pvc /\ s.state = "creating" /\ th[t].id = i
      /\ th[t].op \in {"ensure", "clear"} /\ ~ th[t].cancelled
  BY <1>0, <1>1, <1>2, WorkFacts DEF Serving, Phase
<1>4. ~ Tracked(i)
  BY <1>0, <1>1, NoRecordYet DEF CreateAt
<1>5. store' = [store EXCEPT ![i] = s] /\ Goto(t, "wait_ready")
  BY <1>1, <1>2, <1>3, <1>4 DEF Persist
<1>6. /\ th'[t].pc = "wait_ready" /\ th'[t].sess = s /\ th'[t].id = th[t].id
      /\ th'[t].op = th[t].op /\ th'[t].cancelled = th[t].cancelled
  BY <1>0, <1>2, <1>5, GotoRegs
<1>7. s.pod \in Keys
  BY <1>3 DEF Session, AbsentSession
<1>8. Serving(th'[t])
  BY <1>3, <1>6 DEF Serving, ServingAt, PurgeAt, Building
<1>9. Phase(th[t])'
  <2>1. store'[i] = s
    BY <1>0, <1>5 DEF IInv, TypeOK
  <2>2. Up(s.pod)'
    BY <1>0, <1>3 DEF Up, PodAlive, clusterVars
  <2> QED  BY <1>3, <1>6, <1>7, <2>1, <2>2 DEF Phase, PurgeAt, OnRecord, Up, PodAlive
<1>10. \A k : ~ RunsOn(i, k)
  BY <1>4 DEF RunsOn, Tracked
<1>11. \A k : Holds(th[t], k) => Holds(th'[t], k)
  BY <1>0, <1>2, <1>6 DEF Holds, PurgeAt
<1> QED  BY <1>0, <1>1, <1>3, <1>5, <1>8, <1>9, <1>10, <1>11, ServiceRecords

\* A finished Create hands its sandbox over to a running record, a failed one
\* leaves a record of a sandbox that is gone, and Forget leaves none.
LEMMA ServiceSettles ==
    ASSUME Base, Service, NEW t \in Threads, MarkRunning(t) \/ MarkDead(t) \/ Forget(t)
    PROVE  Service'
<1>0. /\ UNCHANGED <<idle, clusterVars>> /\ \A u \in Threads : u # t => th'[u] = th[u]
      /\ th[t].pc \in {"mark_running", "mark_dead", "forget"} /\ AtWork(t) /\ IInv
  BY OthersRest DEF MarkRunning, MarkDead, Forget, UpdateAndFinish, At, AtWork, Base,
     Progress, CreateStep, EnsureStep
<1>1. PICK i \in Ids : i = Id(t)
  BY <1>0, WorkFacts
<1>2. PICK s \in Session : s = th[t].sess
  BY <1>0, WorkFacts
<1>3. /\ Live(t) /\ Phase(th[t]) /\ Serving(th[t]) /\ th[t].id = i
      /\ th[t].op \in {"ensure", "clear"} /\ ~ th[t].cancelled
  BY <1>0, <1>1, WorkFacts
<1>4. store[i] = s /\ s.pod \in Keys /\ s.pod = s.pvc
  BY <1>0, <1>2, <1>3 DEF Phase, Serving, OnRecord
<1>5. s.pod # None
  BY <1>4, NoneIsNoKey
<1>6. ASSUME NEW st \in {"running", "dead"}, s.state = "creating"
      PROVE  /\ [s EXCEPT !.state = st] \in Session /\ [s EXCEPT !.state = st].state = st
             /\ [s EXCEPT !.state = st].pod = s.pod /\ [s EXCEPT !.state = st].pvc = s.pvc
  <2>1. s = [state |-> s.state, image |-> s.image, pod |-> s.pod, pvc |-> s.pvc]
    BY <1>5, NamedRecord
  <2> QED  BY <1>5, <1>6, <2>1, SetState
<1>7. CASE MarkRunning(t)
  <2> DEFINE n == [s EXCEPT !.state = "running"]
  <2>0. th[t].pc = "mark_running" /\ s.state = "creating" /\ UpAndReady(s.pod)
    BY <1>2, <1>3, <1>7 DEF MarkRunning, At, Serving, Phase, UpAndReady
  <2>1. n \in Session /\ n.state = "running" /\ n.pod = s.pod /\ n.pvc = s.pvc
    BY <1>6, <2>0
  <2>2. CanUpdate(t, FALSE)
    BY <1>1, <1>3, <1>4, <2>0 DEF CanUpdate, Tracked
  <2>3. store' = [store EXCEPT ![i] = n] /\ GotoWith(t, "done", n)
    BY <1>1, <1>2, <1>7, <2>2 DEF MarkRunning
  <2> HIDE DEF n
  <2>4. th'[t] = FinishedThread
    BY <1>0, <2>3, JumpRegs
  <2>5. \A k : Holds(th[t], k) => k = s.pod
    BY <1>2, <2>0 DEF Holds
  <2>6. \A k : ~ RunsOn(i, k)
    BY <1>4, <2>0 DEF RunsOn
  <2>7. Serving(th'[t]) /\ Phase(th[t])'
    BY <2>4, RestFacts, RestFactsAfter
  <2>8. n.state # "stopped" /\ n.pod = n.pvc /\ UpAndReady(n.pod)
    BY <1>4, <2>0, <2>1
  <2>9. \A k \in Keys : Retained(k) /\ (Holds(th[t], k) \/ RunsOn(i, k))
          => n.state = "running" /\ n.pod = k
    BY <2>1, <2>5, <2>6
  <2> QED  BY <1>0, <1>1, <2>1, <2>3, <2>7, <2>8, <2>9, ServiceRecords
<1>8. CASE MarkDead(t)
  <2> DEFINE n == [s EXCEPT !.state = "dead"]
  <2>0. th[t].pc = "mark_dead" /\ s.state = "creating"
    BY <1>2, <1>3, <1>8 DEF MarkDead, At, Serving
  <2>1. n \in Session /\ n.state = "dead" /\ n.pod = s.pod /\ n.pvc = s.pvc
    BY <1>6, <2>0
  <2>2. CanUpdate(t, TRUE)
    BY <1>1, <1>4, <2>0 DEF CanUpdate, Tracked
  <2>3. store' = [store EXCEPT ![i] = n] /\ Goto(t, "done")
    BY <1>1, <1>2, <1>8, <2>2 DEF MarkDead, UpdateAndFinish
  <2> HIDE DEF n
  <2>4. th'[t] = FinishedThread
    BY <1>0, <2>3, GotoRegs
  <2>5. \A k : ~ Holds(th[t], k)
    BY <2>0 DEF Holds, PurgeAt
  <2>6. \A k : ~ RunsOn(i, k)
    BY <1>4, <2>0 DEF RunsOn
  <2>7. Serving(th'[t]) /\ Phase(th[t])'
    BY <2>4, RestFacts, RestFactsAfter
  <2>8. n.state \notin {"running", "stopped"} /\ n.pod = n.pvc
    BY <1>4, <2>1
  <2> QED  BY <1>0, <1>1, <2>1, <2>3, <2>5, <2>6, <2>7, <2>8, ServiceRecords
<1>9. CASE Forget(t)
  <2>0. th[t].pc = "forget" /\ ~ Retained(s.pod)
    BY <1>2, <1>3, <1>9 DEF Forget, At, Phase
  <2>1. /\ AbsentSession \in Session /\ AbsentSession.state = "absent"
        /\ AbsentSession.pod = AbsentSession.pvc
    BY DEF AbsentSession, Session
  <2>2. store' = [store EXCEPT ![i] = AbsentSession]
    BY <1>1, <1>3, <1>9 DEF Forget
  <2>3. \A k : ~ Holds(th[t], k)
    BY <2>0 DEF Holds, PurgeAt
  <2>4. \A k : RunsOn(i, k) => ~ Retained(k)
    BY <1>4, <2>0 DEF RunsOn
  <2>5. PICK label \in {"count_running", "done"} : GotoWith(t, label, AbsentSession)
    BY <1>9 DEF Forget
  <2>6. Serving(th'[t]) /\ Phase(th[t])'
    <3>1. CASE label = "done"
      BY <1>0, <2>5, <3>1, JumpRegs, RestFacts, RestFactsAfter
    <3>2. CASE label = "count_running"
      <4>1. /\ th'[t].pc = "count_running" /\ th'[t].sess = AbsentSession
            /\ th'[t].op = th[t].op /\ th'[t].cancelled = th[t].cancelled
        BY <1>0, <2>5, <3>2, JumpRegs
      <4>2. Serving(th'[t])
        BY <1>3, <2>1, <4>1 DEF Serving, ServingAt, PurgeAt, Building
      <4>3. Phase(th[t])'
        BY <4>1 DEF Phase, PurgeAt, OnRecord
      <4> QED  BY <4>2, <4>3
    <3> QED  BY <2>5, <3>1, <3>2
  <2> QED  BY <1>0, <1>1, <2>1, <2>2, <2>3, <2>4, <2>6, ServiceRecords
<1> QED  BY <1>7, <1>8, <1>9

-----------------------------------------------------------------------------
(* Service is inductive.                                                   *)

\* Steps of the cluster: a pod becomes ready, what is being deleted goes.
LEMMA ServiceCluster ==
    ASSUME Base, Service, ClusterActs
    PROVE  Service'
<1>0. /\ pods \in [Keys -> [phase : PodPhases, claim : Keys \cup {None}]]
      /\ pvcs \in [Keys -> ClaimPhases] /\ secrets \in [Keys -> BOOLEAN]
      /\ store \in [Ids -> Session] /\ idle \subseteq PoolKeys /\ PoolKeys \subseteq Keys
      /\ Ids \subseteq Keys /\ None \notin Keys /\ IInv
  BY KeysAssumption, NoneIsNoKey DEF Base, IInv, TypeOK, ClusterTypeOK
<1>1. UNCHANGED <<store, idle, th>>
  BY DEF ClusterActs
<1>2. ASSUME NEW k \in Keys
      PROVE  Similar(k)
  <2>1. CASE \E l \in Keys : PodBecomesReady(l)
    BY <1>0, <2>1 DEF PodBecomesReady, Similar, PodAlive
  <2>2. CASE \E l \in Keys : PodTerminates(l)
    BY <1>0, <2>2 DEF PodTerminates, Similar, PodAlive, NoPod
  <2>3. CASE \E l \in Keys : ClaimIsReleased(l)
    BY <1>0, <2>3 DEF ClaimIsReleased, Similar, PodAlive
  <2> QED  BY <2>1, <2>2, <2>3 DEF ClusterActs, ClusterStep
<1>3. \A k \in Keys : (UpAndReady(k) => UpAndReady(k)') /\ (Retained(k)' <=> Retained(k))
  BY <1>2, SimilarKeeps
<1>4. AllServing' /\ OwnWorkspaces'
  BY <1>1 DEF Service, AllServing, OwnWorkspaces
<1>5. AllPhases'
  <2>1. ASSUME NEW u \in Threads, NEW r, r = th[u]
        PROVE  Phase(r)'
    <3>1. Phase(r)
      BY <2>1 DEF Service, AllPhases
    <3>2. r.pc \in {"secret_create", "pod_create", "rollback_secret", "rollback_claim"}
            => Similar(r.id)
      BY <1>0, <1>2, <2>1, ThreadFacts
    <3>3. r.pc \in OnRecord => Similar(r.sess.pod)
      BY <1>2, <3>1 DEF Phase
    <3>4. r.pc = "persist" => Similar(r.sess.pod)
      BY <1>0, <1>2, <2>1, ThreadFacts, NamedRecord DEF Fits, NamedAt
    <3> QED  BY <1>1, <3>1, <3>2, <3>3, <3>4, PhaseKept
  <2>2. ASSUME NEW u \in Threads
        PROVE  Phase(th[u])'
    <3>1. PICK r : r = th[u]
      OBVIOUS
    <3>2. th'[u] = r /\ Phase(r)'
      BY <1>1, <2>1, <3>1
    <3> QED  BY <3>2 DEF Phase, Up, PodAlive, Retained
  <2> QED  BY <2>2 DEF AllPhases
<1>6. PoolReady'
  <2>1. \A k \in idle : UpAndReady(k)'
    BY <1>0, <1>3 DEF Service, PoolReady
  <2> QED  BY <1>1, <2>1 DEF PoolReady, UpAndReady, Up, PodAlive
<1>7. RunningReady'
  <2>1. ASSUME NEW j \in Ids, store[j].state = "running", NEW k, k = store[j].pod
        PROVE  UpAndReady(k)' \/ \E u \in Threads : Purging(th[u], j)
    <3>1. k \in Keys
      BY <1>0, <2>1 DEF Session, AbsentSession
    <3> QED  BY <1>3, <2>1, <3>1 DEF Service, RunningReady, InState
  <2>2. ASSUME NEW j \in Ids, store'[j].state = "running"
        PROVE  UpAndReady(store[j].pod)' \/ \E u \in Threads : Purging(th[u], j)'
    <3>1. PICK k : k = store[j].pod
      OBVIOUS
    <3>2. UpAndReady(k)' \/ \E u \in Threads : Purging(th[u], j)
      BY <1>1, <2>1, <2>2, <3>1
    <3>3. k = store'[j].pod
      BY <1>1, <3>1
    <3> QED  BY <1>1, <3>2, <3>3 DEF UpAndReady, Up, PodAlive, Purging
  <2> QED  BY <2>2 DEF RunningReady, InState
<1>8. Accounted'
  BY <1>1, <1>3 DEF Service, Accounted, RunsOn, Holds
<1> QED  BY <1>4, <1>5, <1>6, <1>7, <1>8 DEF Service

\* The pool gains a sandbox under a key that nobody refers to.
LEMMA ServiceRefills ==
    ASSUME Base, Service, NEW k \in PoolKeys, PoolRefills(k)
    PROVE  Service'
<1>0. /\ pods \in [Keys -> [phase : PodPhases, claim : Keys \cup {None}]]
      /\ pvcs \in [Keys -> ClaimPhases] /\ secrets \in [Keys -> BOOLEAN]
      /\ store \in [Ids -> Session] /\ idle \subseteq PoolKeys /\ k \in Keys
      /\ Ids \subseteq Keys /\ Ids \cap PoolKeys = {} /\ PoolKeys \subseteq Keys /\ IInv
  BY KeysAssumption DEF Base, IInv, TypeOK, ClusterTypeOK
<1>1. UNCHANGED <<store, th>> /\ idle' = idle \cup {k}
  BY DEF PoolRefills
<1>2. /\ pods' = [pods EXCEPT ![k] = [phase |-> "ready", claim |-> k]]
      /\ pvcs' = [pvcs EXCEPT ![k] = "bound"] /\ secrets' = [secrets EXCEPT ![k] = TRUE]
  BY DEF PoolRefills
<1>3. /\ \A i \in Ids : store[i].pod # k
      /\ \A t \in Threads : th[t].sess.pod # k
  BY DEF PoolRefills
<1>4. \A l \in Keys : l # k => Similar(l)
  <2>1. ASSUME NEW l \in Keys, l # k
        PROVE  pods'[l] = pods[l] /\ pvcs'[l] = pvcs[l] /\ secrets'[l] = secrets[l]
    BY <1>0, <1>2, <2>1
  <2> QED  BY <2>1 DEF Similar, PodAlive
<1>5. \A l \in Keys : l # k => (UpAndReady(l) => UpAndReady(l)') /\ (Retained(l)' <=> Retained(l))
  BY <1>4, SimilarKeeps
<1>6. UpAndReady(k)'
  <2>1. pods'[k] = [phase |-> "ready", claim |-> k] /\ pvcs'[k] = "bound" /\ secrets'[k]
    BY <1>0, <1>2
  <2> QED  BY <2>1 DEF UpAndReady, Up, PodAlive
<1>7. AllServing' /\ OwnWorkspaces'
  BY <1>1 DEF Service, AllServing, OwnWorkspaces
<1>8. AllPhases'
  <2>1. ASSUME NEW u \in Threads, NEW r, r = th[u]
        PROVE  Phase(r)'
    <3>1. Phase(r) /\ r.sess.pod # k
      BY <1>3, <2>1 DEF Service, AllPhases
    <3>2. r.pc \in {"secret_create", "pod_create", "rollback_secret", "rollback_claim"}
            => Similar(r.id)
      BY <1>0, <1>4, <2>1, ThreadFacts
    <3>3. r.pc \in OnRecord => Similar(r.sess.pod)
      BY <1>4, <3>1 DEF Phase
    <3>4. r.pc = "persist" => Similar(r.sess.pod)
      BY <1>0, <1>4, <2>1, <3>1, ThreadFacts, NamedRecord DEF Fits, NamedAt
    <3> QED  BY <1>1, <3>1, <3>2, <3>3, <3>4, PhaseKept
  <2>2. ASSUME NEW u \in Threads
        PROVE  Phase(th[u])'
    <3>1. PICK r : r = th[u]
      OBVIOUS
    <3>2. th'[u] = r /\ Phase(r)'
      BY <1>1, <2>1, <3>1
    <3> QED  BY <3>2 DEF Phase, Up, PodAlive, Retained
  <2> QED  BY <2>2 DEF AllPhases
<1>9. PoolReady'
  <2>1. ASSUME NEW l \in idle'
        PROVE  UpAndReady(l)'
    BY <1>0, <1>1, <1>5, <1>6, <2>1 DEF Service, PoolReady
  <2> QED  BY <2>1 DEF PoolReady, UpAndReady, Up, PodAlive
<1>10. RunningReady'
  <2>1. ASSUME NEW j \in Ids, store[j].state = "running", NEW l, l = store[j].pod
        PROVE  UpAndReady(l)' \/ \E u \in Threads : Purging(th[u], j)
    <3>1. l \in Keys /\ l # k
      BY <1>0, <1>3, <2>1 DEF Session, AbsentSession
    <3> QED  BY <1>5, <2>1, <3>1 DEF Service, RunningReady, InState
  <2>2. ASSUME NEW j \in Ids, store'[j].state = "running"
        PROVE  UpAndReady(store[j].pod)' \/ \E u \in Threads : Purging(th[u], j)'
    <3>1. PICK l : l = store[j].pod
      OBVIOUS
    <3>2. UpAndReady(l)' \/ \E u \in Threads : Purging(th[u], j)
      BY <1>1, <2>1, <2>2, <3>1
    <3>3. l = store'[j].pod
      BY <1>1, <3>1
    <3> QED  BY <1>1, <3>2, <3>3 DEF UpAndReady, Up, PodAlive, Purging
  <2> QED  BY <2>2 DEF RunningReady, InState
<1>11. Accounted'
  BY <1>1, <1>5 DEF Service, Accounted, RunsOn, Holds
<1> QED  BY <1>7, <1>8, <1>9, <1>10, <1>11 DEF Service

\* Initially the pool owns everything there is.
LEMMA ServiceInit == Init => Service
<1> SUFFICES ASSUME Init PROVE Service
  OBVIOUS
<1>0. /\ idle = PoolKeys /\ PoolKeys \subseteq Keys /\ \A t \in Threads : th[t] = IdleThread
      /\ \A i \in Ids : store[i] = AbsentSession
  BY KeysAssumption DEF Init
<1>1. \A k \in Keys : /\ pods[k] = IF k \in PoolKeys THEN [phase |-> "ready", claim |-> k] ELSE NoPod
                      /\ pvcs[k] = IF k \in PoolKeys THEN "bound" ELSE "none"
                      /\ secrets[k] = (k \in PoolKeys)
  BY DEF Init
<1>2. AllServing /\ AllPhases
  BY <1>0, RestFacts DEF AllServing, AllPhases
<1>3. OwnWorkspaces /\ RunningReady
  BY <1>0 DEF OwnWorkspaces, RunningReady, InState, AbsentSession
<1>4. PoolReady
  <2>1. ASSUME NEW k \in PoolKeys
        PROVE  UpAndReady(k)
    <3>1. k \in Keys
      BY <1>0
    <3>2. pods[k] = [phase |-> "ready", claim |-> k] /\ pvcs[k] = "bound"
      BY <1>1, <3>1
    <3>3. secrets[k]
      BY <1>1, <3>1
    <3> QED  BY <3>2, <3>3 DEF UpAndReady, Up, PodAlive
  <2> QED  BY <1>0, <2>1 DEF PoolReady
<1>5. Accounted
  <2>1. ASSUME NEW k \in Keys, k \notin PoolKeys
        PROVE  pods[k] = NoPod /\ pvcs[k] = "none" /\ ~ secrets[k]
    BY <1>1, <2>1
  <2>2. ASSUME NEW k \in Keys, k \notin PoolKeys
        PROVE  ~ Retained(k)
    BY <2>1, <2>2 DEF Retained, PodAlive, NoPod
  <2> QED  BY <1>0, <2>2 DEF Accounted
<1> QED  BY <1>2, <1>3, <1>4, <1>5 DEF Service

\* Every step of an instance that serves only EnsureSession and Clear, and in
\* which nothing fails, keeps Service.
LEMMA ServiceNext ==
    ASSUME Calm, Base, Service, [Next]_vars
    PROVE  Service'
<1>0. Requests \subseteq {"ensure", "clear"}
  BY DEF Calm
<1>1. ASSUME NEW t \in Threads, Progress(t)
      PROVE  Service'
  <2>0. th[t].pc \in ServingAt
    BY DEF Service, AllServing, Serving
  <2>1. ~ StopStep(t) /\ ~ ResumeStep(t) /\ ~ DeleteStep(t)
    BY <2>0 DEF ServingAt, PurgeAt, StopStep, StopGet, StopPod, StopSecret, MarkStopped,
       ResumeStep, ResumeGet, ResumeSecret, ResumePod, MarkCreating, ResumeWait, MarkResumed,
       RestoreStopped, DeleteStep, DeleteGet, MarkDeleted, At
  <2>2. CASE Provision(t)
    <3>1. CASE UNCHANGED idle /\ ~ \E k \in PoolKeys : Acquires(t, k)
      BY <2>2, <3>1, ServiceCold
    <3>2. ASSUME NEW k \in PoolKeys, Acquire(t, k)
          PROVE  Service'
      BY <2>2, <3>2, ServiceAcquire DEF Provision, At
    <3> QED  BY <2>2, <3>1, <3>2 DEF Provision, Acquires
  <2>3. CASE ClaimWait(t)
    <3>1. ~ \E k \in PoolKeys : Acquires(t, k)
      <4>1. th[t].pc = "claim_wait" /\ UNCHANGED idle
        BY <2>3 DEF ClaimWait, At, OnlyThread
      <4> QED  BY <4>1 DEF Acquires, Acquire
    <3> QED  BY <2>3, <3>1, ServiceCold DEF ClaimWait, OnlyThread
  <2> QED  BY <1>0, <1>1, <2>1, <2>2, <2>3, ServiceGets, ServiceCounts, ServiceWaitReady,
              ServiceCreates, ServiceRollsBack, ServicePurges, ServicePersists, ServiceSettles,
              ServiceOutside DEF Progress, EnsureStep, CreateStep
<1>2. ASSUME NEW t \in Threads, Cancel(t)
      PROVE  FALSE
  BY <1>2 DEF Base, Patient, Cancel
<1>3. CASE UNCHANGED vars
  BY <1>3 DEF vars, Service, AllServing, AllPhases, OwnWorkspaces, RunningReady, Accounted,
     PoolReady, InState, UpAndReady, Up, PodAlive, Retained, RunsOn, Phase
<1> QED  BY <1>0, <1>1, <1>2, <1>3, ServiceOutside, ServiceCluster, ServiceRefills DEF Next

\* Base is what the other proofs establish, given that no fault can happen.
LEMMA ServiceHolds ==
    ASSUME Calm
    PROVE  Spec => [](Base /\ Service)
<1>1. Init => Base /\ Service
  BY InitOK, ExclusiveInit, OwnInit, ServiceInit DEF Calm, Base, Init, Patient, Live, IdleThread
<1>2. Base /\ Service /\ [Next]_vars => Base' /\ Service'
  BY StepOK, ExclusiveStep, OwnNext, PatientNext, ServiceNext DEF Base
<1> QED  BY <1>1, <1>2, PTL DEF Spec

\* Where only EnsureSession and Clear are served and nothing fails, a record in
\* "running" never outlives its sandbox: its pod is ready and mounts the bound
\* claim of the record, or the holder of the lock is about to forget it.
THEOREM RunningIsReady ==
    ASSUME Calm
    PROVE  Spec => []RunningMeansReady
<1>1. Base /\ Service => RunningMeansReady
  <2>1. SUFFICES ASSUME Base, Service, NEW i \in InState("running"), lock[i] = None
                 PROVE  /\ pods[store[i].pod] = [phase |-> "ready", claim |-> store[i].pvc]
                        /\ pvcs[store[i].pvc] = "bound"
    BY DEF RunningMeansReady
  <2>2. PICK k : k = store[i].pod
    OBVIOUS
  <2>3. i \in Ids /\ store[i].state = "running" /\ store[i].pvc = k
    BY <2>1, <2>2 DEF InState, Service, OwnWorkspaces
  <2>4. ASSUME NEW t \in Threads, Purging(th[t], i)
        PROVE  FALSE
    <3>1. AtWork(t) /\ Id(t) = i
      BY <2>4 DEF Purging, AtWork, PurgeAt, Id
    <3>2. lock[i] = t
      BY <2>1, <3>1, WorkFacts
    <3> QED  BY <2>1, <3>2, NoneAssumption
  <2>5. UpAndReady(k)
    BY <2>1, <2>2, <2>4 DEF Service, RunningReady
  <2>6. /\ pods \in [Keys -> [phase : PodPhases, claim : Keys \cup {None}]]
        /\ store[i] \in Session
    BY <2>1, <2>3 DEF Base, IInv, TypeOK, ClusterTypeOK
  <2>7. k \in Keys
    BY <2>2, <2>3, <2>6 DEF Session, AbsentSession
  <2>8. pods[k] = [phase |-> "ready", claim |-> k]
    BY <2>5, <2>6, <2>7 DEF UpAndReady, Up
  <2> QED  BY <2>2, <2>3, <2>5, <2>8 DEF UpAndReady, Up
<1> QED  BY <1>1, ServiceHolds, PTL

\* Under the same conditions nothing is left behind: whenever no request is in
\* flight, every pod, claim and Secret that nobody has deleted belongs to a
\* running session or to the pool.
THEOREM NothingLeaks ==
    ASSUME Calm
    PROVE  Spec => []NoLeakWhenQuiet
<1>1. Base /\ Service => NoLeakWhenQuiet
  <2>1. SUFFICES ASSUME Service, Quiet, NEW k \in Keys, Retained(k)
                 PROVE  k \in idle \/ \E i \in InState("running") : store[i].pod = k
    BY DEF NoLeakWhenQuiet
  <2>2. \A t \in Threads : ~ Holds(th[t], k)
    BY <2>1 DEF Quiet, At, Holds, PurgeAt
  <2> QED  BY <2>1, <2>2 DEF Service, Accounted, RunsOn, InState
<1> QED  BY <1>1, ServiceHolds, PTL

-----------------------------------------------------------------------------
(* Where only EnsureSession and Clear are served, whatever fails and        *)
(* whatever is cancelled: the manager implements SessionContract.          *)
(*                                                                         *)
(* Failures leave objects behind, so nothing is said of them here.  What   *)
(* the contract needs is that the clone of a goroutine which will write    *)
(* its record still is a clone of that record (Suits), because the lock    *)
(* keeps every other writer away until it has.                             *)

\* The instances these proofs are about.
OverMCP == Requests \subseteq {"ensure", "clear"}

\* Labels at which Create has inserted its record and not yet settled it.
Unsettled(label, ret) ==
    \/ label \in {"wait_ready", "mark_running", "mark_dead"}
    \/ label \in PurgeAt /\ ret = "mark_dead"

SameSandbox(rec, s) == rec.pod = s.pod /\ rec.pvc = s.pvc /\ rec.image = s.image

\* What a label says about the clone s and about the record rec of the id served.
Suits(rec, id, label, s, ret) ==
    /\ label \in ServingAt
    /\ s.pod = s.pvc
    /\ label \in PurgeAt => ret \in {"forget", "mark_dead", "done"}
    /\ label \in Building => s.pod = id
    /\ label \in Building \cup {"persist"} => s.state = "creating"
    /\ label = "persist" /\ s.pod \in PoolKeys => s.image = DefaultImage
    /\ Unsettled(label, ret) => rec.state = "creating" /\ SameSandbox(rec, s)

MCPRequest(r) == r.op \in {"none", "ensure", "clear"} /\ (r.op = "none" => r.pc \in {"idle", "done"})

Dealt ==
    /\ \A t \in Threads : MCPRequest(th[t])
    /\ \A t \in Threads : Suits(store[th[t].id], th[t].id, th[t].pc, th[t].sess, th[t].then)
    /\ OwnWorkspaces

\* What Dealt rests on.
Ground == IInv /\ Exclusive /\ Owned /\ Dealt

\* A step of t ends its request, or takes it to a label with these registers.
Jumps(t, label, s, ret) ==
    IF label = "done" THEN th'[t] = FinishedThread
    ELSE /\ th'[t].pc = label /\ th'[t].sess = s /\ th'[t].then = ret
         /\ th'[t].id = th[t].id /\ th'[t].op = th[t].op

\* Gotos and calls do so.
LEMMA JumpsTo ==
    ASSUME IInv, NEW t \in Threads
    PROVE  /\ \A label \in Labels : Goto(t, label) => Jumps(t, label, th[t].sess, th[t].then)
           /\ \A label \in Labels, s \in Session : GotoWith(t, label, s) => Jumps(t, label, s, th[t].then)
           /\ \A ret \in Labels, s \in Session :
                CallRuntime(t, "purge_pod", s, ret) => Jumps(t, "purge_pod", s, ret)
<1>1. ASSUME NEW label \in Labels, NEW s, GotoWith(t, label, s)
      PROVE  Jumps(t, label, s, th[t].then)
  <2>1. CASE label = "done"
    BY <1>1, <2>1, EndRegs DEF Jumps
  <2>2. CASE label # "done"
    BY <1>1, <2>2, MoveRegs DEF Jumps
  <2> QED  BY <2>1, <2>2
<1>2. ASSUME NEW ret \in Labels, NEW s \in Session, CallRuntime(t, "purge_pod", s, ret)
      PROVE  Jumps(t, "purge_pod", s, ret)
  BY <1>2, JumpRegs DEF Jumps
<1>3. ASSUME NEW label \in Labels, Goto(t, label)
      PROVE  Jumps(t, label, th[t].sess, th[t].then)
  BY <1>1, <1>3 DEF Goto
<1> QED  BY <1>1, <1>2, <1>3

\* What Ground says about a goroutine at work, which has the lock of its id.
LEMMA GroundFacts ==
    ASSUME Ground, NEW t \in Threads, AtWork(t)
    PROVE  /\ Id(t) \in Ids /\ Id(t) = th[t].id /\ Id(t) \notin PoolKeys /\ Id(t) # None
           /\ th[t].op \in {"ensure", "clear"} /\ lock[Id(t)] = t
           /\ th[t].sess \in Session /\ store \in [Ids -> Session] /\ store[Id(t)] \in Session
           /\ Suits(store[Id(t)], Id(t), th[t].pc, th[t].sess, th[t].then)
           /\ \A u \in Threads : u # t /\ AtWork(u) => Id(u) # Id(t)
<1>1. /\ Id(t) \in Ids /\ Id(t) = th[t].id /\ th[t].sess \in Session
      /\ store \in [Ids -> Session]
  BY ThreadFacts DEF AtWork, Ground, Id, IInv, TypeOK
<1>2. Id(t) \notin PoolKeys /\ Id(t) # None
  BY <1>1, KeysAssumption, NoneIsNoKey
<1>3. \A u \in Threads : AtWork(u) => th[u].op \in {"ensure", "clear"} /\ lock[Id(u)] = u
  BY DEF Ground, Dealt, MCPRequest, AtWork, Exclusive, HoldsLock
<1>4. Suits(store[Id(t)], Id(t), th[t].pc, th[t].sess, th[t].then)
  BY DEF Ground, Dealt, Id
<1> QED  BY <1>1, <1>2, <1>3, <1>4

\* A step that takes t to a label its registers suit, and writes at most the
\* record of its id, disturbs nobody else.
LEMMA DealtJump ==
    ASSUME Ground, NEW t \in Threads, AtWork(t), \A u \in Threads : u # t => th'[u] = th[u],
           NEW label \in ServingAt \ {"idle", "lock"}, NEW s, NEW ret, Jumps(t, label, s, ret),
           label # "done" => Suits(store'[Id(t)], Id(t), label, s, ret),
           \A j \in Ids : j # Id(t) => store'[j] = store[j],
           store'[Id(t)].state # "stopped", store'[Id(t)].pod = store'[Id(t)].pvc
    PROVE  Dealt'
<1>0. Id(t) = th[t].id /\ th[t].op \in {"ensure", "clear"}
  BY GroundFacts
<1>1. \A u \in Threads : MCPRequest(th'[u])
  <2>1. MCPRequest(th'[t])
    BY <1>0 DEF Jumps, MCPRequest, FinishedThread, IdleThread
  <2> QED  BY <2>1 DEF Ground, Dealt
<1>2. Suits(store'[th'[t].id], th'[t].id, th'[t].pc, th'[t].sess, th'[t].then)
  <2>1. CASE label = "done"
    <3>1. th'[t] = FinishedThread
      BY <2>1 DEF Jumps
    <3>2. /\ FinishedThread.pc = "done" /\ FinishedThread.sess = AbsentSession
          /\ AbsentSession.pod = AbsentSession.pvc
      BY DEF FinishedThread, IdleThread, AbsentSession
    <3> QED  BY <3>1, <3>2 DEF Suits, ServingAt, PurgeAt, Building, Unsettled
  <2>2. CASE label # "done"
    BY <1>0, <2>2 DEF Jumps
  <2> QED  BY <2>1, <2>2
<1>3. ASSUME NEW u \in Threads, u # t
      PROVE  Suits(store'[th'[u].id], th'[u].id, th'[u].pc, th'[u].sess, th'[u].then)
  <2>1. Suits(store[th[u].id], th[u].id, th[u].pc, th[u].sess, th[u].then) /\ th'[u] = th[u]
    BY <1>3 DEF Ground, Dealt
  <2>2. CASE Unsettled(th[u].pc, th[u].then)
    <3>1. AtWork(u)
      BY <2>2 DEF Unsettled, AtWork, PurgeAt
    <3>2. th[u].id \in Ids /\ th[u].id # Id(t)
      BY <1>3, <3>1, GroundFacts
    <3> QED  BY <2>1, <3>2
  <2>3. CASE ~ Unsettled(th[u].pc, th[u].then)
    BY <2>1, <2>3 DEF Suits
  <2> QED  BY <2>2, <2>3
<1>4. OwnWorkspaces'
  BY DEF Ground, Dealt, OwnWorkspaces
<1>5. \A u \in Threads : Suits(store[th[u].id], th[u].id, th[u].pc, th[u].sess, th[u].then)'
  BY <1>2, <1>3
<1>6. \A u \in Threads : MCPRequest(th[u])'
  BY <1>1 DEF MCPRequest
<1> QED  BY <1>4, <1>5, <1>6 DEF Dealt

\* A step that leaves the records and the pool alone, and takes no sandbox from
\* the pool or to a record.
LEMMA QuietJump ==
    ASSUME Ground, NEW t \in Threads, AtWork(t), \A u \in Threads : u # t => th'[u] = th[u],
           UNCHANGED store, NEW label \in ServingAt \ {"idle", "lock"},
           NEW s, NEW ret, Jumps(t, label, s, ret),
           label # "done" => Suits(store[Id(t)], Id(t), label, s, ret),
           th[t].pc # "persist", label = "persist" => s.pod \notin PoolKeys
    PROVE  Dealt' /\ Drawn' = Drawn
<1>1. Id(t) \in Ids /\ store[Id(t)].state # "stopped" /\ store[Id(t)].pod = store[Id(t)].pvc
  BY GroundFacts DEF Ground, Dealt, OwnWorkspaces
<1>2. Dealt'
  BY <1>1, DealtJump
<1>3. th'[t].pc = "persist" => th'[t].sess.pod \notin PoolKeys
  BY DEF Jumps, FinishedThread, IdleThread
<1>4. Drawn' = Drawn
  BY <1>3 DEF Drawn, At
<1> QED  BY <1>2, <1>4

\* A plain jump keeps the clone, so it suits a label that asks no more of it.
LEMMA QuietGoto ==
    ASSUME Ground, NEW t \in Threads, AtWork(t), \A u \in Threads : u # t => th'[u] = th[u],
           UNCHANGED store, NEW label \in ServingAt \ {"idle", "lock"}, Goto(t, label),
           th[t].pc # "persist",
           label \in Building \cup {"persist"} => th[t].pc \in Building,
           label \in PurgeAt => th[t].pc \in PurgeAt,
           label \in {"wait_ready", "mark_running", "mark_dead"} => Unsettled(th[t].pc, th[t].then)
    PROVE  Dealt' /\ Drawn' = Drawn
<1>1. label \in Labels
  BY DEF ServingAt, PurgeAt, Labels
<1>2. Jumps(t, label, th[t].sess, th[t].then)
  BY <1>1, JumpsTo DEF Ground
<1>3. /\ Suits(store[Id(t)], Id(t), th[t].pc, th[t].sess, th[t].then)
      /\ Id(t) \notin PoolKeys
  BY GroundFacts
<1>4. Suits(store[Id(t)], Id(t), label, th[t].sess, th[t].then)
  BY <1>3 DEF Suits, Unsettled, PurgeAt, Building
<1>5. label = "persist" => th[t].sess.pod \notin PoolKeys
  BY <1>3 DEF Suits
<1> QED  BY <1>2, <1>4, <1>5, QuietJump

\* EnsureSession and Clear read a record, of which they may make a clone.
LEMMA DealtGets ==
    ASSUME Ground, NEW t \in Threads, EnsureGet(t) \/ ClearGet(t)
    PROVE  Dealt' /\ Drawn' = Drawn
<1>0. /\ UNCHANGED store /\ \A u \in Threads : u # t => th'[u] = th[u]
      /\ th[t].pc \in {"ensure_get", "clear_get"} /\ AtWork(t) /\ IInv
  BY OthersRest DEF EnsureGet, ClearGet, OnlyThread, At, AtWork, Ground, Progress, EnsureStep
<1> DEFINE s == store[Id(t)]
<1>1. s.state # "stopped" /\ s.pod = s.pvc /\ s \in Session
  BY <1>0, GroundFacts DEF Ground, Dealt, OwnWorkspaces
<1>2. \/ Goto(t, "done") \/ Goto(t, "count_running")
      \/ CallRuntime(t, "purge_pod", s, "forget")
  BY <1>0, <1>1 DEF EnsureGet, ClearGet
<1>3. ASSUME NEW label \in {"done", "count_running"}, Goto(t, label)
      PROVE  Dealt' /\ Drawn' = Drawn
  BY <1>0, <1>3, QuietGoto DEF ServingAt, PurgeAt, Building
<1>4. CASE CallRuntime(t, "purge_pod", s, "forget")
  <2>1. Jumps(t, "purge_pod", s, "forget")
    BY <1>0, <1>1, <1>4, JumpsTo DEF Labels
  <2>2. Suits(s, Id(t), "purge_pod", s, "forget")
    BY <1>1 DEF Suits, ServingAt, PurgeAt, Building, Unsettled
  <2>3. "purge_pod" \in ServingAt \ {"idle", "lock"}
    BY DEF ServingAt, PurgeAt
  <2> HIDE DEF s
  <2> QED  BY <1>0, <2>1, <2>2, <2>3, QuietJump DEF s
<1> QED  BY <1>2, <1>3, <1>4

\* The cap.
LEMMA DealtCounts ==
    ASSUME Ground, NEW t \in Threads, CountRunning(t) \/ CountCreating(t)
    PROVE  Dealt' /\ Drawn' = Drawn
<1>0. /\ UNCHANGED store /\ \A u \in Threads : u # t => th'[u] = th[u]
      /\ th[t].pc \in {"count_running", "count_creating"} /\ AtWork(t) /\ IInv
      /\ th \in [Threads -> Thread]
  BY OthersRest DEF CountRunning, CountCreating, OnlyThread, At, AtWork, Ground, Progress,
     CreateStep, IInv, TypeOK
<1>1. CASE Goto(t, "done")
  BY <1>0, <1>1, QuietGoto DEF ServingAt, PurgeAt, Building
<1>2. ASSUME NEW label \in {"count_creating", "provision"}, NEW n,
             th' = [th EXCEPT ![t].pc = label, ![t].seen = n]
      PROVE  Dealt' /\ Drawn' = Drawn
  <2>1. th'[t] = [th[t] EXCEPT !.pc = label, !.seen = n]
    BY <1>0, <1>2
  <2>2. Jumps(t, label, th[t].sess, th[t].then)
    BY <1>0, <2>1 DEF Jumps, Thread
  <2>3. Suits(store[Id(t)], Id(t), th[t].pc, th[t].sess, th[t].then)
    BY <1>0, GroundFacts
  <2>4. Suits(store[Id(t)], Id(t), label, th[t].sess, th[t].then)
    BY <2>3 DEF Suits, ServingAt, PurgeAt, Building, Unsettled
  <2>5. label \in ServingAt \ {"idle", "lock"}
    BY DEF ServingAt
  <2> QED  BY <1>0, <2>2, <2>4, <2>5, QuietJump
<1>3. \/ Goto(t, "done")
      \/ \E label \in {"count_creating", "provision"} : \E n :
           th' = [th EXCEPT ![t].pc = label, ![t].seen = n]
  BY DEF CountRunning, CountCreating
<1> QED  BY <1>1, <1>2, <1>3

\* The requests of Runtime.Create and of its rollback.
LEMMA DealtCold ==
    ASSUME Ground, NEW t \in Threads,
           \/ ClaimWait(t) \/ ClaimCreate(t) \/ SecretCreate(t) \/ PodCreate(t)
           \/ RollbackSecret(t) \/ RollbackClaim(t)
    PROVE  Dealt' /\ Drawn' = Drawn
<1>0. /\ UNCHANGED store /\ \A u \in Threads : u # t => th'[u] = th[u]
      /\ AtWork(t) /\ IInv /\ th[t].pc # "persist"
  BY OthersRest DEF ClaimWait, ClaimCreate, SecretCreate, PodCreate, RollbackSecret,
     RollbackClaim, OnlyThread, StoreUnchanged, At, AtWork, Ground, Progress, CreateStep
<1>1. CASE th[t].pc \in Building
  <2>1. \E label \in {"claim_create", "secret_create", "pod_create", "persist",
                      "rollback_secret", "done"} : Goto(t, label)
    BY <1>1 DEF ClaimWait, ClaimCreate, SecretCreate, PodCreate, RollbackSecret, RollbackClaim,
       Request, Refused, At, Building
  <2> QED  BY <1>0, <1>1, <2>1, QuietGoto DEF ServingAt, PurgeAt
<1>2. CASE RollbackSecret(t) \/ RollbackClaim(t)
  <2>1. \E label \in {"rollback_claim", "done"} : Goto(t, label)
    BY <1>2 DEF RollbackSecret, RollbackClaim, Request
  <2> QED  BY <1>0, <2>1, QuietGoto DEF ServingAt, PurgeAt, Building
<1> QED  BY <1>1, <1>2 DEF ClaimWait, ClaimCreate, SecretCreate, PodCreate, At, Building

\* Runtime.Purge.
LEMMA DealtPurges ==
    ASSUME Ground, NEW t \in Threads, PurgeStep(t)
    PROVE  Dealt' /\ Drawn' = Drawn
<1>0. /\ UNCHANGED store /\ \A u \in Threads : u # t => th'[u] = th[u]
      /\ AtWork(t) /\ IInv /\ th[t].pc \in PurgeAt
  BY OthersRest DEF PurgeStep, PurgePod, PurgeSecret, PurgeClaim, StoreUnchanged, At, AtWork,
     PurgeAt, Ground, Progress
<1>1. th[t].then \in {"forget", "mark_dead", "done"}
  BY <1>0, GroundFacts DEF Suits
<1>2. \E label \in {"purge_secret", "purge_claim", th[t].then} : Goto(t, label)
  BY <1>1 DEF PurgeStep, PurgePod, PurgeSecret, PurgeClaim, Request, Refused, AfterFailedPurge
<1>3. th[t].then = "mark_dead" => Unsettled(th[t].pc, th[t].then)
  BY <1>0 DEF Unsettled
<1>4. ASSUME NEW label \in {"purge_secret", "purge_claim", "forget", "mark_dead", "done"},
             Goto(t, label), label = "mark_dead" => th[t].then = "mark_dead"
      PROVE  Dealt' /\ Drawn' = Drawn
  BY <1>0, <1>3, <1>4, QuietGoto DEF ServingAt, PurgeAt, Building
<1> QED  BY <1>1, <1>2, <1>4

\* The wait for the pod.
LEMMA DealtWaits ==
    ASSUME Ground, NEW t \in Threads, WaitReady(t)
    PROVE  Dealt' /\ Drawn' = Drawn
<1>0. /\ UNCHANGED store /\ \A u \in Threads : u # t => th'[u] = th[u]
      /\ AtWork(t) /\ IInv /\ th[t].pc = "wait_ready"
  BY OthersRest DEF WaitReady, OnlyThread, At, AtWork, Ground, Progress, CreateStep
<1> DEFINE s == th[t].sess
<1>1. Suits(store[Id(t)], Id(t), "wait_ready", s, th[t].then) /\ s \in Session
  BY <1>0, GroundFacts
<1>2. CASE Goto(t, "mark_running")
  BY <1>0, <1>2, QuietGoto DEF ServingAt, PurgeAt, Building, Unsettled
<1>3. CASE CallRuntime(t, "purge_pod", s, "mark_dead")
  <2>1. Jumps(t, "purge_pod", s, "mark_dead")
    BY <1>0, <1>1, <1>3, JumpsTo DEF Labels
  <2>2. Suits(store[Id(t)], Id(t), "purge_pod", s, "mark_dead")
    BY <1>1 DEF Suits, ServingAt, PurgeAt, Building, Unsettled
  <2>3. "purge_pod" \in ServingAt \ {"idle", "lock"}
    BY DEF ServingAt, PurgeAt
  <2> HIDE DEF s
  <2> QED  BY <1>0, <2>1, <2>2, <2>3, QuietJump
<1> QED  BY <1>2, <1>3 DEF WaitReady

\* The choice between a warm and a cold sandbox draws the warm one.
LEMMA DealtProvision ==
    ASSUME Ground, NEW t \in Threads, Provision(t)
    PROVE  Dealt' /\ [Contract!Next]_<<store, idle, Drawn>>
<1>0. /\ UNCHANGED store /\ \A u \in Threads : u # t => th'[u] = th[u]
      /\ AtWork(t) /\ IInv /\ th[t].pc = "provision"
  BY OthersRest DEF Provision, At, AtWork, Ground, Progress, CreateStep
<1>1. Id(t) \in Ids /\ Id(t) \notin PoolKeys /\ ResolvedImage(t) \in Images
  BY <1>0, GroundFacts, ThreadFacts, ConfigAssumption DEF ResolvedImage, Thread
<1>2. CASE Goto(t, "done") /\ UNCHANGED idle
  BY <1>0, <1>2, QuietGoto DEF ServingAt, PurgeAt, Building
<1>3. CASE GotoWith(t, "claim_wait", NewSession(t, Id(t))) /\ UNCHANGED idle
  <2> DEFINE n == NewSession(t, Id(t))
  <2>1. n \in Session /\ n.pod = Id(t) /\ n.pvc = Id(t) /\ n.state = "creating"
    BY <1>1, KeysAssumption, NoneIsNoKey DEF NewSession, Session
  <2>2. Suits(store[Id(t)], Id(t), "claim_wait", n, th[t].then)
    BY <2>1 DEF Suits, ServingAt, PurgeAt, Building, Unsettled
  <2>3. "claim_wait" \in ServingAt \ {"idle", "lock"} /\ "claim_wait" \in Labels
    BY DEF ServingAt, Labels
  <2> HIDE DEF n
  <2>4. Jumps(t, "claim_wait", n, th[t].then)
    BY <1>0, <1>3, <2>1, <2>3, JumpsTo DEF n
  <2>5. Dealt' /\ Drawn' = Drawn
    BY <1>0, <2>2, <2>3, <2>4, QuietJump
  <2> QED  BY <1>0, <1>3, <2>5
<1>4. ASSUME NEW k \in PoolKeys, Acquire(t, k)
      PROVE  Dealt' /\ Contract!Draw(k)
  <2> DEFINE n == NewSession(t, k)
  <2>1. /\ n \in Session /\ n.pod = k /\ n.pvc = k /\ n.state = "creating"
        /\ n.image = DefaultImage
    BY <1>1, <1>4, KeysAssumption, NoneIsNoKey DEF NewSession, Session, Acquire
  <2>2. Suits(store[Id(t)], Id(t), "persist", n, th[t].then)
    BY <2>1 DEF Suits, ServingAt, PurgeAt, Building, Unsettled
  <2>3. "persist" \in ServingAt \ {"idle", "lock"} /\ "persist" \in Labels
    BY DEF ServingAt, Labels
  <2> HIDE DEF n
  <2>4. Jumps(t, "persist", n, th[t].then)
    BY <1>0, <1>4, <2>1, <2>3, JumpsTo DEF n, Acquire
  <2>5. store[Id(t)].state # "stopped" /\ store[Id(t)].pod = store[Id(t)].pvc
    BY <1>1 DEF Ground, Dealt, OwnWorkspaces
  <2>6. Dealt'
    BY <1>0, <2>2, <2>3, <2>4, <2>5, DealtJump
  <2>7. th'[t].pc = "persist" /\ th'[t].sess.pod = k
    BY <2>1, <2>4 DEF Jumps
  <2>8. Drawn' = Drawn \cup {k}
    BY <1>0, <2>7 DEF Drawn, At
  <2> QED  BY <1>0, <1>4, <2>6, <2>8 DEF Acquire, Contract!Draw
<1>5. \/ Goto(t, "done") /\ UNCHANGED idle
      \/ GotoWith(t, "claim_wait", NewSession(t, Id(t))) /\ UNCHANGED idle
      \/ \E k \in PoolKeys : Acquire(t, k)
  BY DEF Provision
<1> QED  BY <1>2, <1>3, <1>4, <1>5 DEF Contract!Next

\* A sandbox at "persist" is that of its session alone.
LEMMA PersistIsApart ==
    ASSUME Ground, NEW t \in Threads, th[t].pc = "persist"
    PROVE  /\ th[t].sess.pod \in {Id(t)} \cup PoolKeys
           /\ th[t].sess.pod \in PoolKeys => th[t].sess.pod \in Drawn
           /\ \A j \in Ids : j # Id(t) => store[j].pod # th[t].sess.pod
           /\ \A u \in Threads : u # t /\ th[u].pc = "persist" => th[u].sess.pod # th[t].sess.pod
           /\ Drawn \ {th[t].sess.pod} = {th[u].sess.pod : u \in {v \in Threads : v # t /\ At(v, "persist")}} \cap PoolKeys
<1> DEFINE k == th[t].sess.pod
<1>0. AtWork(t) /\ k # None /\ k \in Refs(th[t].sess)
  BY ThreadFacts DEF AtWork, Ground, Fits, NamedAt, Refs
<1>1. k \in {Id(t)} \cup PoolKeys
  BY <1>0 DEF Ground, Owned
<1>2. k \in PoolKeys => k \in Drawn
  BY DEF Drawn, At
<1>3. \A j \in Ids : j # Id(t) => store[j].pod # k
  BY <1>0 DEF Ground, Owned, Refs
<1>4. ASSUME NEW u \in Threads, u # t, th[u].pc = "persist"
      PROVE  th[u].sess.pod # k
  <2>1. Id(u) # Id(t)
    BY <1>0, <1>4, GroundFacts DEF AtWork
  <2>2. Refs(th[t].sess) \cap Refs(th[u].sess) = {}
    BY <2>1 DEF Ground, Owned
  <2> QED  BY <1>0, <2>2 DEF Refs
<1>5. Drawn \ {k} = {th[u].sess.pod : u \in {v \in Threads : v # t /\ At(v, "persist")}} \cap PoolKeys
  BY <1>4 DEF Drawn, At
<1> QED  BY <1>1, <1>2, <1>3, <1>4, <1>5

\* The insertion of the record grants the sandbox; a refusal drops it.
LEMMA DealtPersist ==
    ASSUME Ground, NEW t \in Threads, Persist(t)
    PROVE  Dealt' /\ [Contract!Next]_<<store, idle, Drawn>>
<1>0. /\ UNCHANGED idle /\ \A u \in Threads : u # t => th'[u] = th[u]
      /\ AtWork(t) /\ IInv /\ th[t].pc = "persist"
  BY OthersRest DEF Persist, At, AtWork, Ground, Progress, CreateStep
<1> DEFINE i == Id(t)
           s == th[t].sess
           k == s.pod
<1>1. /\ i \in Ids /\ i \notin PoolKeys /\ s \in Session /\ store \in [Ids -> Session]
      /\ k = s.pvc /\ s.state = "creating" /\ (k \in PoolKeys => s.image = DefaultImage)
  BY <1>0, GroundFacts DEF Suits
<1>2. k # None /\ s.image \in Images
      /\ s = [state |-> "creating", image |-> s.image, pod |-> k, pvc |-> k]
  <2>1. k # None
    BY <1>0, ThreadFacts DEF Fits, NamedAt
  <2> QED  BY <1>1, <2>1, NamedRecord
<1>3. /\ k \in {i} \cup PoolKeys /\ (k \in PoolKeys => k \in Drawn)
      /\ \A j \in Ids : j # i => store[j].pod # k
      /\ Drawn \ {k} = {th[u].sess.pod : u \in {v \in Threads : v # t /\ At(v, "persist")}} \cap PoolKeys
  BY <1>0, PersistIsApart
<1>4. store[i].state # "stopped" /\ store[i].pod = store[i].pvc
  BY <1>1 DEF Ground, Dealt, OwnWorkspaces
<1>5. th'[t].pc # "persist" => Drawn' = Drawn \ {k}
  BY <1>0, <1>3 DEF Drawn, At
<1>6. CASE ~ Tracked(i) /\ store' = [store EXCEPT ![i] = s] /\ Goto(t, "wait_ready")
  <2>1. Jumps(t, "wait_ready", s, th[t].then)
    BY <1>0, <1>6, JumpsTo DEF Labels
  <2>2. store'[i] = s /\ \A j \in Ids : j # i => store'[j] = store[j]
    BY <1>1, <1>6
  <2>3. Suits(store'[i], i, "wait_ready", s, th[t].then)
    BY <1>1, <2>2 DEF Suits, ServingAt, PurgeAt, Building, Unsettled, SameSandbox
  <2>4. "wait_ready" \in ServingAt \ {"idle", "lock"}
    BY DEF ServingAt
  <2>5. th'[t].pc # "persist"
    BY <2>1 DEF Jumps
  <2>6. store[i] = AbsentSession /\ AbsentSession.pod = None
    BY <1>1, <1>6 DEF Tracked, Session, AbsentSession
  <2>7. Contract!NoSession = AbsentSession
    BY DEF Contract!NoSession, AbsentSession
  <2>8. k \notin Contract!Granted
    BY <1>2, <1>3, <2>6 DEF Contract!Granted
  <2> HIDE DEF s, i
  <2>9. Dealt'
    BY <1>0, <1>1, <2>1, <2>2, <2>3, <2>4, DealtJump DEF i
  <2>10. store' = [store EXCEPT ![i] = [state |-> "creating", image |-> s.image, pod |-> k, pvc |-> k]]
    BY <1>2, <1>6
  <2>11. Contract!Grant(i, k, s.image)
    BY <1>0, <1>1, <1>3, <1>5, <2>5, <2>6, <2>7, <2>8, <2>10 DEF Contract!Grant
  <2> QED  BY <1>1, <1>2, <1>3, <2>9, <2>11 DEF Contract!Next
<1>7. CASE CallRuntime(t, "purge_pod", s, "done") /\ UNCHANGED store
  <2>1. Jumps(t, "purge_pod", s, "done")
    BY <1>0, <1>1, <1>7, JumpsTo DEF Labels
  <2>2. Suits(store'[i], i, "purge_pod", s, "done")
    BY <1>1 DEF Suits, ServingAt, PurgeAt, Building, Unsettled
  <2>3. "purge_pod" \in ServingAt \ {"idle", "lock"}
    BY DEF ServingAt, PurgeAt
  <2>4. th'[t].pc # "persist"
    BY <2>1 DEF Jumps
  <2> HIDE DEF s, i
  <2>5. Dealt'
    BY <1>0, <1>4, <1>7, <2>1, <2>2, <2>3, DealtJump DEF i
  <2>6. CASE k \in PoolKeys
    <3>1. Contract!Drop(k)
      BY <1>0, <1>3, <1>5, <1>7, <2>4, <2>6 DEF Contract!Drop
    <3> QED  BY <2>5, <2>6, <3>1 DEF Contract!Next
  <2>7. CASE k \notin PoolKeys
    <3>1. Drawn' = Drawn
      BY <1>5, <2>4, <2>7 DEF Drawn
    <3> QED  BY <1>0, <1>7, <2>5, <3>1
  <2> QED  BY <2>6, <2>7
<1> QED  BY <1>6, <1>7 DEF Persist

\* purgeAndForget dismisses the session.
LEMMA DealtForget ==
    ASSUME Ground, NEW t \in Threads, Forget(t)
    PROVE  Dealt' /\ [Contract!Next]_<<store, idle, Drawn>>
<1>0. /\ UNCHANGED idle /\ \A u \in Threads : u # t => th'[u] = th[u]
      /\ AtWork(t) /\ IInv /\ th[t].pc = "forget"
  BY OthersRest DEF Forget, At, AtWork, Ground, Progress, EnsureStep
<1> DEFINE i == Id(t)
<1>1. i \in Ids /\ store \in [Ids -> Session]
      /\ store[i].state # "stopped" /\ store[i].pod = store[i].pvc
  BY <1>0, GroundFacts DEF Ground, Dealt, OwnWorkspaces
<1>2. /\ AbsentSession \in Session /\ AbsentSession.pod = AbsentSession.pvc
      /\ AbsentSession.state = "absent"
  BY DEF Session, AbsentSession
<1>3. PICK label \in {"count_running", "done"} : GotoWith(t, label, AbsentSession)
  BY DEF Forget
<1>4. Jumps(t, label, AbsentSession, th[t].then)
  BY <1>0, <1>2, <1>3, JumpsTo DEF Labels
<1>5. store' = [store EXCEPT ![i] = AbsentSession] \/ store' = store
  BY DEF Forget
<1>6. /\ \A j \in Ids : j # i => store'[j] = store[j]
      /\ store'[i].state # "stopped" /\ store'[i].pod = store'[i].pvc
  BY <1>1, <1>2, <1>5
<1>7. label # "done" => Suits(store'[i], i, label, AbsentSession, th[t].then)
  BY <1>2 DEF Suits, ServingAt, PurgeAt, Building, Unsettled
<1>8. label \in ServingAt \ {"idle", "lock"}
  BY DEF ServingAt
<1>9. Drawn' = Drawn
  <2>1. th'[t].pc # "persist"
    BY <1>4 DEF Jumps, FinishedThread, IdleThread
  <2> QED  BY <1>0, <2>1 DEF Drawn, At
<1>10. Dealt'
  <2> HIDE DEF i
  <2> QED  BY <1>0, <1>4, <1>6, <1>7, <1>8, DealtJump DEF i
<1>11. Contract!NoSession = AbsentSession
  BY DEF Contract!NoSession, AbsentSession
<1>12. CASE store' = store
  BY <1>0, <1>9, <1>10, <1>12
<1>13. CASE store' # store
  <2>1. Contract!Dismiss(i)
    BY <1>0, <1>1, <1>5, <1>9, <1>11, <1>13 DEF Contract!Dismiss
  <2> QED  BY <1>1, <1>10, <2>1 DEF Contract!Next
<1> QED  BY <1>12, <1>13

\* Two records of one sandbox are the same once their states are.
LEMMA SameOutcome ==
    ASSUME NEW rec \in Session, NEW s \in Session, SameSandbox(rec, s),
           rec.state = "creating", s.pod # None, NEW outcome \in {"running", "dead"}
    PROVE  [s EXCEPT !.state = outcome] = [rec EXCEPT !.state = outcome]
<1>1. rec.pod # None
  BY DEF SameSandbox
<1>2. s = [state |-> s.state, image |-> s.image, pod |-> s.pod, pvc |-> s.pvc]
  BY NamedRecord
<1>3. rec = [state |-> rec.state, image |-> rec.image, pod |-> rec.pod, pvc |-> rec.pvc]
  BY <1>1, NamedRecord
<1>4. [s EXCEPT !.state = outcome]
        = [state |-> outcome, image |-> s.image, pod |-> s.pod, pvc |-> s.pvc]
  BY <1>2
<1>5. [rec EXCEPT !.state = outcome]
        = [state |-> outcome, image |-> rec.image, pod |-> rec.pod, pvc |-> rec.pvc]
  BY <1>3
<1> QED  BY <1>4, <1>5 DEF SameSandbox

\* MarkRunning and the end of cleanupFailedCreate settle the session, once.
LEMMA DealtSettles ==
    ASSUME Ground, NEW t \in Threads, MarkRunning(t) \/ MarkDead(t)
    PROVE  Dealt' /\ [Contract!Next]_<<store, idle, Drawn>>
<1>0. /\ UNCHANGED idle /\ \A u \in Threads : u # t => th'[u] = th[u]
      /\ AtWork(t) /\ IInv /\ th[t].pc \in {"mark_running", "mark_dead"}
  BY OthersRest DEF MarkRunning, MarkDead, UpdateAndFinish, At, AtWork, Ground, Progress, CreateStep
<1> DEFINE i == Id(t)
           s == th[t].sess
<1>1. /\ i \in Ids /\ s \in Session /\ store \in [Ids -> Session] /\ s.pod # None
      /\ Suits(store[i], i, th[t].pc, s, th[t].then)
  BY <1>0, GroundFacts, ThreadFacts DEF Fits, NamedAt
<1>2. /\ store[i] \in Session /\ store[i].state = "creating" /\ SameSandbox(store[i], s)
      /\ s.pod = s.pvc
  BY <1>0, <1>1 DEF Suits, Unsettled
<1>3. ASSUME NEW outcome \in {"running", "dead"}, NEW r \in Session, Jumps(t, "done", r, th[t].then),
             store' = [store EXCEPT ![i] = [s EXCEPT !.state = outcome]]
      PROVE  Dealt' /\ Contract!Next
  <2>1. [s EXCEPT !.state = outcome] = [store[i] EXCEPT !.state = outcome]
    <3> DEFINE rec == store[i]
    <3>1. /\ s \in Session /\ s.pod # None
          /\ rec \in Session /\ rec.state = "creating" /\ SameSandbox(rec, s)
      BY <1>1, <1>2
    <3> HIDE DEF rec, s
    <3>2. [s EXCEPT !.state = outcome] = [rec EXCEPT !.state = outcome]
      BY <3>1, SameOutcome
    <3> QED  BY <3>2 DEF rec
  <2>2. store' = [store EXCEPT ![i] = [store[i] EXCEPT !.state = outcome]]
    BY <1>3, <2>1
  <2>3. store' = [store EXCEPT ![i].state = outcome]
    BY <1>1, <2>2
  <2>4. store'[i] = [store[i] EXCEPT !.state = outcome]
    BY <1>1, <2>2
  <2>5. store'[i].state # "stopped" /\ store'[i].pod = store'[i].pvc
    BY <1>2, <2>4 DEF SameSandbox, Session, AbsentSession
  <2>6. \A j \in Ids : j # i => store'[j] = store[j]
    BY <1>3
  <2>7. "done" \in ServingAt \ {"idle", "lock"}
    BY DEF ServingAt
  <2>8. Drawn' = Drawn
    <3>1. th'[t].pc # "persist"
      BY <1>3 DEF Jumps, FinishedThread, IdleThread
    <3> QED  BY <1>0, <3>1 DEF Drawn, At
  <2>9. Contract!Settle(i, outcome)
    BY <1>0, <1>2, <2>3, <2>8 DEF Contract!Settle
  <2> HIDE DEF i, s
  <2>10. Dealt'
    BY <1>0, <1>3, <2>5, <2>6, <2>7, DealtJump DEF i
  <2> QED  BY <1>1, <2>9, <2>10 DEF Contract!Next
<1>4. CASE UNCHANGED store /\ Goto(t, "done")
  BY <1>0, <1>4, QuietGoto DEF ServingAt, PurgeAt, Building
<1>5. ASSUME NEW r \in Session, r.pod = s.pod, r.pvc = s.pvc, r.image = s.image,
             UNCHANGED store, CallRuntime(t, "purge_pod", r, "mark_dead")
      PROVE  Dealt' /\ Drawn' = Drawn
  <2>1. Jumps(t, "purge_pod", r, "mark_dead")
    BY <1>0, <1>5, JumpsTo DEF Labels
  <2>2. Suits(store[i], i, "purge_pod", r, "mark_dead")
    BY <1>2, <1>5 DEF Suits, ServingAt, PurgeAt, Building, Unsettled, SameSandbox
  <2>3. "purge_pod" \in ServingAt \ {"idle", "lock"} /\ th[t].pc # "persist"
    BY <1>0 DEF ServingAt, PurgeAt
  <2> HIDE DEF i, s
  <2> QED  BY <1>0, <1>5, <2>1, <2>2, <2>3, QuietJump DEF i
<1>6. CASE MarkRunning(t)
  <2> DEFINE r == [s EXCEPT !.state = "running"]
  <2>1. r \in Session /\ r.pod = s.pod /\ r.pvc = s.pvc /\ r.image = s.image
    BY <1>1, SetState DEF Session
  <2>2. CASE store' = [store EXCEPT ![i] = r] /\ GotoWith(t, "done", r)
    <3>1. Jumps(t, "done", r, th[t].then)
      BY <1>0, <2>1, <2>2, JumpsTo DEF Labels
    <3> QED  BY <1>3, <2>1, <2>2, <3>1
  <2>3. CASE UNCHANGED store /\ CallRuntime(t, "purge_pod", r, "mark_dead")
    <3> HIDE DEF r
    <3>1. Dealt' /\ Drawn' = Drawn
      BY <1>5, <2>1, <2>3
    <3> QED  BY <1>0, <2>3, <3>1
  <2> QED  BY <1>6, <2>2, <2>3 DEF MarkRunning
<1>7. CASE MarkDead(t)
  <2>1. CASE store' = [store EXCEPT ![i] = [s EXCEPT !.state = "dead"]] /\ Goto(t, "done")
    <3>1. Jumps(t, "done", s, th[t].then)
      BY <1>0, <2>1, JumpsTo DEF Labels
    <3> QED  BY <1>1, <1>3, <2>1, <3>1
  <2>2. CASE UNCHANGED store /\ Goto(t, "done")
    BY <1>0, <1>4, <2>2
  <2> QED  BY <1>7, <2>1, <2>2 DEF MarkDead, UpdateAndFinish
<1> QED  BY <1>6, <1>7, <1>0 DEF MarkRunning

\* Requests that come, go, are cancelled or take their lock.
LEMMA DealtOutside ==
    ASSUME OverMCP, Ground, NEW t \in Threads,
           \/ \E op \in Requests, i \in Ids, want \in Wants : Arrive(t, op, i, want)
           \/ Return(t) \/ LockSession(t) \/ Cancel(t)
    PROVE  Dealt' /\ UNCHANGED <<store, idle, Drawn>>
<1>0. th \in [Threads -> Thread] /\ MCPRequest(th[t])
      /\ Suits(store[th[t].id], th[t].id, th[t].pc, th[t].sess, th[t].then)
  BY DEF Ground, Dealt, IInv, TypeOK
<1>1. ASSUME NEW r, th' = [th EXCEPT ![t] = r], MCPRequest(r), UNCHANGED <<store, idle>>,
             Suits(store[r.id], r.id, r.pc, r.sess, r.then),
             {th[t].pc, r.pc} \cap {"persist"} = {} \/ (r.pc = th[t].pc /\ r.sess = th[t].sess)
      PROVE  Dealt' /\ UNCHANGED <<store, idle, Drawn>>
  <2>1. th'[t] = r /\ \A u \in Threads : u # t => th'[u] = th[u]
    BY <1>0, <1>1
  <2>2. \A u \in Threads : MCPRequest(th'[u])
    BY <1>1, <2>1 DEF Ground, Dealt
  <2>3. \A u \in Threads : Suits(store[th'[u].id], th'[u].id, th'[u].pc, th'[u].sess, th'[u].then)
    BY <1>1, <2>1 DEF Ground, Dealt
  <2>4. \A u \in Threads : /\ MCPRequest(th[u])'
                           /\ Suits(store[th[u].id], th[u].id, th[u].pc, th[u].sess, th[u].then)'
    BY <1>1, <2>2, <2>3 DEF MCPRequest
  <2>5. OwnWorkspaces'
    BY <1>1 DEF Ground, Dealt, OwnWorkspaces
  <2>6. \A u \in Threads : /\ th'[u].pc = "persist" <=> th[u].pc = "persist"
                           /\ th[u].pc = "persist" => th'[u].sess = th[u].sess
    BY <1>1, <2>1
  <2>7. Drawn' = Drawn
    BY <2>6 DEF Drawn, At
  <2> QED  BY <1>1, <2>4, <2>5, <2>7 DEF Dealt
<1>2. ASSUME NEW op \in Requests, NEW i \in Ids, NEW want \in Wants, Arrive(t, op, i, want)
      PROVE  Dealt' /\ UNCHANGED <<store, idle, Drawn>>
  <2> DEFINE r == [IdleThread EXCEPT !.op = op, !.id = i, !.want = want, !.pc = Entry(op)]
  <2>1. th' = [th EXCEPT ![t] = r] /\ UNCHANGED <<store, idle>> /\ th[t].pc = "idle"
    BY <1>2 DEF Arrive, OnlyThread, At
  <2>2. op \in {"ensure", "clear"}
    BY DEF OverMCP
  <2>3. /\ r.op = op /\ r.pc = "lock" /\ r.sess = AbsentSession
        /\ AbsentSession.pod = AbsentSession.pvc
    BY <2>2 DEF IdleThread, Entry, AbsentSession
  <2>4. MCPRequest(r) /\ Suits(store[r.id], r.id, r.pc, r.sess, r.then)
    BY <2>2, <2>3 DEF MCPRequest, Suits, ServingAt, PurgeAt, Building, Unsettled
  <2> HIDE DEF r
  <2> QED  BY <1>1, <2>1, <2>3, <2>4
<1>3. CASE Return(t)
  <2>1. th' = [th EXCEPT ![t] = IdleThread] /\ UNCHANGED <<store, idle>> /\ th[t].pc = "done"
    BY <1>3 DEF Return, At
  <2>2. /\ IdleThread.op = "none" /\ IdleThread.pc = "idle" /\ IdleThread.sess = AbsentSession
        /\ AbsentSession.pod = AbsentSession.pvc
    BY DEF IdleThread, AbsentSession
  <2>3. /\ MCPRequest(IdleThread)
        /\ Suits(store[IdleThread.id], IdleThread.id, IdleThread.pc, IdleThread.sess, IdleThread.then)
    BY <2>2 DEF MCPRequest, Suits, ServingAt, PurgeAt, Building, Unsettled
  <2> QED  BY <1>1, <2>1, <2>2, <2>3
<1>4. CASE LockSession(t)
  <2>1. /\ UNCHANGED <<store, idle>> /\ th[t].pc = "lock"
        /\ \E label \in {"ensure_get", "clear_get"} : Goto(t, label)
    BY <1>4 DEF LockSession, AfterLock, At
  <2>2. PICK label \in {"ensure_get", "clear_get"} : Goto(t, label)
    BY <2>1
  <2> DEFINE r == [th[t] EXCEPT !.pc = label, !.sess = th[t].sess]
  <2>3. th' = [th EXCEPT ![t] = r]
    BY <2>2 DEF Goto, GotoWith
  <2>4. /\ r.op = th[t].op /\ r.pc = label /\ r.sess = th[t].sess /\ r.id = th[t].id
        /\ r.then = th[t].then
    BY <1>0 DEF Thread
  <2>5. MCPRequest(r) /\ Suits(store[r.id], r.id, r.pc, r.sess, r.then)
    BY <1>0, <2>1, <2>4 DEF MCPRequest, Suits, ServingAt, PurgeAt, Building, Unsettled
  <2> HIDE DEF r
  <2> QED  BY <1>1, <2>1, <2>3, <2>4, <2>5
<1>5. CASE Cancel(t)
  <2> DEFINE r == [th[t] EXCEPT !.cancelled = TRUE]
  <2>1. th' = [th EXCEPT ![t] = r] /\ UNCHANGED <<store, idle>>
    BY <1>0, <1>5 DEF Cancel, StoreUnchanged
  <2>2. /\ r.op = th[t].op /\ r.pc = th[t].pc /\ r.sess = th[t].sess /\ r.id = th[t].id
        /\ r.then = th[t].then
    BY <1>0 DEF Thread
  <2>3. MCPRequest(r) /\ Suits(store[r.id], r.id, r.pc, r.sess, r.then)
    BY <1>0, <2>2 DEF MCPRequest
  <2> HIDE DEF r
  <2> QED  BY <1>1, <2>1, <2>2, <2>3
<1> QED  BY <1>2, <1>3, <1>4, <1>5

\* The pool adds a sandbox that nothing refers to, and the cluster moves none.
LEMMA DealtElsewhere ==
    ASSUME Ground, \/ ClusterActs \/ UNCHANGED vars \/ \E k \in PoolKeys : PoolRefills(k)
    PROVE  Dealt' /\ [Contract!Next]_<<store, idle, Drawn>>
<1>1. UNCHANGED <<store, th>>
  BY DEF ClusterActs, vars, PoolRefills
<1>2. Dealt' /\ Drawn' = Drawn
  BY <1>1 DEF Ground, Dealt, MCPRequest, OwnWorkspaces, Drawn, At
<1>3. CASE ClusterActs \/ UNCHANGED vars
  BY <1>1, <1>2, <1>3 DEF ClusterActs, vars
<1>4. ASSUME NEW k \in PoolKeys, PoolRefills(k)
      PROVE  Contract!Refill(k)
  <2>1. /\ k \notin idle /\ idle' = idle \cup {k}
        /\ \A i \in Ids : store[i].pod # k
        /\ \A t \in Threads : th[t].sess.pod # k
    BY <1>4 DEF PoolRefills
  <2>2. k \notin Drawn /\ k \notin Contract!Granted
    BY <2>1 DEF Drawn, Contract!Granted
  <2> QED  BY <1>1, <1>2, <2>1, <2>2 DEF Contract!Refill
<1> QED  BY <1>2, <1>3, <1>4 DEF Contract!Next

\* Every step of an instance that serves only EnsureSession and Clear keeps
\* Dealt, and is a step or a stutter of the contract.
LEMMA DealtNext ==
    ASSUME OverMCP, Ground, [Next]_vars
    PROVE  Dealt' /\ [Contract!Next]_<<store, idle, Drawn>>
<1>1. ASSUME NEW t \in Threads, Progress(t), ~ Return(t)
      PROVE  Dealt' /\ [Contract!Next]_<<store, idle, Drawn>>
  <2>1. th[t].pc \in ServingAt
    BY DEF Ground, Dealt, Suits
  <2>2. ~ StopStep(t) /\ ~ ResumeStep(t) /\ ~ DeleteStep(t)
    BY <2>1 DEF ServingAt, PurgeAt, StopStep, StopGet, StopPod, StopSecret, MarkStopped,
       ResumeStep, ResumeGet, ResumeSecret, ResumePod, MarkCreating, ResumeWait, MarkResumed,
       RestoreStopped, DeleteStep, DeleteGet, MarkDeleted, At
  <2>3. CASE \/ EnsureGet(t) \/ ClearGet(t) \/ CountRunning(t) \/ CountCreating(t)
             \/ ClaimWait(t) \/ ClaimCreate(t) \/ SecretCreate(t) \/ PodCreate(t)
             \/ RollbackSecret(t) \/ RollbackClaim(t) \/ PurgeStep(t) \/ WaitReady(t)
    <3>1. UNCHANGED <<store, idle>>
      BY <2>3 DEF EnsureGet, ClearGet, CountRunning, CountCreating, ClaimWait, ClaimCreate,
         SecretCreate, PodCreate, RollbackSecret, RollbackClaim, PurgeStep, PurgePod,
         PurgeSecret, PurgeClaim, WaitReady, OnlyThread, StoreUnchanged
    <3>2. Dealt' /\ Drawn' = Drawn
      BY <2>3, DealtGets, DealtCounts, DealtCold, DealtPurges, DealtWaits
    <3> QED  BY <3>1, <3>2
  <2>4. CASE Provision(t) \/ Persist(t) \/ Forget(t) \/ MarkRunning(t) \/ MarkDead(t)
    BY <2>4, DealtProvision, DealtPersist, DealtForget, DealtSettles
  <2> QED  BY <1>1, <2>2, <2>3, <2>4 DEF Progress, EnsureStep, CreateStep
<1>2. ASSUME NEW t \in Threads,
             \/ \E op \in Requests, i \in Ids, want \in Wants : Arrive(t, op, i, want)
             \/ Return(t) \/ LockSession(t) \/ Cancel(t)
      PROVE  Dealt' /\ [Contract!Next]_<<store, idle, Drawn>>
  BY <1>2, DealtOutside
<1> QED  BY <1>1, <1>2, DealtElsewhere DEF Next

\* Over MCP the manager implements SessionContract, for any number of ids,
\* goroutines and warm sandboxes, whatever requests fail or are cancelled: a
\* session keeps the sandbox and the image it was granted until it is dismissed,
\* is settled once, and no sandbox is granted twice.
THEOREM MCPImplementsContract ==
    ASSUME OverMCP
    PROVE  Spec => ImplementsContract
<1>1. Init => Ground /\ Contract!Init
  <2>1. SUFFICES ASSUME Init PROVE Dealt /\ Contract!Init
    BY InitOK, ExclusiveInit, OwnInit DEF Ground
  <2>2. /\ IdleThread.op = "none" /\ IdleThread.pc = "idle" /\ IdleThread.sess = AbsentSession
        /\ AbsentSession.pod = AbsentSession.pvc /\ AbsentSession.state = "absent"
    BY DEF IdleThread, AbsentSession
  <2>3. \A t \in Threads : th[t] = IdleThread
    BY <2>1 DEF Init
  <2>4. Dealt
    BY <2>1, <2>2, <2>3 DEF Init, Dealt, MCPRequest, Suits, ServingAt, PurgeAt, Building, Unsettled,
       OwnWorkspaces
  <2>5. Drawn = {}
    BY <2>2, <2>3 DEF Drawn, At
  <2>6. Contract!NoSession = AbsentSession
    BY DEF Contract!NoSession, AbsentSession
  <2> QED  BY <2>1, <2>4, <2>5, <2>6 DEF Init, Contract!Init
<1>2. Ground /\ [Next]_vars => Ground' /\ [Contract!Next]_<<store, idle, Drawn>>
  BY StepOK, ExclusiveStep, OwnNext, DealtNext DEF Ground
<1> QED  BY <1>1, <1>2, PTL DEF Spec, ImplementsContract, Contract!Spec

-----------------------------------------------------------------------------
(* OvershootIsBounded.                                                     *)
(*                                                                         *)
(* A goroutine that may still add a running sandbox is Aiming: it has      *)
(* counted fewer than MaxRunning of them, however long ago.  When it did,  *)
(* there were at most MaxRunning - 1 running and at most all goroutines    *)
(* Aiming; from then on each new running sandbox costs one Aiming.         *)

\* The instances these proofs are about: nothing is stopped, so that Resume,
\* which looks at no cap, has nothing to do.
NothingStops == Requests \cap {"stop", "resume"} = {}

StopsOrResumes ==
    {"stop_get", "stop_pod", "stop_secret", "mark_stopped", "resume_get", "resume_secret",
     "resume_pod", "mark_creating", "resume_wait", "mark_resumed", "restore_stopped"}

\* A goroutine that neither stops nor resumes, and creates what it persists.
Onward(r) ==
    /\ r.pc \notin StopsOrResumes
    /\ r.pc \in Building \cup {"persist"} => r.sess.state = "creating"

Admitted == {"provision", "persist", "wait_ready", "mark_running"} \cup Building

Aims(r) == r.pc \in Admitted \/ (r.pc = "count_creating" /\ r.seen < MaxRunning)

Aiming == {t \in Threads : Aims(th[t])}

Capped ==
    /\ \A t \in Threads : Onward(th[t])
    /\ \A i \in Ids : store[i].state # "stopped"
    /\ Cardinality(InState("running")) + Cardinality(Aiming) < MaxRunning + Cardinality(Threads)

\* The three ways in which a step of t may count: it adds nothing; it begins to
\* aim when fewer than MaxRunning are running; it turns its aim into one more.
LEMMA CapStep ==
    ASSUME IInv, Capped, IsFiniteSet(Threads), NEW t \in Threads,
           \A u \in Threads : u # t => th'[u] = th[u], Onward(th'[t]),
           \A i \in Ids : store'[i].state # "stopped",
           \/ InState("running")' \subseteq InState("running") /\ (Aims(th'[t]) => Aims(th[t]))
           \/ UNCHANGED store /\ Cardinality(InState("running")) < MaxRunning
           \/ /\ Aims(th[t]) /\ ~ Aims(th'[t])
              /\ \E i \in Ids : InState("running")' \subseteq InState("running") \cup {i}
    PROVE  Capped'
<1> DEFINE R == InState("running")
           Rn == InState("running")'
           A == Aiming
           An == {u \in Threads : Aims(th'[u])}
<1>1. /\ R \subseteq Ids /\ Rn \subseteq Ids /\ A \subseteq Threads /\ An \subseteq Threads
  BY DEF InState, Aiming
<1>2. /\ IsFiniteSet(R) /\ IsFiniteSet(Rn) /\ IsFiniteSet(A) /\ IsFiniteSet(An)
      /\ Cardinality(R) \in Nat /\ Cardinality(Rn) \in Nat
      /\ Cardinality(A) \in Nat /\ Cardinality(An) \in Nat
      /\ Cardinality(Threads) \in Nat /\ Cardinality(An) <= Cardinality(Threads)
  BY <1>1, KeysAssumption, FS_Subset, FS_CardinalityType
<1>3. MaxRunning \in Nat /\ Cardinality(R) + Cardinality(A) < MaxRunning + Cardinality(Threads)
  BY ConfigAssumption DEF Capped
<1>4. (t \in A <=> Aims(th[t])) /\ (t \in An <=> Aims(th'[t])) /\ An \ {t} = A \ {t}
  BY DEF Aiming
<1> HIDE DEF R, Rn, A, An
<1>5. Cardinality(Rn) + Cardinality(An) < MaxRunning + Cardinality(Threads)
  <2>1. CASE Rn \subseteq R /\ (Aims(th'[t]) => Aims(th[t]))
    <3>1. An \subseteq A
      BY <1>4, <2>1
    <3>2. Cardinality(Rn) <= Cardinality(R) /\ Cardinality(An) <= Cardinality(A)
      BY <1>2, <2>1, <3>1, FS_Subset
    <3> QED  BY <1>2, <1>3, <3>2
  <2>2. CASE Rn = R /\ Cardinality(R) < MaxRunning
    BY <1>2, <1>3, <2>2
  <2>3. ASSUME NEW i \in Ids, Rn \subseteq R \cup {i}, Aims(th[t]), ~ Aims(th'[t])
        PROVE  Cardinality(Rn) + Cardinality(An) < MaxRunning + Cardinality(Threads)
    <3>1. An = A \ {t} /\ t \in A
      BY <1>4, <2>3
    <3>2. Cardinality(An) = Cardinality(A) - 1
      BY <1>2, <3>1, FS_RemoveElement
    <3> DEFINE S == R \cup {i}
    <3>3. IsFiniteSet(S) /\ Cardinality(S) = IF i \in R THEN Cardinality(R) ELSE Cardinality(R) + 1
      BY <1>2, FS_AddElement
    <3>4. Rn \in SUBSET S
      BY <2>3
    <3> HIDE DEF S
    <3>5. Cardinality(Rn) <= Cardinality(S) /\ Cardinality(S) \in Nat
      BY <3>3, <3>4, FS_Subset, FS_CardinalityType
    <3>6. Cardinality(Rn) <= Cardinality(R) + 1
      BY <1>2, <3>3, <3>5
    <3> QED  BY <1>2, <1>3, <3>2, <3>6
  <2>4. UNCHANGED store => Rn = R
    BY DEF Rn, R, InState
  <2> QED  BY <2>1, <2>2, <2>3, <2>4 DEF Rn, R
<1>6. \A u \in Threads : Onward(th[u])'
  BY DEF Capped, Onward
<1>7. Aiming' = An
  BY DEF Aiming, An, Aims
<1>8. Cardinality(Rn) + Cardinality(An) < MaxRunning + Cardinality(Threads)
  BY <1>5
<1> QED  BY <1>6, <1>7, <1>8 DEF Capped, Rn

\* A jump that leads only an admitted goroutine on, and adds no running record.
LEMMA CapJump ==
    ASSUME IInv, Capped, IsFiniteSet(Threads), NEW t \in Threads,
           \A u \in Threads : u # t => th'[u] = th[u],
           NEW label \in Labels \ (StopsOrResumes \cup {"count_creating"}),
           NEW s, NEW ret, Jumps(t, label, s, ret),
           label \in Building \cup {"persist"} => s.state = "creating",
           label \in Admitted => Aims(th[t]),
           \A i \in Ids : store'[i].state # "stopped",
           InState("running")' \subseteq InState("running")
    PROVE  Capped'
<1>1. CASE label = "done"
  <2>1. th'[t] = FinishedThread /\ FinishedThread.pc = "done"
    BY <1>1 DEF Jumps, FinishedThread, IdleThread
  <2>2. Onward(th'[t]) /\ ~ Aims(th'[t])
    BY <2>1 DEF Onward, StopsOrResumes, Building, Aims, Admitted
  <2> QED  BY <2>2, CapStep
<1>2. CASE label # "done"
  <2>1. th'[t].pc = label /\ th'[t].sess = s
    BY <1>2 DEF Jumps
  <2>2. Onward(th'[t]) /\ (Aims(th'[t]) => Aims(th[t]))
    BY <2>1 DEF Onward, Aims
  <2> QED  BY <2>2, CapStep
<1> QED  BY <1>1, <1>2

\* The same of a plain jump that writes no record.
LEMMA CapGoto ==
    ASSUME IInv, Capped, IsFiniteSet(Threads), NEW t \in Threads,
           \A u \in Threads : u # t => th'[u] = th[u], UNCHANGED store,
           NEW label \in Labels \ (StopsOrResumes \cup {"count_creating"}), Goto(t, label),
           label \in Building \cup {"persist"} => th[t].pc \in Building,
           label \in Admitted => Aims(th[t])
    PROVE  Capped'
<1>1. Jumps(t, label, th[t].sess, th[t].then)
  BY JumpsTo
<1>2. th[t].pc \in Building => th[t].sess.state = "creating"
  BY DEF Capped, Onward
<1>3. \A i \in Ids : store'[i].state # "stopped"
  BY DEF Capped
<1>4. InState("running")' \subseteq InState("running")
  BY DEF InState
<1> QED  BY <1>1, <1>2, <1>3, <1>4, CapJump

\* And of a call of Runtime.Purge.
LEMMA CapPurge ==
    ASSUME IInv, Capped, IsFiniteSet(Threads), NEW t \in Threads,
           \A u \in Threads : u # t => th'[u] = th[u], UNCHANGED store,
           NEW s \in Session, NEW ret \in Labels, CallRuntime(t, "purge_pod", s, ret)
    PROVE  Capped'
<1>1. Jumps(t, "purge_pod", s, ret)
  BY JumpsTo
<1>2. \A i \in Ids : store'[i].state # "stopped"
  BY DEF Capped
<1>3. InState("running")' \subseteq InState("running")
  BY DEF InState
<1>4. "purge_pod" \in Labels \ (StopsOrResumes \cup {"count_creating"})
      /\ "purge_pod" \notin Admitted \cup Building \cup {"persist"}
  BY DEF Labels, StopsOrResumes, Admitted, Building
<1> QED  BY <1>1, <1>2, <1>3, <1>4, CapJump

\* The reads of EnsureSession, Clear and Delete, and Runtime.Purge.
LEMMA CapReads ==
    ASSUME IInv, Capped, IsFiniteSet(Threads), NEW t \in Threads,
           EnsureGet(t) \/ ClearGet(t) \/ DeleteGet(t) \/ PurgeStep(t) \/ LockSession(t)
    PROVE  Capped'
<1>0. /\ UNCHANGED store /\ \A u \in Threads : u # t => th'[u] = th[u]
      /\ th[t].pc \notin {"idle", "done"}
  BY OthersRest DEF EnsureGet, ClearGet, DeleteGet, LockSession, PurgeStep, PurgePod, PurgeSecret,
     PurgeClaim, OnlyThread, StoreUnchanged, At, Progress, EnsureStep, DeleteStep
<1>1. Id(t) \in Ids /\ store[Id(t)] \in Session /\ store[Id(t)].state # "stopped"
  BY <1>0, ThreadFacts DEF IInv, TypeOK, Id, Capped
<1>2. ASSUME NEW label \in {"done", "count_running", "ensure_get", "clear_get", "purge_secret",
                            "purge_claim", "forget", "mark_dead", "mark_deleted"}, Goto(t, label)
      PROVE  Capped'
  BY <1>0, <1>2, CapGoto DEF Labels, StopsOrResumes, Building, Admitted
<1>3. CASE EnsureGet(t) \/ ClearGet(t) \/ DeleteGet(t)
  <2>1. \/ Goto(t, "done") \/ Goto(t, "count_running")
        \/ \E ret \in {"forget", "mark_deleted"} : CallRuntime(t, "purge_pod", store[Id(t)], ret)
    BY <1>1, <1>3 DEF EnsureGet, ClearGet, DeleteGet
  <2> QED  BY <1>0, <1>1, <1>2, <2>1, CapPurge DEF Labels
<1>4. CASE PurgeStep(t)
  <2>1. th[t].then \in {"forget", "done", "mark_dead", "mark_deleted"}
    BY <1>4, ThreadFacts DEF PurgeStep, PurgePod, PurgeSecret, PurgeClaim, At, Fits, PurgeAt
  <2>2. \E label \in {"purge_secret", "purge_claim", "done", th[t].then} : Goto(t, label)
    BY <1>4 DEF PurgeStep, PurgePod, PurgeSecret, PurgeClaim, Request, Refused, AfterFailedPurge
  <2> QED  BY <1>2, <2>1, <2>2
<1>5. CASE LockSession(t)
  BY <1>2, <1>5 DEF LockSession, AfterLock
<1> QED  BY <1>3, <1>4, <1>5

\* Forget and the last updates of failed creations and of Delete.
LEMMA CapWrites ==
    ASSUME IInv, Capped, IsFiniteSet(Threads), NEW t \in Threads,
           Forget(t) \/ MarkDead(t) \/ MarkDeleted(t)
    PROVE  Capped'
<1>0. /\ \A u \in Threads : u # t => th'[u] = th[u]
      /\ th[t].pc \notin {"idle", "done"}
  BY OthersRest DEF Forget, MarkDead, MarkDeleted, At, Progress, EnsureStep, CreateStep, DeleteStep
<1> DEFINE s == th[t].sess
           i == Id(t)
<1>1. i \in Ids /\ store \in [Ids -> Session] /\ s \in Session
  BY <1>0, ThreadFacts DEF IInv, TypeOK, Id
<1>2. ASSUME NEW r, r.state \in {"absent", "dead"},
             store' = store \/ store' = [store EXCEPT ![i] = r]
      PROVE  /\ \A j \in Ids : store'[j].state # "stopped"
             /\ InState("running")' \subseteq InState("running")
  BY <1>1, <1>2 DEF Capped, InState
<1>3. CASE Forget(t)
  <2>1. PICK label \in {"count_running", "done"} : GotoWith(t, label, AbsentSession)
    BY <1>3 DEF Forget
  <2>2. AbsentSession \in Session /\ AbsentSession.state = "absent"
    BY DEF AbsentSession, Session
  <2>3. Jumps(t, label, AbsentSession, th[t].then)
    BY <2>1, <2>2, JumpsTo DEF Labels
  <2>4. /\ \A j \in Ids : store'[j].state # "stopped"
        /\ InState("running")' \subseteq InState("running")
    BY <1>2, <1>3, <2>2 DEF Forget
  <2> QED  BY <1>0, <2>3, <2>4, CapJump DEF Labels, StopsOrResumes, Building, Admitted
<1>4. CASE MarkDead(t) \/ MarkDeleted(t)
  <2>1. s.pod # None
    BY <1>4, ThreadFacts DEF MarkDead, MarkDeleted, At, Fits, NamedAt
  <2> DEFINE r == [s EXCEPT !.state = "dead"]
  <2>2. r.state = "dead"
    BY <1>1, <2>1, SetState DEF Session
  <2>3. /\ Goto(t, "done")
        /\ store' = store \/ store' = [store EXCEPT ![i] = r]
    BY <1>4 DEF MarkDead, MarkDeleted, UpdateAndFinish
  <2> HIDE DEF r
  <2>4. /\ \A j \in Ids : store'[j].state # "stopped"
        /\ InState("running")' \subseteq InState("running")
    BY <1>2, <2>2, <2>3
  <2>5. Jumps(t, "done", s, th[t].then)
    BY <2>3, JumpsTo DEF Labels
  <2>6. /\ "done" \in Labels \ (StopsOrResumes \cup {"count_creating"})
        /\ "done" \notin Admitted \cup Building \cup {"persist"}
    BY DEF Labels, StopsOrResumes, Building, Admitted
  <2> HIDE DEF s
  <2> QED  BY <1>0, <2>4, <2>5, <2>6, CapJump
<1> QED  BY <1>3, <1>4

\* The two counts of Create: who has seen fewer than MaxRunning running begins
\* to aim, and who is admitted has done so.
LEMMA CapCounts ==
    ASSUME IInv, Capped, IsFiniteSet(Threads), NEW t \in Threads,
           CountRunning(t) \/ CountCreating(t)
    PROVE  Capped'
<1>0. /\ UNCHANGED store /\ \A u \in Threads : u # t => th'[u] = th[u]
      /\ th[t] \in Thread /\ th \in [Threads -> Thread]
  BY OthersRest, ThreadFacts DEF CountRunning, CountCreating, OnlyThread, Progress, CreateStep,
     IInv, TypeOK
<1>1. ASSUME Goto(t, "done")
      PROVE  Capped'
  BY <1>0, <1>1, CapGoto DEF Labels, StopsOrResumes, Building, Admitted
<1>2. /\ \A i \in Ids : store'[i].state # "stopped"
      /\ InState("running")' \subseteq InState("running")
  BY <1>0 DEF Capped, InState
<1>3. \A s \in {"running", "creating"} : Cardinality(InState(s)) \in Nat
  <2>1. ASSUME NEW s \in {"running", "creating"}
        PROVE  Cardinality(InState(s)) \in Nat
    <3>1. InState(s) \in SUBSET Ids
      BY DEF InState
    <3>2. IsFiniteSet(InState(s))
      BY <3>1, KeysAssumption, FS_Subset
    <3> QED  BY <3>2, FS_CardinalityType
  <2> QED  BY <2>1
<1>4. ASSUME CountRunning(t), ~ Goto(t, "done")
      PROVE  Capped'
  <2>1. th' = [th EXCEPT ![t].pc = "count_creating", ![t].seen = Cardinality(InState("running"))]
    BY <1>4 DEF CountRunning
  <2>2. th'[t].pc = "count_creating" /\ th'[t].seen = Cardinality(InState("running"))
    BY <1>0, <2>1 DEF Thread
  <2>3. Onward(th'[t])
    BY <2>2 DEF Onward, StopsOrResumes, Building
  <2>4. CASE Cardinality(InState("running")) < MaxRunning
    BY <1>0, <1>2, <2>3, <2>4, CapStep
  <2>5. CASE ~ (Cardinality(InState("running")) < MaxRunning)
    <3>1. ~ Aims(th'[t])
      BY <2>2, <2>5 DEF Aims, Admitted, Building
    <3> QED  BY <1>0, <1>2, <2>3, <3>1, CapStep
  <2> QED  BY <2>4, <2>5
<1>5. ASSUME CountCreating(t), ~ Goto(t, "done")
      PROVE  Capped'
  <2>1. /\ th' = [th EXCEPT ![t].pc = "provision", ![t].seen = 0]
        /\ th[t].seen + Cardinality(InState("creating")) < MaxRunning
        /\ th[t].pc = "count_creating"
    BY <1>5 DEF CountCreating, At
  <2>2. th'[t].pc = "provision"
    BY <1>0, <2>1 DEF Thread
  <2>3. Onward(th'[t])
    BY <2>2 DEF Onward, StopsOrResumes, Building
  <2>4. th[t].seen \in Nat
    BY <1>0 DEF Thread
  <2>5. Aims(th[t])
    BY <1>3, <2>1, <2>4, ConfigAssumption DEF Aims
  <2> QED  BY <1>0, <1>2, <2>3, <2>5, CapStep
<1> QED  BY <1>1, <1>4, <1>5

\* The steps of a cold creation and of its roll back.
LEMMA CapCold ==
    ASSUME IInv, Capped, IsFiniteSet(Threads), NEW t \in Threads,
           \/ ClaimWait(t) \/ ClaimCreate(t) \/ SecretCreate(t) \/ PodCreate(t)
           \/ RollbackSecret(t) \/ RollbackClaim(t)
    PROVE  Capped'
<1>1. UNCHANGED store /\ \A u \in Threads : u # t => th'[u] = th[u]
  BY OthersRest DEF ClaimWait, ClaimCreate, SecretCreate, PodCreate, RollbackSecret, RollbackClaim,
     OnlyThread, StoreUnchanged, Progress, CreateStep
<1>2. ASSUME NEW label \in {"done", "rollback_secret", "rollback_claim"}, Goto(t, label)
      PROVE  Capped'
  BY <1>1, <1>2, CapGoto DEF Labels, StopsOrResumes, Building, Admitted
<1>3. ASSUME NEW label \in {"claim_create", "secret_create", "pod_create", "persist"},
             Goto(t, label), th[t].pc \in Building
      PROVE  Capped'
  <2>1. Aims(th[t])
    BY <1>3 DEF Aims, Admitted
  <2>2. label \in Labels \ (StopsOrResumes \cup {"count_creating"})
    BY <1>3 DEF Labels, StopsOrResumes
  <2> QED  BY <1>1, <1>3, <2>1, <2>2, CapGoto
<1>4. CASE ClaimWait(t) \/ ClaimCreate(t) \/ SecretCreate(t) \/ PodCreate(t)
  <2>1. th[t].pc \in Building
    BY <1>4 DEF ClaimWait, ClaimCreate, SecretCreate, PodCreate, At, Building
  <2>2. \/ \E label \in {"done", "rollback_secret"} : Goto(t, label)
        \/ \E label \in {"claim_create", "secret_create", "pod_create", "persist"} : Goto(t, label)
    BY <1>4 DEF ClaimWait, ClaimCreate, SecretCreate, PodCreate, Request, Refused
  <2> QED  BY <1>2, <1>3, <2>1, <2>2
<1>5. CASE RollbackSecret(t) \/ RollbackClaim(t)
  <2>1. \E label \in {"done", "rollback_claim"} : Goto(t, label)
    BY <1>5 DEF RollbackSecret, RollbackClaim, Request
  <2> QED  BY <1>2, <2>1
<1> QED  BY <1>4, <1>5

\* The choice between a warm and a cold sandbox.
LEMMA CapProvision ==
    ASSUME IInv, Capped, IsFiniteSet(Threads), NEW t \in Threads, Provision(t)
    PROVE  Capped'
<1>1. /\ UNCHANGED store /\ th[t].pc = "provision"
      /\ \A u \in Threads : u # t => th'[u] = th[u]
  BY OthersRest DEF Provision, At, Progress, CreateStep
<1>2. Aims(th[t])
  BY <1>1 DEF Aims, Admitted
<1>3. /\ \A i \in Ids : store'[i].state # "stopped"
      /\ InState("running")' \subseteq InState("running")
  BY <1>1 DEF Capped, InState
<1>4. ASSUME Goto(t, "done")
      PROVE  Capped'
  BY <1>1, <1>4, CapGoto DEF Labels, StopsOrResumes, Building, Admitted
<1>5. ASSUME NEW label \in {"persist", "claim_wait"}, NEW s, GotoWith(t, label, s),
             s.state = "creating"
      PROVE  Capped'
  <2>1. th'[t].pc = label /\ th'[t].sess = s
    BY <1>5, MoveRegs
  <2>2. Onward(th'[t])
    BY <1>5, <2>1 DEF Onward, StopsOrResumes
  <2> QED  BY <1>1, <1>2, <1>3, <2>2, CapStep
<1>6. CASE \/ \E k \in PoolKeys : GotoWith(t, "persist", NewSession(t, k))
           \/ GotoWith(t, "claim_wait", NewSession(t, Id(t)))
  <2>1. PICK label \in {"persist", "claim_wait"}, k \in PoolKeys \cup {Id(t)} :
          GotoWith(t, label, NewSession(t, k))
    BY <1>6
  <2> DEFINE s == NewSession(t, k)
  <2>2. s.state = "creating" /\ GotoWith(t, label, s)
    BY <2>1 DEF NewSession
  <2> HIDE DEF s
  <2> QED  BY <1>5, <2>2
<1>7. \/ Goto(t, "done")
      \/ \E k \in PoolKeys : GotoWith(t, "persist", NewSession(t, k))
      \/ GotoWith(t, "claim_wait", NewSession(t, Id(t)))
  BY DEF Provision, Acquire
<1> QED  BY <1>4, <1>6, <1>7

\* The record appears in "creating", and becomes running where its goroutine
\* ceases to aim.
LEMMA CapRecords ==
    ASSUME IInv, Capped, IsFiniteSet(Threads), NEW t \in Threads,
           Persist(t) \/ WaitReady(t) \/ MarkRunning(t)
    PROVE  Capped'
<1> DEFINE s == th[t].sess
           i == Id(t)
<1>0. /\ \A u \in Threads : u # t => th'[u] = th[u]
      /\ th[t].pc \in {"persist", "wait_ready", "mark_running"}
  BY OthersRest DEF Persist, WaitReady, MarkRunning, At, Progress, CreateStep
<1>1. /\ i \in Ids /\ store \in [Ids -> Session] /\ s \in Session /\ s.pod # None
      /\ Aims(th[t])
  BY <1>0, ThreadFacts DEF IInv, TypeOK, Id, Fits, NamedAt, Aims, Admitted
<1> DEFINE r == [s EXCEPT !.state = "running"]
<1>2. r \in Session /\ r.state = "running"
  <2>1. s = [state |-> s.state, image |-> s.image, pod |-> s.pod, pvc |-> s.pvc]
    BY <1>1, NamedRecord
  <2>2. r = [state |-> "running", image |-> s.image, pod |-> s.pod, pvc |-> s.pvc]
    BY <2>1
  <2>3. r \in Session
    BY <1>1, SetState
  <2> QED  BY <2>2, <2>3
<1> HIDE DEF r
<1>3. ASSUME NEW c \in {s, r}, NEW ret \in {"done", "mark_dead"}, UNCHANGED store,
             CallRuntime(t, "purge_pod", c, ret)
      PROVE  Capped'
  <2>1. c \in Session /\ ret \in Labels
    BY <1>1, <1>2 DEF Labels
  <2> HIDE DEF s
  <2> QED  BY <1>0, <1>3, <2>1, CapPurge
<1>4. CASE WaitReady(t)
  <2>1. \/ Goto(t, "mark_running") \/ CallRuntime(t, "purge_pod", s, "mark_dead")
    BY <1>4 DEF WaitReady
  <2>2. UNCHANGED store
    BY <1>4 DEF WaitReady, OnlyThread
  <2>3. "mark_running" \in Labels \ (StopsOrResumes \cup {"count_creating"})
        /\ "mark_running" \notin Building \cup {"persist"}
    BY DEF Labels, StopsOrResumes, Building
  <2>4. ASSUME Goto(t, "mark_running")
        PROVE  Capped'
    BY <1>0, <1>1, <2>2, <2>3, <2>4, CapGoto
  <2> QED  BY <1>3, <2>1, <2>2, <2>4
<1>5. CASE Persist(t)
  <2>1. CASE UNCHANGED store /\ CallRuntime(t, "purge_pod", s, "done")
    BY <1>3, <2>1
  <2>2. ASSUME store' = [store EXCEPT ![i] = s], Goto(t, "wait_ready"), th[t].pc = "persist"
        PROVE  Capped'
    <3>1. s.state = "creating"
      BY <2>2 DEF Capped, Onward
    <3>2. /\ \A j \in Ids : store'[j].state # "stopped"
          /\ InState("running")' \subseteq InState("running")
      BY <1>1, <2>2, <3>1 DEF Capped, InState
    <3>3. "wait_ready" \in Labels \ (StopsOrResumes \cup {"count_creating"})
      BY DEF Labels, StopsOrResumes
    <3>4. Jumps(t, "wait_ready", s, th[t].then)
      BY <2>2, <3>3, JumpsTo
    <3> QED  BY <1>0, <1>1, <3>1, <3>2, <3>3, <3>4, CapJump
  <2> QED  BY <1>5, <2>1, <2>2 DEF Persist, At
<1>6. CASE MarkRunning(t)
  <2>1. \/ UNCHANGED store /\ CallRuntime(t, "purge_pod", r, "mark_dead")
        \/ store' = [store EXCEPT ![i] = r] /\ GotoWith(t, "done", r)
    BY <1>6 DEF MarkRunning, r
  <2>2. ASSUME store' = [store EXCEPT ![i] = r], GotoWith(t, "done", r)
        PROVE  Capped'
    <3>1. th'[t] = FinishedThread /\ FinishedThread.pc = "done"
      BY <2>2, EndRegs DEF FinishedThread, IdleThread
    <3>2. Onward(th'[t]) /\ ~ Aims(th'[t])
      BY <3>1 DEF Onward, StopsOrResumes, Building, Aims, Admitted
    <3>3. /\ \A j \in Ids : store'[j].state # "stopped"
          /\ InState("running")' \subseteq InState("running") \cup {i}
      BY <1>1, <1>2, <2>2 DEF Capped, InState
    <3> QED  BY <1>0, <1>1, <3>2, <3>3, CapStep
  <2> QED  BY <1>3, <2>1, <2>2
<1> QED  BY <1>4, <1>5, <1>6

\* Requests arrive aiming at nothing, and a cancellation aims at nothing new.
LEMMA CapOutside ==
    ASSUME NothingStops, IInv, Capped, IsFiniteSet(Threads), NEW t \in Threads,
           \/ \E op \in Requests, i \in Ids, want \in Wants : Arrive(t, op, i, want)
           \/ Return(t) \/ Cancel(t)
    PROVE  Capped'
<1>0. th \in [Threads -> Thread]
  BY DEF IInv, TypeOK
<1>1. ASSUME NEW r, th' = [th EXCEPT ![t] = r], UNCHANGED store, Onward(r), Aims(r) => Aims(th[t])
      PROVE  Capped'
  <2>1. th'[t] = r /\ \A u \in Threads : u # t => th'[u] = th[u]
    BY <1>0, <1>1
  <2>2. /\ \A i \in Ids : store'[i].state # "stopped"
        /\ InState("running")' \subseteq InState("running")
    BY <1>1 DEF Capped, InState
  <2> QED  BY <1>1, <2>1, <2>2, CapStep
<1>2. ASSUME NEW op \in Requests, NEW i \in Ids, NEW want \in Wants, Arrive(t, op, i, want)
      PROVE  Capped'
  <2> DEFINE r == [IdleThread EXCEPT !.op = op, !.id = i, !.want = want, !.pc = Entry(op)]
  <2>1. th' = [th EXCEPT ![t] = r] /\ UNCHANGED store
    BY <1>2 DEF Arrive, OnlyThread
  <2>2. op \in {"ensure", "clear", "create", "delete"}
    BY ConfigAssumption DEF NothingStops, RequestKinds
  <2>3. r.pc = Entry(op) /\ Entry(op) \in {"lock", "count_running", "delete_get"}
    BY <2>2 DEF IdleThread, Entry
  <2>4. Onward(r) /\ ~ Aims(r)
    BY <2>3 DEF Onward, Aims, Admitted, Building, StopsOrResumes
  <2> HIDE DEF r
  <2> QED  BY <1>1, <2>1, <2>4
<1>3. CASE Return(t)
  <2>1. th' = [th EXCEPT ![t] = IdleThread] /\ UNCHANGED store /\ IdleThread.pc = "idle"
    BY <1>3 DEF Return, IdleThread
  <2>2. Onward(IdleThread) /\ ~ Aims(IdleThread)
    BY <2>1 DEF Onward, Aims, Admitted, Building, StopsOrResumes
  <2> QED  BY <1>1, <2>1, <2>2
<1>4. CASE Cancel(t)
  <2> DEFINE r == [th[t] EXCEPT !.cancelled = TRUE]
  <2>1. th' = [th EXCEPT ![t] = r] /\ UNCHANGED store
    BY <1>0, <1>4 DEF Cancel, StoreUnchanged
  <2>2. r.pc = th[t].pc /\ r.sess = th[t].sess /\ r.seen = th[t].seen
    BY <1>0 DEF Thread
  <2>3. Onward(r) /\ (Aims(r) => Aims(th[t]))
    BY <2>2 DEF Capped, Onward, Aims
  <2> HIDE DEF r
  <2> QED  BY <1>1, <2>1, <2>3
<1> QED  BY <1>2, <1>3, <1>4

\* Every step keeps Capped.
LEMMA CapNext ==
    ASSUME NothingStops, IInv, Capped, IsFiniteSet(Threads), [Next]_vars
    PROVE  Capped'
<1>1. ASSUME NEW t \in Threads, LockSession(t) \/ (Progress(t) /\ ~ Return(t))
      PROVE  Capped'
  <2>1. th[t].pc \notin StopsOrResumes
    BY DEF Capped, Onward
  <2>2. ~ StopStep(t) /\ ~ ResumeStep(t)
    BY <2>1 DEF StopsOrResumes, StopStep, StopGet, StopPod, StopSecret, MarkStopped, ResumeStep,
       ResumeGet, ResumeSecret, ResumePod, MarkCreating, ResumeWait, MarkResumed, RestoreStopped, At
  <2>3. CASE EnsureGet(t) \/ ClearGet(t) \/ DeleteGet(t) \/ PurgeStep(t) \/ LockSession(t)
    BY <2>3, CapReads
  <2>4. CASE Forget(t) \/ MarkDead(t) \/ MarkDeleted(t)
    BY <2>4, CapWrites
  <2>5. CASE CountRunning(t) \/ CountCreating(t)
    BY <2>5, CapCounts
  <2>6. CASE \/ ClaimWait(t) \/ ClaimCreate(t) \/ SecretCreate(t) \/ PodCreate(t)
             \/ RollbackSecret(t) \/ RollbackClaim(t)
    BY <2>6, CapCold
  <2>7. CASE Provision(t)
    BY <2>7, CapProvision
  <2>8. CASE Persist(t) \/ WaitReady(t) \/ MarkRunning(t)
    BY <2>8, CapRecords
  <2> QED  BY <1>1, <2>2, <2>3, <2>4, <2>5, <2>6, <2>7, <2>8
            DEF Progress, EnsureStep, CreateStep, DeleteStep
<1>2. ASSUME NEW t \in Threads,
             \/ \E op \in Requests, i \in Ids, want \in Wants : Arrive(t, op, i, want)
             \/ Return(t) \/ Cancel(t)
      PROVE  Capped'
  BY <1>2, CapOutside
<1>3. ASSUME UNCHANGED <<store, th>>
      PROVE  Capped'
  BY <1>3 DEF Capped, Onward, Aiming, Aims, InState
<1>4. ClusterActs \/ UNCHANGED vars \/ (\E k \in PoolKeys : PoolRefills(k)) => UNCHANGED <<store, th>>
  BY DEF ClusterActs, vars, PoolRefills
<1> QED  BY <1>1, <1>2, <1>3, <1>4 DEF Next

\* Where nothing is stopped and resumed, the cap of config.go is missed by fewer
\* than there are goroutines, whatever requests fail or are cancelled: Create
\* counts before it creates and nothing ties the two together, but who is
\* admitted is through with it before its goroutine counts again.
THEOREM CapIsMissedByFew ==
    ASSUME NothingStops, IsFiniteSet(Threads), Threads # {}
    PROVE  Spec => []OvershootIsBounded
<1>1. Init => IInv /\ Capped
  <2>1. SUFFICES ASSUME Init PROVE Capped
    BY InitOK
  <2>2. IdleThread.pc = "idle" /\ AbsentSession.state = "absent"
    BY DEF IdleThread, AbsentSession
  <2>3. (\A t \in Threads : th[t] = IdleThread) /\ (\A i \in Ids : store[i] = AbsentSession)
    BY <2>1 DEF Init
  <2>4. \A t \in Threads : Onward(th[t]) /\ ~ Aims(th[t])
    BY <2>2, <2>3 DEF Onward, Aims, Admitted, Building, StopsOrResumes
  <2>5. InState("running") = {} /\ Aiming = {} /\ \A i \in Ids : store[i].state # "stopped"
    BY <2>2, <2>3, <2>4 DEF InState, Aiming
  <2>6. Cardinality(Threads) \in Nat /\ Cardinality(Threads) # 0 /\ Cardinality({}) = 0
    BY FS_CardinalityType, FS_EmptySet
  <2> QED  BY <2>4, <2>5, <2>6, ConfigAssumption DEF Capped
<1>2. IInv /\ Capped /\ [Next]_vars => IInv' /\ Capped'
  BY StepOK, CapNext
<1>3. IInv /\ Capped => OvershootIsBounded
  <2>1. ASSUME Capped PROVE OvershootIsBounded
    <3>1. InState("running") \in SUBSET Ids /\ Aiming \in SUBSET Threads
      BY DEF InState, Aiming
    <3>2. /\ Cardinality(InState("running")) \in Nat /\ Cardinality(Aiming) \in Nat
          /\ Cardinality(Threads) \in Nat
      BY <3>1, KeysAssumption, FS_Subset, FS_CardinalityType
    <3> QED  BY <2>1, <3>2, ConfigAssumption DEF Capped, OvershootIsBounded
  <2> QED  BY <2>1
<1> QED  BY <1>1, <1>2, <1>3, PTL DEF Spec
=============================================================================
