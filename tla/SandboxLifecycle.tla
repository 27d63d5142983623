--------------------------- MODULE SandboxLifecycle ---------------------------
(***************************************************************************)
(* The session lifecycle of the orchestrator: internal/manager over        *)
(* internal/session (the in-memory store) and internal/runtime (the        *)
(* Kubernetes objects of Cluster).                                         *)
(*                                                                         *)
(* Each request - an MCP call that needs a sandbox ("ensure"), the         *)
(* clear_session tool ("clear"), and the REST or reaper calls "create",    *)
(* "stop", "resume" and "delete" - runs on a goroutine of its own and      *)
(* takes one step per store call or API request, because those are the     *)
(* points where another goroutine may run.  Only "ensure" and "clear" take *)
(* the per-id lock.  A request works on a clone of the session record, as  *)
(* the store hands out clones, so what it writes back may be stale.        *)
(***************************************************************************)
EXTENDS Cluster

CONSTANTS
    Ids,            \* canonical session ids
    PoolKeys,       \* the "pool-<uuid>" SessionIDs of warm sandboxes
    Threads,        \* goroutines serving requests (the reaper is one of them)
    Images,         \* container images
    Wants,          \* the images requests ask for; None leaves it to the config
    DefaultImage,   \* config: the image of the warm pool
    Requests,       \* the kinds of request this instance serves
    MaxRunning,     \* config: cap on running sandboxes
    MaxFaults       \* bound: failing API requests plus cancelled contexts

RequestKinds == {"ensure", "clear", "create", "stop", "resume", "delete"}

\* Sessions and warm sandboxes never share an id: what follows the last dash has
\* 8 digits in a NewID, 10 in a CanonicalID and 12 in a "pool-<uuid>".
ASSUME KeysAssumption ==
    /\ Keys = Ids \cup PoolKeys
    /\ Ids \cap PoolKeys = {}
    /\ IsFiniteSet(Ids)
ASSUME NoneAssumption == None \notin Threads \cup Images
ASSUME ConfigAssumption ==
    /\ DefaultImage \in Images
    /\ Wants \subseteq Images \cup {None}
    /\ Requests \subseteq RequestKinds
    /\ MaxRunning \in Nat
    /\ MaxFaults \in Nat

VARIABLES
    store,    \* store[i]: the session record of i, or AbsentSession
    lock,     \* lock[i]: the thread that holds the keyed lock of i, or None
    idle,     \* keys of the warm sandboxes the pool can hand out
    th,       \* th[t]: the request thread t is serving and how far it is
    faults    \* how many faults may still happen

vars == <<store, lock, idle, th, faults, pods, pvcs, secrets>>

-----------------------------------------------------------------------------
(* Records.                                                                *)

AbsentSession == [state |-> "absent", image |-> None, pod |-> None, pvc |-> None]

\* Only a stopped session may be without a pod name: cleanupFailedResume clears
\* it, and no other code writes an empty one.
Session ==
    {AbsentSession} \cup
    {s \in [state : {"creating", "running", "stopped", "dead"}, image : Images,
            pod : Keys \cup {None}, pvc : Keys] : s.pod = None => s.state = "stopped"}

Labels ==
    {"idle", "lock", "done",
     "ensure_get", "clear_get", "forget",
     "count_running", "count_creating", "provision",
     "claim_wait", "claim_create", "secret_create", "pod_create",
     "rollback_secret", "rollback_claim",
     "persist", "wait_ready", "mark_running", "mark_dead",
     "purge_pod", "purge_secret", "purge_claim",
     "stop_get", "stop_pod", "stop_secret", "mark_stopped",
     "resume_get", "resume_secret", "resume_pod",
     "mark_creating", "resume_wait", "mark_resumed", "restore_stopped",
     "delete_get", "mark_deleted"}

\* want is opts.Image of create_sandbox (None: not given), sess the clone the
\* request works on, seen the running sandboxes it counted, then where a
\* subroutine (Runtime.Purge, Runtime.Stop) returns to.
Thread == [op : RequestKinds \cup {"none"}, id : Ids \cup {None},
           want : Images \cup {None}, pc : Labels, sess : Session,
           seen : Nat, then : Labels, cancelled : BOOLEAN]

IdleThread == [op |-> "none", id |-> None, want |-> None, pc |-> "idle",
               sess |-> AbsentSession, seen |-> 0, then |-> "done",
               cancelled |-> FALSE]

\* Type correctness of the manager: session records have one of the shapes the
\* code writes (an empty pod name only in a stopped session), locks are held by
\* goroutines, and every goroutine is at a label of its request.
TypeOK ==
    /\ ClusterTypeOK
    /\ store \in [Ids -> Session]
    /\ lock \in [Ids -> Threads \cup {None}]
    /\ idle \in SUBSET PoolKeys
    /\ th \in [Threads -> Thread]
    /\ faults \in 0 .. MaxFaults

\* The pool starts with every warm sandbox ready.
Init ==
    /\ store = [i \in Ids |-> AbsentSession]
    /\ lock = [i \in Ids |-> None]
    /\ idle = PoolKeys
    /\ th = [t \in Threads |-> IdleThread]
    /\ faults = MaxFaults
    /\ pods = [k \in Keys |-> IF k \in PoolKeys
                              THEN [phase |-> "ready", claim |-> k] ELSE NoPod]
    /\ pvcs = [k \in Keys |-> IF k \in PoolKeys THEN "bound" ELSE "none"]
    /\ secrets = [k \in Keys |-> k \in PoolKeys]

-----------------------------------------------------------------------------
(* Control flow of a thread.                                               *)

InState(s) == {i \in Ids : store[i].state = s}
Tracked(i) == store[i].state # "absent"
At(t, label) == th[t].pc = label
Id(t) == th[t].id
Live(t) == ~ th[t].cancelled

\* A finished request has only its lock left to give back.
FinishedThread == [IdleThread EXCEPT !.pc = "done"]

GotoWith(t, label, s) ==
    th' = [th EXCEPT ![t] = IF label = "done" THEN FinishedThread
                            ELSE [th[t] EXCEPT !.pc = label, !.sess = s]]
Goto(t, label) == GotoWith(t, label, th[t].sess)

\* Runtime.Purge or Runtime.Stop of the sandbox in s, returning to ret.
CallRuntime(t, label, s, ret) ==
    th' = [th EXCEPT ![t].pc = label, ![t].sess = s, ![t].then = ret]

\* One API request with the given effect.  It succeeds, or fails because its
\* context is cancelled, or fails at the cost of one fault - in which case the
\* request may still have been carried out and only the answer been lost.
\* Cleanup code runs on a background context, which is never cancelled.
Request(t, background, Effect, ok, err) ==
    \/ /\ background \/ Live(t)
       /\ Effect
       /\ Goto(t, ok)
       /\ UNCHANGED faults
    \/ /\ ~ background /\ ~ Live(t)
       /\ Goto(t, err)
       /\ UNCHANGED <<clusterVars, faults>>
    \/ /\ background \/ Live(t)
       /\ faults > 0
       /\ faults' = faults - 1
       /\ Effect \/ UNCHANGED clusterVars
       /\ Goto(t, err)

\* A request that a cheaper check already refuses (the name is taken, or empty).
Refused(t, err) ==
    /\ Goto(t, err)
    /\ UNCHANGED <<clusterVars, faults>>

\* MemoryStore.Update replaces an existing record and never adds one.
CanUpdate(t, background) == (background \/ Live(t)) /\ Tracked(Id(t))

\* A last Update, whose error can only be reported.
UpdateAndFinish(t, background, s) ==
    /\ store' = IF CanUpdate(t, background) THEN [store EXCEPT ![Id(t)] = s]
                                           ELSE store
    /\ Goto(t, "done")
    /\ UNCHANGED <<lock, idle, faults, clusterVars>>

StoreUnchanged == UNCHANGED <<store, lock, idle>>
OnlyThread == UNCHANGED <<store, lock, idle, faults, clusterVars>>

-----------------------------------------------------------------------------
(* Requests arrive and return.                                             *)

Entry(op) == CASE op \in {"ensure", "clear"} -> "lock"
               [] op = "create" -> "count_running"
               [] op = "stop"   -> "stop_get"
               [] op = "resume" -> "resume_get"
               [] op = "delete" -> "delete_get"

\* NewID draws a random id, so nothing carries it yet ...
Fresh(i) == /\ ~ Tracked(i) /\ ~ Leftovers(i)
            /\ \A t \in Threads : Id(t) # i

\* ... and until the session is persisted nobody else can name it.
Unpublished(i) == \E t \in Threads : th[t].op = "create" /\ Id(t) = i /\ ~ Tracked(i)

Arrive(t, op, i, want) ==
    /\ At(t, "idle")
    /\ IF op = "create" THEN Fresh(i) ELSE ~ Unpublished(i)
    /\ want # None => op \in {"ensure", "create"}
    /\ th' = [th EXCEPT ![t] = [IdleThread EXCEPT !.op = op, !.id = i,
                                !.want = want, !.pc = Entry(op)]]
    /\ OnlyThread

\* The client goes away, or the deadline of its context passes.
Cancel(t) ==
    /\ th[t].pc \notin {"idle", "done"} /\ Live(t)
    /\ faults > 0
    /\ faults' = faults - 1
    /\ th' = [th EXCEPT ![t].cancelled = TRUE]
    /\ StoreUnchanged /\ UNCHANGED clusterVars

\* Mutant of Return: the deferred unlock is lost.
ReturnHoldingLock(t) ==
    /\ At(t, "done")
    /\ th' = [th EXCEPT ![t] = IdleThread]
    /\ OnlyThread

\* The request answers its caller; "ensure" and "clear" release their lock.
Return(t) ==
    /\ At(t, "done")
    /\ th' = [th EXCEPT ![t] = IdleThread]
    /\ lock' = [i \in Ids |-> IF lock[i] = t THEN None ELSE lock[i]]
    /\ UNCHANGED <<store, idle, faults, clusterVars>>

-----------------------------------------------------------------------------
(* EnsureSession, Clear and purgeAndForget.                                *)

AfterLock(t) == IF th[t].op = "ensure" THEN "ensure_get" ELSE "clear_get"

\* Mutant of LockSession: the keyed lock does not exclude.
LockSessionShared(t) ==
    /\ At(t, "lock")
    /\ lock' = [lock EXCEPT ![Id(t)] = t]
    /\ Goto(t, AfterLock(t))
    /\ UNCHANGED <<store, idle, faults, clusterVars>>

LockSession(t) ==
    /\ At(t, "lock")
    /\ lock[Id(t)] = None
    /\ lock' = [lock EXCEPT ![Id(t)] = t]
    /\ Goto(t, AfterLock(t))
    /\ UNCHANGED <<store, idle, faults, clusterVars>>

\* With a cancelled context Get fails and the code falls through to Create,
\* whose first store call then fails too.
EnsureGet(t) ==
    LET s == store[Id(t)]
        found == Live(t) /\ Tracked(Id(t))
        imageChange == th[t].want # None /\ s.image # th[t].want
        stuck == s.state \in {"creating", "dead"}
    IN  /\ At(t, "ensure_get")
        /\ OnlyThread
        /\ \/ ~ found /\ Goto(t, "count_running")
           \/ found /\ (imageChange \/ stuck) /\ CallRuntime(t, "purge_pod", s, "forget")
           \/ found /\ ~ imageChange /\ s.state = "running" /\ Goto(t, "done")
           \/ found /\ ~ imageChange /\ s.state = "stopped" /\ Goto(t, "resume_get")

ClearGet(t) ==
    /\ At(t, "clear_get")
    /\ OnlyThread
    /\ IF Live(t) /\ Tracked(Id(t))
       THEN CallRuntime(t, "purge_pod", store[Id(t)], "forget")
       ELSE Goto(t, "done")

\* The store half of purgeAndForget; EnsureSession shields it from cancellation.
Forget(t) ==
    /\ At(t, "forget")
    /\ store' = IF th[t].op = "ensure" \/ Live(t)
                THEN [store EXCEPT ![Id(t)] = AbsentSession] ELSE store
    /\ GotoWith(t, IF th[t].op = "ensure" THEN "count_running" ELSE "done",
                AbsentSession)
    /\ UNCHANGED <<lock, idle, faults, clusterVars>>

-----------------------------------------------------------------------------
(* Runtime.Purge, called by purgeAndForget, Delete and the failure paths of *)
(* Create.  All callers but Delete ignore its error.                        *)

PurgeIsBackground(t) ==
    ~ (th[t].op \in {"clear", "delete"})

AfterFailedPurge(t) == IF th[t].then = "mark_deleted" THEN "done" ELSE th[t].then

\* The client library refuses an empty pod name.
PurgePod(t) ==
    /\ At(t, "purge_pod")
    /\ StoreUnchanged
    /\ IF th[t].sess.pod = None
       THEN Refused(t, AfterFailedPurge(t))
       ELSE Request(t, PurgeIsBackground(t), DeletePod(th[t].sess.pod),
                    "purge_secret", AfterFailedPurge(t))

PurgeSecret(t) ==
    /\ At(t, "purge_secret")
    /\ StoreUnchanged
    /\ Request(t, PurgeIsBackground(t), DeleteSecret(th[t].sess.pod),
               "purge_claim", AfterFailedPurge(t))

\* Mutant of PurgeClaim: the workspace is kept, as Runtime.Stop keeps it.
PurgeKeepingClaim(t) ==
    /\ At(t, "purge_claim")
    /\ Goto(t, th[t].then)
    /\ OnlyThread

PurgeClaim(t) ==
    /\ At(t, "purge_claim")
    /\ StoreUnchanged
    /\ Request(t, PurgeIsBackground(t), DeleteClaim(th[t].sess.pvc),
               th[t].then, AfterFailedPurge(t))

-----------------------------------------------------------------------------
(* Create: the cap, then a warm or a cold sandbox, then the record.        *)

ResolvedImage(t) == IF th[t].want = None THEN DefaultImage ELSE th[t].want

CountRunning(t) ==
    /\ At(t, "count_running")
    /\ OnlyThread
    /\ IF Live(t)
       THEN th' = [th EXCEPT ![t].pc = "count_creating",
                             ![t].seen = Cardinality(InState("running"))]
       ELSE Goto(t, "done")

\* Mutant of CountCreating: off by one.
CountCreatingOneMore(t) ==
    /\ At(t, "count_creating")
    /\ OnlyThread
    /\ LET admitted == th[t].seen + Cardinality(InState("creating")) <= MaxRunning
       IN  IF Live(t) /\ admitted
           THEN th' = [th EXCEPT ![t].pc = "provision", ![t].seen = 0]
           ELSE Goto(t, "done")

CountCreating(t) ==
    /\ At(t, "count_creating")
    /\ OnlyThread
    /\ LET admitted == th[t].seen + Cardinality(InState("creating")) < MaxRunning
       IN  IF Live(t) /\ admitted
           THEN th' = [th EXCEPT ![t].pc = "provision", ![t].seen = 0]
           ELSE Goto(t, "done")

NewSession(t, k) == [state |-> "creating", image |-> ResolvedImage(t),
                     pod |-> k, pvc |-> k]

\* Mutant of Acquire: the handle stays in the pool.
AcquireShared(t, k) ==
    /\ k \in idle
    /\ ResolvedImage(t) = DefaultImage
    /\ UNCHANGED idle
    /\ GotoWith(t, "persist", NewSession(t, k))

\* WarmPool.Acquire hands out a ready default-image sandbox.
Acquire(t, k) ==
    /\ k \in idle
    /\ ResolvedImage(t) = DefaultImage
    /\ idle' = idle \ {k}
    /\ GotoWith(t, "persist", NewSession(t, k))

\* Assign, EnsureReady (whose error ends the request) and the choice between a
\* warm and a cold sandbox.  A request for another root or writable posture
\* skips the pool even when it has a sandbox to give.
Provision(t) ==
    /\ At(t, "provision")
    /\ UNCHANGED <<store, lock, clusterVars>>
    /\ \/ /\ ~ Live(t)
          /\ Goto(t, "done")
          /\ UNCHANGED <<idle, faults>>
       \/ /\ Live(t) /\ faults > 0
          /\ faults' = faults - 1
          /\ Goto(t, "done")
          /\ UNCHANGED idle
       \/ /\ Live(t)
          /\ \E k \in PoolKeys : Acquire(t, k)
          /\ UNCHANGED faults
       \/ /\ Live(t)
          /\ GotoWith(t, "claim_wait", NewSession(t, Id(t)))
          /\ UNCHANGED <<idle, faults>>

\* waitPVCGone: waits only for a claim that is being deleted, and gives up
\* after a minute.  A Get that fails has the outcome of a ClaimCreate that fails
\* without effect.
ClaimWait(t) ==
    /\ At(t, "claim_wait")
    /\ OnlyThread
    /\ \/ Live(t) /\ pvcs[Id(t)] # "terminating" /\ Goto(t, "claim_create")
       \/ ~ Live(t) /\ Goto(t, "done")
       \/ pvcs[Id(t)] = "terminating" /\ Goto(t, "done")

ClaimCreate(t) ==
    /\ At(t, "claim_create")
    /\ StoreUnchanged
    /\ IF pvcs[Id(t)] # "none"
       THEN Refused(t, "done")
       ELSE Request(t, FALSE, CreateClaim(Id(t)), "secret_create", "done")

\* An error here returns without rolling the claim back.
SecretCreate(t) ==
    /\ At(t, "secret_create")
    /\ StoreUnchanged
    /\ IF secrets[Id(t)]
       THEN Refused(t, "done")
       ELSE Request(t, FALSE, CreateSecretObject(Id(t)), "pod_create", "done")

PodCreate(t) ==
    /\ At(t, "pod_create")
    /\ StoreUnchanged
    /\ IF PodExists(Id(t))
       THEN Refused(t, "rollback_secret")
       ELSE Request(t, FALSE, CreatePodMounting(Id(t), Id(t)),
                    "persist", "rollback_secret")

RollbackSecret(t) ==
    /\ At(t, "rollback_secret")
    /\ StoreUnchanged
    /\ Request(t, TRUE, DeleteSecret(Id(t)), "rollback_claim", "rollback_claim")

RollbackClaim(t) ==
    /\ At(t, "rollback_claim")
    /\ StoreUnchanged
    /\ Request(t, TRUE, DeleteClaim(Id(t)), "done", "done")

\* MemoryStore.Create: refuses an id that already has a record.
Persist(t) ==
    /\ At(t, "persist")
    /\ UNCHANGED <<lock, idle, faults, clusterVars>>
    /\ IF Live(t) /\ ~ Tracked(Id(t))
       THEN /\ store' = [store EXCEPT ![Id(t)] = th[t].sess]
            /\ Goto(t, "wait_ready")
       ELSE /\ CallRuntime(t, "purge_pod", th[t].sess, "done")
            /\ UNCHANGED store

\* Mutant of WaitReady: a timeout is taken for success.
WaitReadyUnchecked(t) ==
    /\ At(t, "wait_ready")
    /\ OnlyThread
    /\ Goto(t, "mark_running")

\* Success needs one look at a ready pod; a timeout, an image that cannot be
\* pulled, a deleted pod and a cancelled context all lead to cleanupFailedCreate.
WaitReady(t) ==
    /\ At(t, "wait_ready")
    /\ OnlyThread
    /\ IF Live(t) /\ pods[th[t].sess.pod].phase = "ready"
       THEN Goto(t, "mark_running")
       ELSE CallRuntime(t, "purge_pod", th[t].sess, "mark_dead")

MarkRunning(t) ==
    LET s == [th[t].sess EXCEPT !.state = "running"]
    IN  /\ At(t, "mark_running")
        /\ UNCHANGED <<lock, idle, faults, clusterVars>>
        /\ IF CanUpdate(t, FALSE)
           THEN /\ store' = [store EXCEPT ![Id(t)] = s]
                /\ GotoWith(t, "done", s)
           ELSE /\ CallRuntime(t, "purge_pod", s, "mark_dead")
                /\ UNCHANGED store

\* Mutant of MarkDead: a failed create keeps its record in "creating".
LeaveCreating(t) ==
    /\ At(t, "mark_dead")
    /\ Goto(t, "done")
    /\ OnlyThread

\* The store half of cleanupFailedCreate.
MarkDead(t) ==
    /\ At(t, "mark_dead")
    /\ UpdateAndFinish(t, TRUE, [th[t].sess EXCEPT !.state = "dead"])

-----------------------------------------------------------------------------
(* Stop, which also serves the reaper, and Runtime.Stop.                   *)

StopGet(t) ==
    /\ At(t, "stop_get")
    /\ OnlyThread
    /\ IF Live(t) /\ store[Id(t)].state \in {"creating", "running"}
       THEN CallRuntime(t, "stop_pod", store[Id(t)], "mark_stopped")
       ELSE Goto(t, "done")

\* cleanupFailedResume ignores the error of Runtime.Stop, Stop returns it.
StopIsCleanup(t) == th[t].then = "restore_stopped"
AfterFailedStop(t) == IF StopIsCleanup(t) THEN "restore_stopped" ELSE "done"

\* Mutant of StopPod: the pod is looked up by session id, not by its name.
StopPodOfId(t) ==
    /\ At(t, "stop_pod")
    /\ StoreUnchanged
    /\ Request(t, StopIsCleanup(t), DeletePod(Id(t)),
               "stop_secret", AfterFailedStop(t))

\* The Get that precedes the delete only looks up a label, which repeats the key
\* of the pod's name; its failure is the outcome without effect of the request.
StopPod(t) ==
    /\ At(t, "stop_pod")
    /\ StoreUnchanged
    /\ Request(t, StopIsCleanup(t), DeletePod(th[t].sess.pod),
               "stop_secret", AfterFailedStop(t))

StopSecret(t) ==
    /\ At(t, "stop_secret")
    /\ StoreUnchanged
    /\ Request(t, StopIsCleanup(t), DeleteSecret(th[t].sess.pod),
               th[t].then, AfterFailedStop(t))

MarkStopped(t) ==
    /\ At(t, "mark_stopped")
    /\ UpdateAndFinish(t, FALSE, [th[t].sess EXCEPT !.state = "stopped"])

-----------------------------------------------------------------------------
(* Resume.  The new pod is named after the session and mounts the retained *)
(* workspace, which for a session that came from the pool has another key. *)

ResumeGet(t) ==
    /\ At(t, "resume_get")
    /\ OnlyThread
    /\ IF Live(t) /\ store[Id(t)].state = "stopped"
       THEN GotoWith(t, "resume_secret", store[Id(t)])
       ELSE Goto(t, "done")

ResumeSecret(t) ==
    /\ At(t, "resume_secret")
    /\ StoreUnchanged
    /\ IF secrets[Id(t)]
       THEN Refused(t, "done")
       ELSE Request(t, FALSE, CreateSecretObject(Id(t)), "resume_pod", "done")

\* An error here returns without deleting the secret just created.
ResumePod(t) ==
    /\ At(t, "resume_pod")
    /\ StoreUnchanged
    /\ IF PodExists(Id(t))
       THEN Refused(t, "done")
       ELSE Request(t, FALSE, CreatePodMounting(Id(t), th[t].sess.pvc),
                    "mark_creating", "done")

ResumedSession(t, state) ==
    [th[t].sess EXCEPT !.pod = Id(t), !.state = state]

MarkCreating(t) ==
    LET s == ResumedSession(t, "creating")
    IN  /\ At(t, "mark_creating")
        /\ UNCHANGED <<lock, idle, faults, clusterVars>>
        /\ IF CanUpdate(t, FALSE)
           THEN /\ store' = [store EXCEPT ![Id(t)] = s]
                /\ GotoWith(t, "resume_wait", s)
           ELSE /\ CallRuntime(t, "stop_pod", s, "restore_stopped")
                /\ UNCHANGED store

ResumeWait(t) ==
    /\ At(t, "resume_wait")
    /\ OnlyThread
    /\ IF Live(t) /\ pods[Id(t)].phase = "ready"
       THEN Goto(t, "mark_resumed")
       ELSE CallRuntime(t, "stop_pod", th[t].sess, "restore_stopped")

\* A failing Update here is returned without any cleanup.
MarkResumed(t) ==
    /\ At(t, "mark_resumed")
    /\ UpdateAndFinish(t, FALSE, ResumedSession(t, "running"))

\* Mutant of RestoreStopped: the pod name goes before the state is restored.
RestoreNameless(t) ==
    /\ At(t, "restore_stopped")
    /\ UpdateAndFinish(t, TRUE, [th[t].sess EXCEPT !.pod = None])

\* The store half of cleanupFailedResume: the record loses its pod name.
RestoreStopped(t) ==
    /\ At(t, "restore_stopped")
    /\ UpdateAndFinish(t, TRUE, [th[t].sess EXCEPT !.pod = None, !.state = "stopped"])

-----------------------------------------------------------------------------
(* Delete, which also serves the reaper.                                   *)

DeleteGet(t) ==
    /\ At(t, "delete_get")
    /\ OnlyThread
    /\ IF Live(t) /\ Tracked(Id(t))
       THEN CallRuntime(t, "purge_pod", store[Id(t)], "mark_deleted")
       ELSE Goto(t, "done")

MarkDeleted(t) ==
    /\ At(t, "mark_deleted")
    /\ UpdateAndFinish(t, FALSE, [th[t].sess EXCEPT !.state = "dead"])

-----------------------------------------------------------------------------
(* The specification.                                                      *)

\* WarmPool refills with sandboxes under keys nobody refers to (fresh uuids).
PoolRefills(k) ==
    /\ k \notin idle /\ ~ Leftovers(k)
    /\ \A i \in Ids : k \notin {store[i].pod, store[i].pvc}
    /\ \A t \in Threads : k \notin {th[t].sess.pod, th[t].sess.pvc}
    /\ idle' = idle \cup {k}
    /\ pods' = [pods EXCEPT ![k] = [phase |-> "ready", claim |-> k]]
    /\ pvcs' = [pvcs EXCEPT ![k] = "bound"]
    /\ secrets' = [secrets EXCEPT ![k] = TRUE]
    /\ UNCHANGED <<store, lock, th, faults>>

ClusterActs == ClusterStep /\ UNCHANGED <<store, lock, idle, th, faults>>

EnsureStep(t) == EnsureGet(t) \/ Forget(t) \/ ClearGet(t)

PurgeStep(t) == PurgePod(t) \/ PurgeSecret(t) \/ PurgeClaim(t)

CreateStep(t) ==
    \/ CountRunning(t) \/ CountCreating(t) \/ Provision(t)
    \/ ClaimWait(t) \/ ClaimCreate(t) \/ SecretCreate(t) \/ PodCreate(t)
    \/ RollbackSecret(t) \/ RollbackClaim(t)
    \/ Persist(t) \/ WaitReady(t) \/ MarkRunning(t) \/ MarkDead(t)

StopStep(t) == StopGet(t) \/ StopPod(t) \/ StopSecret(t) \/ MarkStopped(t)

ResumeStep(t) ==
    \/ ResumeGet(t) \/ ResumeSecret(t) \/ ResumePod(t)
    \/ MarkCreating(t) \/ ResumeWait(t) \/ MarkResumed(t) \/ RestoreStopped(t)

DeleteStep(t) == DeleteGet(t) \/ MarkDeleted(t)

\* What a goroutine does once it holds the lock it needs.
Progress(t) ==
    \/ EnsureStep(t) \/ PurgeStep(t) \/ CreateStep(t)
    \/ StopStep(t) \/ ResumeStep(t) \/ DeleteStep(t) \/ Return(t)

Next ==
    \/ \E t \in Threads :
         \/ \E op \in Requests, i \in Ids, want \in Wants :
              Arrive(t, op, i, want)
         \/ Cancel(t) \/ LockSession(t) \/ Progress(t)
    \/ \E k \in PoolKeys : PoolRefills(k)
    \/ ClusterActs

Spec == Init /\ [][Next]_vars

\* The scheduler runs every runnable goroutine, and a sync.Mutex hands itself
\* to a waiter that has starved.  No fairness is assumed of clients, faults,
\* the pool or the cluster: every wait in the code has a timeout.
FairSpec ==
    /\ Spec
    /\ \A t \in Threads : WF_vars(Progress(t)) /\ SF_vars(LockSession(t))

-----------------------------------------------------------------------------
(* Properties.                                                             *)

Quiet == \A t \in Threads : At(t, "idle")

\* The per-id lock and the freshness of NewID together make store.Create
\* collision-free: whoever is about to persist an id finds no record of it,
\* although Stop, Resume and Delete write the same record without the lock.
PersistNeverCollides ==
    \A t \in Threads : At(t, "persist") => ~ Tracked(Id(t))

\* Two sessions never own the same pod or workspace, and nobody owns a warm
\* sandbox that the pool may still hand out.
NoSharedSandbox ==
    /\ \A i, j \in Ids : i # j =>
         {store[i].pod, store[i].pvc} \cap {store[j].pod, store[j].pvc} \subseteq {None}
    /\ \A i \in Ids : {store[i].pod, store[i].pvc} \cap idle = {}

\* A workspace is mounted by at most one pod that is not being deleted, however
\* stops, resumes and re-creations interleave.
WorkspaceExclusive ==
    \A k, l \in Keys :
        k # l /\ PodAlive(k) /\ PodAlive(l) => pods[k].claim # pods[l].claim

\* Without faults no session is stuck in "creating": that state counts against
\* MaxRunning, so somebody must still be working on it.
CreatingIsAttended ==
    \A i \in InState("creating") : \E t \in Threads : Id(t) = i /\ ~ At(t, "idle")

\* Every request returns.
RequestsReturn == \A t \in Threads : ~ At(t, "idle") ~> At(t, "idle")

\* Where only EnsureSession and Clear run, the lock serialises everything: a
\* running record has a ready pod on its own workspace unless the holder of the
\* lock is purging it.
RunningMeansReady ==
    \A i \in InState("running") :
        \/ lock[i] # None
        \/ /\ pods[store[i].pod] = [phase |-> "ready", claim |-> store[i].pvc]
           /\ pvcs[store[i].pvc] = "bound"

\* ... and when nothing is in flight, every object that nobody has deleted
\* belongs to a session that is running, or to the pool.
NoLeakWhenQuiet ==
    Quiet => \A k \in Keys : Retained(k) =>
                k \in idle \/ \E i \in InState("running") : store[i].pod = k

\* config.go calls MaxRunning the hard cap on simultaneously running sandboxes, but
\* concurrent creations miss it.  How far, where nothing is stopped and resumed:
\* whoever is admitted has seen fewer than MaxRunning at some time, and finishes before it
\* looks again, so that there are fewer too many than there are goroutines.
OvershootIsBounded ==
    Cardinality(InState("running")) < MaxRunning + Cardinality(Threads)

\* docs/architecture.md: stopped means pod deleted, workspace retained, resumable.
\* Resume needs the name of the CA secret to be free.
StoppedIsResumable ==
    Quiet => \A i \in InState("stopped") : ~ secrets[i]

\* The warm sandboxes that have left the pool for a record that is not there yet.
Drawn == {th[t].sess.pod : t \in {u \in Threads : At(u, "persist")}} \cap PoolKeys

Contract == INSTANCE SessionContract
    WITH WarmKeys <- PoolKeys, session <- store, spare <- idle, drawn <- Drawn

\* Where only EnsureSession and Clear run, the manager keeps SessionContract: no
\* session changes its sandbox, workspace or image, none is served after it was
\* given up, and no sandbox is granted twice, although whatever a step writes to
\* a record is a clone read some steps before.
ImplementsContract == Contract!Spec
=============================================================================
