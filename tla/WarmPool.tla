------------------------------- MODULE WarmPool -------------------------------
(***************************************************************************)
(* internal/pool: the warm pool keeps TargetIdle default-image sandboxes   *)
(* ready.  One background goroutine tops the pool up; requests take        *)
(* sandboxes out at any time.  The mutex of the pool guards idle and       *)
(* warming, but it is free while a sandbox is being created, which takes   *)
(* tens of seconds.                                                        *)
(*                                                                         *)
(* A warm sandbox has a SessionID of its own ("pool-<uuid>") that nobody   *)
(* else knows until it is in idle.  Runtime.Create is one action per API   *)
(* request all the same: the requests go out on the context of the server, *)
(* and the shutdown may cancel it between any two of them, or while one is *)
(* under way.  Runtime.Purge has a context of its own and is one step with *)
(* each of its outcomes.                                                   *)
(*                                                                         *)
(* The module follows one process while it lives.  main waits for the HTTP *)
(* server only, so the process may end at any moment after the shutdown:   *)
(* the goroutine then takes no further step, and what idle and handle      *)
(* refer to is left to the next process (Reaper, Restart).                 *)
(***************************************************************************)
EXTENDS Cluster, Sequences

CONSTANTS
    Starters,       \* goroutines that may call Start
    MinIdleReady,   \* config
    MaxRunning,     \* config; 0 means no cap
    MaxTaken,       \* bound: Acquire calls that succeed
    MaxFaults,      \* bound: API requests that fail
    MaxTimeouts     \* bound: pods that do not get ready in 90 seconds

ASSUME PoolAssumption ==
    /\ MinIdleReady \in Nat
    /\ MaxRunning \in Nat
    /\ MaxTaken \in Nat
    /\ MaxFaults \in Nat
    /\ MaxTimeouts \in Nat

VARIABLES
    idle,       \* the queue of handles
    warming,    \* slots reserved for sandboxes being created
    started,    \* whether Start has run
    pc,         \* pc[r]: where the goroutine started by r is
    handle,     \* handle[r]: the sandbox it is creating, or None
    used,       \* uuids drawn so far
    taken,      \* sandboxes handed out
    shutdown,   \* whether the server context is cancelled
    faults,     \* how many requests may still fail
    timeouts    \* how many pods may still be too slow

poolVars == <<idle, warming, started, pc, handle, used, taken, shutdown, faults, timeouts>>
vars == <<idle, warming, started, pc, handle, used, taken, shutdown, faults, timeouts,
          pods, pvcs, secrets>>

\* Labels at which the goroutine has the sandbox of a handle to care for.
CaringLabels == {"create_secret", "create_pod", "rollback_secret", "rollback_claim",
                 "wait_ready", "purge"}

\* Labels at which the goroutine has a warming slot.
WarmingLabels == CaringLabels \cup {"create", "finish"}

Labels == WarmingLabels \cup {"off", "returned", "replenish", "ticking", "stopped"}

\* Type correctness of the pool, which includes that one goroutine at most is
\* creating one sandbox, however often Start is called.
TypeOK ==
    /\ ClusterTypeOK
    /\ idle \in Seq(Keys)
    /\ warming \in {0, 1}      \* one goroutine, one sandbox at a time
    /\ started \in BOOLEAN
    /\ pc \in [Starters -> Labels]
    /\ handle \in [Starters -> Keys \cup {None}]
    /\ used \in SUBSET Keys
    /\ taken \in SUBSET Keys
    /\ shutdown \in BOOLEAN
    /\ faults \in Nat
    /\ timeouts \in Nat

Init ==
    /\ EmptyCluster
    /\ idle = <<>>
    /\ warming = 0
    /\ started = FALSE
    /\ pc = [r \in Starters |-> "off"]
    /\ handle = [r \in Starters |-> None]
    /\ used = {}
    /\ taken = {}
    /\ shutdown = FALSE
    /\ faults = MaxFaults
    /\ timeouts = MaxTimeouts

TargetIdle == IF MaxRunning > 0 /\ MinIdleReady > MaxRunning THEN MaxRunning
                                                             ELSE MinIdleReady

Goto(r, label) == pc' = [pc EXCEPT ![r] = label]

-----------------------------------------------------------------------------
(* The replenisher.                                                        *)

\* Mutant of Start: every call launches a goroutine.
StartAgain(r) ==
    /\ pc[r] = "off"
    /\ started' = TRUE
    /\ Goto(r, "replenish")
    /\ UNCHANGED <<idle, warming, handle, used, taken, shutdown, faults, timeouts, clusterVars>>

\* Only the first call of Start launches the goroutine.
Start(r) ==
    /\ pc[r] = "off"
    /\ started' = TRUE
    /\ Goto(r, IF started THEN "returned" ELSE "replenish")
    /\ UNCHANGED <<idle, warming, handle, used, taken, shutdown, faults, timeouts, clusterVars>>

\* The select of run takes either branch when both are ready.
Tick(r) ==
    /\ pc[r] = "ticking"
    /\ \/ Goto(r, "replenish")
       \/ shutdown /\ Goto(r, "stopped")
    /\ UNCHANGED <<idle, warming, started, handle, used, taken, shutdown, faults, timeouts, clusterVars>>

\* Mutant of ReserveWarmingSlot: reserves at the target too.
ReserveOneMore(r) ==
    /\ pc[r] = "replenish"
    /\ IF Len(idle) + warming > TargetIdle
       THEN Goto(r, "ticking") /\ UNCHANGED warming
       ELSE Goto(r, "create") /\ warming' = warming + 1
    /\ UNCHANGED <<idle, started, handle, used, taken, shutdown, faults, timeouts, clusterVars>>

ReserveWarmingSlot(r) ==
    /\ pc[r] = "replenish"
    /\ IF Len(idle) + warming >= TargetIdle
       THEN Goto(r, "ticking") /\ UNCHANGED warming
       ELSE Goto(r, "create") /\ warming' = warming + 1
    /\ UNCHANGED <<idle, started, handle, used, taken, shutdown, faults, timeouts, clusterVars>>

\* A request on the context of the server.  It is answered; or it fails, with or
\* without an effect; or the context is cancelled, before it is sent or between
\* its effect and its answer.
Answered(effect) == ~ shutdown /\ effect /\ UNCHANGED <<shutdown, faults>>

Fails(effect) ==
    /\ faults > 0
    /\ faults' = faults - 1
    /\ effect \/ UNCHANGED clusterVars
    /\ UNCHANGED shutdown

Cancelled(effect) ==
    /\ IF shutdown THEN UNCHANGED clusterVars ELSE effect
    /\ shutdown' = TRUE
    /\ UNCHANGED faults

Refused(effect) == Fails(effect) \/ Cancelled(effect)

\* createOne gives up without a handle.
Forget(r) ==
    /\ handle' = [handle EXCEPT ![r] = None]
    /\ Goto(r, "finish")

\* Runtime.Create of createOne, with a uuid nobody has: the claim ...
CreateWarmClaim(r) ==
    /\ pc[r] = "create"
    /\ \E k \in Keys \ used :
         /\ used' = used \cup {k}
         /\ \/ /\ Answered(CreateClaim(k))
               /\ handle' = [handle EXCEPT ![r] = k]
               /\ Goto(r, "create_secret")
            \/ Refused(CreateClaim(k)) /\ Forget(r)
    /\ UNCHANGED <<idle, warming, started, taken, timeouts>>

\* ... the secret, whose error leaves the claim behind ...
CreateWarmSecret(r) ==
    LET request == CreateSecretObject(handle[r])
    IN  /\ pc[r] = "create_secret"
        /\ \/ Answered(request) /\ Goto(r, "create_pod") /\ UNCHANGED handle
           \/ Refused(request) /\ Forget(r)
        /\ UNCHANGED <<idle, warming, started, used, taken, timeouts>>

\* ... and the pod, whose error is answered by a rollback.
CreateWarmPod(r) ==
    LET request == CreatePodMounting(handle[r], handle[r])
    IN  /\ pc[r] = "create_pod"
        /\ \/ Answered(request) /\ Goto(r, "wait_ready")
           \/ Refused(request) /\ Goto(r, "rollback_secret")
        /\ UNCHANGED <<idle, warming, started, handle, used, taken, timeouts>>

\* A request on a background context: no shutdown stops it, its error is ignored.
InBackground(effect) ==
    \/ effect /\ UNCHANGED <<shutdown, faults>>
    \/ Fails(effect)

RollBackSecret(r) ==
    /\ pc[r] = "rollback_secret"
    /\ InBackground(DeleteSecret(handle[r]))
    /\ Goto(r, "rollback_claim")
    /\ UNCHANGED <<idle, warming, started, handle, used, taken, timeouts>>

RollBackClaim(r) ==
    /\ pc[r] = "rollback_claim"
    /\ InBackground(DeleteClaim(handle[r]))
    /\ Forget(r)
    /\ UNCHANGED <<idle, warming, started, used, taken, timeouts>>

WaitReady(r) ==
    /\ pc[r] = "wait_ready"
    /\ \/ /\ ~ shutdown /\ pods[handle[r]].phase = "ready"
          /\ Goto(r, "finish")
          /\ UNCHANGED timeouts
       \/ /\ shutdown
          /\ Goto(r, "purge")
          /\ UNCHANGED timeouts
       \/ /\ pods[handle[r]].phase # "ready" /\ timeouts > 0
          /\ timeouts' = timeouts - 1
          /\ Goto(r, "purge")
    /\ UNCHANGED <<idle, warming, started, handle, used, taken, shutdown, faults, clusterVars>>

\* Mutant of PurgeOne: the sandbox that never got ready is forgotten.
AbandonOne(r) ==
    /\ pc[r] = "purge"
    /\ handle' = [handle EXCEPT ![r] = None]
    /\ Goto(r, "finish")
    /\ UNCHANGED <<idle, warming, started, used, taken, shutdown, faults, timeouts, clusterVars>>

\* Runtime.Purge deletes the pod, the secret and the claim in this order and
\* stops at the first error.
PurgeFails(k) ==
    /\ pods' \in {pods, [pods EXCEPT ![k].phase = "terminating"]}
    /\ secrets' \in {secrets, [secrets EXCEPT ![k] = FALSE]}
    /\ secrets' # secrets => pods' # pods
    /\ UNCHANGED pvcs

\* Runtime.Purge on a background context, its error ignored.
PurgeOne(r) ==
    LET k == handle[r]
    IN  /\ pc[r] = "purge"
        /\ handle' = [handle EXCEPT ![r] = None]
        /\ Goto(r, "finish")
        /\ \/ /\ pods' = [pods EXCEPT ![k].phase = "terminating"]
              /\ secrets' = [secrets EXCEPT ![k] = FALSE]
              /\ pvcs' = [pvcs EXCEPT ![k] = "terminating"]
              /\ UNCHANGED faults
           \/ /\ faults > 0
              /\ faults' = faults - 1
              /\ PurgeFails(k)
        /\ UNCHANGED <<idle, warming, started, used, taken, shutdown, timeouts>>

\* Mutant of FinishWarming: a failed creation keeps its slot.
FinishKeepingSlot(r) ==
    /\ pc[r] = "finish"
    /\ warming' = IF handle[r] # None /\ warming > 0 THEN warming - 1 ELSE warming
    /\ idle' = IF handle[r] # None /\ Len(idle) < TargetIdle
               THEN Append(idle, handle[r]) ELSE idle
    /\ handle' = [handle EXCEPT ![r] = None]
    /\ Goto(r, IF handle[r] # None THEN "replenish" ELSE "ticking")
    /\ UNCHANGED <<started, used, taken, shutdown, faults, timeouts, clusterVars>>

\* A ready sandbox goes to the end of the queue - unless the queue is full, in
\* which case nobody would refer to it any more.  After a success replenish
\* tries for the next slot, after a failure it waits for the next tick.
FinishWarming(r) ==
    /\ pc[r] = "finish"
    /\ warming' = IF warming > 0 THEN warming - 1 ELSE 0
    /\ idle' = IF handle[r] # None /\ Len(idle) < TargetIdle
               THEN Append(idle, handle[r]) ELSE idle
    /\ handle' = [handle EXCEPT ![r] = None]
    /\ Goto(r, IF handle[r] # None THEN "replenish" ELSE "ticking")
    /\ UNCHANGED <<started, used, taken, shutdown, faults, timeouts, clusterVars>>

-----------------------------------------------------------------------------
(* The requests, the server and the cluster.                               *)

\* Mutant of Acquire: the oldest handle stays in the queue.
AcquireKeeping ==
    /\ idle # <<>>
    /\ Cardinality(taken) < MaxTaken
    /\ taken' = taken \cup {Head(idle)}
    /\ UNCHANGED <<idle, warming, started, pc, handle, used, shutdown, faults, timeouts, clusterVars>>

\* Acquire by a request that wants the default image; others get nothing.
Acquire ==
    /\ idle # <<>>
    /\ Cardinality(taken) < MaxTaken
    /\ taken' = taken \cup {Head(idle)}
    /\ idle' = Tail(idle)
    /\ UNCHANGED <<warming, started, pc, handle, used, shutdown, faults, timeouts, clusterVars>>

Shutdown ==
    /\ shutdown' = TRUE
    /\ UNCHANGED <<idle, warming, started, pc, handle, used, taken, faults, timeouts, clusterVars>>

ClusterActs == ClusterStep /\ UNCHANGED poolVars

Replenisher(r) ==
    \/ Tick(r) \/ ReserveWarmingSlot(r)
    \/ CreateWarmClaim(r) \/ CreateWarmSecret(r) \/ CreateWarmPod(r)
    \/ RollBackSecret(r) \/ RollBackClaim(r)
    \/ WaitReady(r) \/ PurgeOne(r) \/ FinishWarming(r)

Next ==
    \/ \E r \in Starters : Start(r) \/ Replenisher(r)
    \/ Acquire \/ Shutdown \/ ClusterActs

Spec == Init /\ [][Next]_vars

\* main calls Start; the goroutine, the ticker and the cluster keep going.
FairSpec ==
    /\ Spec
    /\ \A r \in Starters : WF_vars(Start(r)) /\ WF_vars(Replenisher(r))
    /\ WF_vars(ClusterActs)

-----------------------------------------------------------------------------
(* Properties.                                                             *)

Stock == {idle[n] : n \in DOMAIN idle}

\* Sandboxes waiting and sandboxes on the way never exceed the target, so the
\* pool cannot overshoot while a slow creation is in progress.
PoolBound == Len(idle) + warming <= TargetIdle

\* finishWarming silently drops a ready sandbox when the queue is full; the
\* reserved slot guarantees that this branch is never taken.
FinishNeverDrops ==
    \A r \in Starters : pc[r] = "finish" /\ handle[r] # None => Len(idle) < TargetIdle

\* Sandboxes with objects nobody has asked Kubernetes to delete and nobody
\* refers to, not the replenisher either: the sweep skips them for ever.
Lost == {k \in Keys : /\ Retained(k)
                      /\ k \notin Stock \cup taken \cup {handle[r] : r \in Starters}}

\* Until an API request fails, the living process loses no sandbox, pods that
\* never got ready included, before the shutdown; and the shutdown, which may
\* cut Runtime.Create short between or within its requests, costs one at most,
\* however many ticks the ticker wins against the cancelled context after it.
NoLostSandbox ==
    faults = MaxFaults =>
        /\ shutdown \/ Lost = {}
        /\ \A k, l \in Lost : k = l

\* The pool implements its contract: nothing is handed out twice.
Contract == INSTANCE PoolContract WITH stock <- Stock, Limit <- TargetIdle
ImplementsContract == Contract!Spec

\* Once requests stop taking sandboxes and the faults are over, the pool is full
\* for good: no failure may cost it a slot.
PoolFills == <>shutdown \/ <>[](Len(idle) = TargetIdle)
=============================================================================
