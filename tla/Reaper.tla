-------------------------------- MODULE Reaper --------------------------------
(***************************************************************************)
(* The lifetime of sandboxes: internal/reaper, Manager.SweepOrphans and    *)
(* the activity counts of the MCP calls, across restarts of the            *)
(* orchestrator, which keeps its sessions in memory only.                  *)
(*                                                                         *)
(* Time.  The code compares timestamps with one reading of the clock per   *)
(* pass of the reaper.  What is older than its limit is therefore settled  *)
(* when a pass begins: an object or a touch of a session dated later is    *)
(* young for the whole pass.  The model keeps, instead of timestamps, who  *)
(* is past which limit, and lets that change between passes only.          *)
(*                                                                         *)
(* The interleavings inside Create and Resume are those of                 *)
(* SandboxLifecycle; here they are cut where the reaper can see a          *)
(* difference: a claim without pod, a pod without record, a record.        *)
(***************************************************************************)
EXTENDS Cluster

CONSTANTS
    Ids,            \* canonical session ids
    PoolKeys,       \* SessionIDs of warm sandboxes; their objects keep the pool label
    Callers,        \* goroutines serving MCP calls
    MaxRestarts,    \* bound: restarts of the orchestrator
    MaxFaults       \* bound: API requests of the reaper that fail

ASSUME ReaperAssumption ==
    /\ Keys = Ids \cup PoolKeys
    /\ Ids \cap PoolKeys = {}
    /\ IsFiniteSet(Callers)
    /\ MaxRestarts \in Nat
    /\ MaxFaults \in Nat

VARIABLES
    store,      \* store[i]: the session record of i
    stock,      \* warm sandboxes of the pool
    oldPods,    \* pods "sbx-i" older than MaxLifetime
    oldClaims,  \* claims "pvc-i" older than StoppedTTL
    active,     \* active[i]: MCP calls in flight
    call,       \* call[c]: the MCP call c is serving
    rp,         \* the reaper: where it is and what it has listed
    restarts, faults

ages == <<oldPods, oldClaims>>
budget == <<restarts, faults>>
vars == <<store, stock, oldPods, oldClaims, active, call, rp, restarts, faults,
          pods, pvcs, secrets>>

-----------------------------------------------------------------------------
(* Records.                                                                *)

\* idle, overdue, expired: LastActivityAt, CreatedAt and StoppedAt are longer
\* ago than RunningTTL, MaxLifetime and StoppedTTL.
Record == [state : {"absent", "creating", "running", "stopped", "dead"},
           pod : Keys \cup {None}, pvc : Keys \cup {None},
           idle : BOOLEAN, overdue : BOOLEAN, expired : BOOLEAN]

Absent == [state |-> "absent", pod |-> None, pvc |-> None,
           idle |-> FALSE, overdue |-> FALSE, expired |-> FALSE]

CallLabels == {"idle", "create", "pod_create", "persist", "wait_ready",
               "resume", "resume_wait", "begin", "run"}

\* From its first look at the store to its last write, a call holds the lock of
\* its id.
LockLabels == CallLabels \ {"idle", "begin", "run"}

NoCall == [pc |-> "idle", id |-> None, sess |-> Absent]

SweepLabels == {"list_pods", "sweep_pods", "list_claims", "sweep_claims"}
PurgeLabels == {"purge_pod", "purge_secret", "purge_claim"}
PassLabels == {"list_running", "stop_next", "stop_pod", "stop_secret", "mark_stopped",
               "list_stopped", "delete_next", "mark_dead"}

\* known, live: ids the store and the list of pods named; todo: what is still to be
\* handled; late: the sessions in it past MaxLifetime; cur, sess, why: the one being
\* handled, its clone and the reason for stopping it; then: where Purge returns.
Waiting == [pc |-> "waiting", known |-> {}, live |-> {}, todo |-> {}, late |-> {},
            cur |-> None, sess |-> Absent, why |-> "none", then |-> "waiting"]

\* Type correctness of the reaper, the calls and the activity counts, which never
\* exceed the number of calls there are.
TypeOK ==
    /\ ClusterTypeOK
    /\ store \in [Ids -> Record]
    /\ stock \subseteq PoolKeys
    /\ oldPods \subseteq Ids /\ oldClaims \subseteq Ids
    /\ active \in [Ids -> 0 .. Cardinality(Callers)]
    /\ call \in [Callers -> [pc : CallLabels, id : Ids \cup {None}, sess : Record]]
    /\ rp \in [pc : {"waiting"} \cup SweepLabels \cup PurgeLabels \cup PassLabels,
               known : SUBSET Ids, live : SUBSET Ids, todo : SUBSET Ids,
               late : SUBSET Ids, cur : Ids \cup {None}, sess : Record,
               why : {"none", "max-lifetime", "idle"},
               then : {"waiting", "sweep_pods", "sweep_claims", "mark_dead"}]
    /\ restarts \in 0 .. MaxRestarts
    /\ faults \in 0 .. MaxFaults

Init ==
    /\ EmptyCluster
    /\ store = [i \in Ids |-> Absent]
    /\ stock = {}
    /\ oldPods = {} /\ oldClaims = {}
    /\ active = [i \in Ids |-> 0]
    /\ call = [c \in Callers |-> NoCall]
    /\ rp = Waiting
    /\ restarts = MaxRestarts
    /\ faults = MaxFaults

Tracked(i) == store[i].state # "absent"
Id(c) == call[c].id
At(c, label) == call[c].pc = label

\* The call goes on at a label with clone s, or fails.
Continue(c, label, s) == call' = [call EXCEPT ![c].pc = label, ![c].sess = s]
Fail(c) == call' = [call EXCEPT ![c] = NoCall]

\* All requests of Runtime.Create, Purge or Stop that are not told apart here.
CreateSecretAndPod(k, claim) ==
    /\ pods' = [pods EXCEPT ![k] = [phase |-> "starting", claim |-> claim]]
    /\ secrets' = [secrets EXCEPT ![k] = TRUE]
    /\ oldPods' = oldPods \ {k}
    /\ UNCHANGED <<pvcs, oldClaims>>

DeleteSecretAndPod(k) ==
    /\ pods' = IF PodExists(k) THEN [pods EXCEPT ![k].phase = "terminating"] ELSE pods
    /\ secrets' = [secrets EXCEPT ![k] = FALSE]

PurgeAll(k, claim) ==
    /\ DeleteSecretAndPod(k)
    /\ pvcs' = [pvcs EXCEPT ![claim] = IF pvcs[claim] = "none" THEN "none"
                                                               ELSE "terminating"]
    /\ UNCHANGED ages

-----------------------------------------------------------------------------
(* MCP calls: requireSession with EnsureSession, the tool, the cleanup.    *)

\* A call arrives, takes the lock of its id and looks at the store.
EnsureGet(c, i) ==
    LET s == store[i]
        Go(label, sess) == call' = [call EXCEPT ![c] = [pc |-> label, id |-> i, sess |-> sess]]
    IN  /\ At(c, "idle")
        /\ \A d \in Callers : call[d].pc \in LockLabels => Id(d) # i
        /\ \/ /\ s.state = "running"
              /\ Go("begin", s)
              /\ UNCHANGED <<store, ages, clusterVars>>
           \/ /\ s.state = "stopped"
              /\ Go("resume", s)
              /\ UNCHANGED <<store, ages, clusterVars>>
           \/ /\ s.state = "absent"
              /\ Go("create", s)
              /\ UNCHANGED <<store, ages, clusterVars>>
           \/ /\ s.state \in {"creating", "dead"}      \* purgeAndForget
              /\ Go("create", Absent)
              /\ store' = [store EXCEPT ![i] = Absent]
              /\ PurgeAll(s.pod, s.pvc)
        /\ UNCHANGED <<stock, active, rp, budget>>

NewSession(k) == [Absent EXCEPT !.state = "creating", !.pod = k, !.pvc = k]

\* Create up to the claim: a warm sandbox, a new claim, or an error because the
\* name of the claim is taken (a claim being deleted may be waited for).
Create(c) ==
    /\ At(c, "create")
    /\ \/ \E k \in stock :
            /\ stock' = stock \ {k}
            /\ Continue(c, "persist", NewSession(k))
            /\ UNCHANGED <<ages, clusterVars>>
       \/ /\ pvcs[Id(c)] = "none"
          /\ CreateClaim(Id(c))
          /\ oldClaims' = oldClaims \ {Id(c)}
          /\ Continue(c, "pod_create", NewSession(Id(c)))
          /\ UNCHANGED <<stock, oldPods>>
       \/ /\ pvcs[Id(c)] # "none"
          /\ Fail(c)
          /\ UNCHANGED <<stock, ages, clusterVars>>
    /\ UNCHANGED <<store, active, rp, budget>>

\* An error of the secret leaves the claim, one of the pod rolls it back.
PodCreate(c) ==
    LET i == Id(c)
    IN  /\ At(c, "pod_create")
        /\ \/ /\ secrets[i]
              /\ Fail(c)
              /\ UNCHANGED <<ages, clusterVars>>
           \/ /\ ~ secrets[i] /\ PodExists(i)
              /\ Fail(c)
              /\ DeleteClaim(i)
              /\ UNCHANGED ages
           \/ /\ ~ secrets[i] /\ ~ PodExists(i)
              /\ CreateSecretAndPod(i, i)
              /\ Continue(c, "persist", call[c].sess)
        /\ UNCHANGED <<store, stock, active, rp, budget>>

Persist(c) ==
    /\ At(c, "persist")
    /\ store' = [store EXCEPT ![Id(c)] = call[c].sess]
    /\ Continue(c, "wait_ready", call[c].sess)
    /\ UNCHANGED <<stock, ages, active, rp, budget, clusterVars>>

\* WaitReady and the last Update of Create; WaitReady may give up at any moment,
\* and cleanupFailedCreate follows.
WaitReady(c) ==
    LET s == call[c].sess
        running == [s EXCEPT !.state = "running"]
    IN  /\ At(c, "wait_ready")
        /\ IF pods[s.pod].phase = "ready"
           THEN /\ store' = [store EXCEPT ![Id(c)] = running]
                /\ Continue(c, "begin", running)
                /\ UNCHANGED <<ages, clusterVars>>
           ELSE /\ store' = [store EXCEPT ![Id(c)] = [s EXCEPT !.state = "dead"]]
                /\ Fail(c)
                /\ PurgeAll(s.pod, s.pvc)
        /\ UNCHANGED <<stock, active, rp, budget>>

\* Resume up to its first Update; when the name of the pod is taken the new
\* secret stays.
Resume(c) ==
    LET i == Id(c)
        s == [call[c].sess EXCEPT !.pod = i, !.state = "creating"]
    IN  /\ At(c, "resume")
        /\ \/ /\ secrets[i]
              /\ Fail(c)
              /\ UNCHANGED <<store, ages, clusterVars>>
           \/ /\ ~ secrets[i] /\ PodExists(i)
              /\ Fail(c)
              /\ CreateSecretObject(i)
              /\ UNCHANGED <<store, ages>>
           \/ /\ ~ secrets[i] /\ ~ PodExists(i)
              /\ CreateSecretAndPod(i, s.pvc)
              /\ store' = [store EXCEPT ![i] = s]
              /\ Continue(c, "resume_wait", s)
        /\ UNCHANGED <<stock, active, rp, budget>>

\* The end of Resume, or cleanupFailedResume.
ResumeWait(c) ==
    LET i == Id(c)
        running == [call[c].sess EXCEPT !.state = "running", !.idle = FALSE]
    IN  /\ At(c, "resume_wait")
        /\ IF pods[i].phase = "ready"
           THEN /\ store' = [store EXCEPT ![i] = running]
                /\ Continue(c, "begin", running)
                /\ UNCHANGED clusterVars
           ELSE /\ store' = [store EXCEPT ![i] = [call[c].sess EXCEPT !.state = "stopped",
                                                                      !.pod = None]]
                /\ Fail(c)
                /\ DeleteSecretAndPod(i)
                /\ UNCHANGED pvcs
        /\ UNCHANGED <<stock, ages, active, rp, budget>>

Touched(i) == IF Tracked(i) THEN [store EXCEPT ![i].idle = FALSE] ELSE store

\* Mutant of BeginActivity: the call is counted twice.
BeginTwice(c) ==
    /\ At(c, "begin")
    /\ active' = [active EXCEPT ![Id(c)] = @ + 2]
    /\ store' = Touched(Id(c))
    /\ Continue(c, "run", Absent)
    /\ UNCHANGED <<stock, ages, rp, budget, clusterVars>>

BeginActivity(c) ==
    /\ At(c, "begin")
    /\ active' = [active EXCEPT ![Id(c)] = @ + 1]
    /\ store' = Touched(Id(c))
    /\ Continue(c, "run", Absent)
    /\ UNCHANGED <<stock, ages, rp, budget, clusterVars>>

EndActivity(c) ==
    /\ At(c, "run")
    /\ active' = [active EXCEPT ![Id(c)] = IF @ <= 1 THEN 0 ELSE @ - 1]
    /\ store' = Touched(Id(c))
    /\ Fail(c)
    /\ UNCHANGED <<stock, ages, rp, budget, clusterVars>>

-----------------------------------------------------------------------------
(* The sweep of orphans, which opens every pass.                           *)

ReaperOnly == UNCHANGED <<store, stock, ages, active, call, restarts>>

\* The requests of the reaper may fail.
MayFail(rest) ==
    /\ faults > 0
    /\ faults' = faults - 1
    /\ rp' = rest
    /\ UNCHANGED <<store, clusterVars>>

ToRunning == [Waiting EXCEPT !.pc = "list_running"]

\* SweepOrphans lists the sessions first.
StartPass ==
    /\ rp.pc = "waiting"
    /\ rp' = [rp EXCEPT !.pc = "list_pods", !.known = {i \in Ids : Tracked(i)}]
    /\ ReaperOnly /\ UNCHANGED <<faults, clusterVars>>

\* What carries the label of the pool is skipped, a pod being deleted is not listed.
AlivePods == {i \in Ids : PodAlive(i)}

\* Mutant of ListPods: no grace for young pods.
ListPodsWithoutGrace ==
    /\ rp.pc = "list_pods"
    /\ rp' = [rp EXCEPT !.pc = "sweep_pods", !.live = AlivePods,
                        !.todo = AlivePods \ rp.known]
    /\ ReaperOnly /\ UNCHANGED <<faults, clusterVars>>

ListPods ==
    /\ rp.pc = "list_pods"
    /\ ReaperOnly
    /\ \/ /\ rp' = [rp EXCEPT !.pc = "sweep_pods", !.live = AlivePods,
                              !.todo = (AlivePods \ rp.known) \cap oldPods]
          /\ UNCHANGED <<faults, clusterVars>>
       \/ MayFail(ToRunning)

\* Purge of the objects named after k, as the references of both lists name them.
SweepNext(label, after) ==
    /\ rp.pc = label
    /\ ReaperOnly /\ UNCHANGED <<faults, clusterVars>>
    /\ \/ \E k \in rp.todo :
            rp' = [rp EXCEPT !.pc = "purge_pod", !.todo = @ \ {k}, !.cur = k,
                             !.sess = [Absent EXCEPT !.pod = k, !.pvc = k], !.then = label]
       \/ rp.todo = {} /\ rp' = after

SweepPods == SweepNext("sweep_pods", [rp EXCEPT !.pc = "list_claims"])

ListClaims ==
    /\ rp.pc = "list_claims"
    /\ ReaperOnly
    /\ LET claims == {i \in Ids : pvcs[i] = "bound"}
       IN  \/ /\ rp' = [Waiting EXCEPT !.pc = "sweep_claims",
                          !.todo = (claims \ (rp.known \cup rp.live)) \cap oldClaims]
              /\ UNCHANGED <<faults, clusterVars>>
           \/ MayFail(ToRunning)

SweepClaims == SweepNext("sweep_claims", ToRunning)

-----------------------------------------------------------------------------
(* Runtime.Purge for the sweep and for Delete; an error ends it and the    *)
(* reaper goes on with the next sandbox.                                   *)

PurgeDone(to) == [rp EXCEPT !.pc = to, !.cur = IF to = "mark_dead" THEN @ ELSE None,
                            !.sess = IF to = "mark_dead" THEN @ ELSE Absent,
                            !.then = "waiting"]
AfterFailedPurge == IF rp.then = "mark_dead" THEN "delete_next" ELSE rp.then

ReaperRequest(label, Effect, next) ==
    /\ rp.pc = label
    /\ ReaperOnly
    /\ \/ Effect /\ rp' = next /\ UNCHANGED faults
       \/ MayFail(PurgeDone(AfterFailedPurge))

\* The client library refuses an empty name.
PurgePod ==
    \/ /\ rp.sess.pod # None
       /\ ReaperRequest("purge_pod", DeletePod(rp.sess.pod), [rp EXCEPT !.pc = "purge_secret"])
    \/ /\ rp.pc = "purge_pod" /\ rp.sess.pod = None
       /\ rp' = PurgeDone(AfterFailedPurge)
       /\ ReaperOnly /\ UNCHANGED <<faults, clusterVars>>

PurgeSecret ==
    ReaperRequest("purge_secret", DeleteSecret(rp.sess.pod), [rp EXCEPT !.pc = "purge_claim"])

\* Mutant of PurgeClaim: the workspace stays.
PurgeKeepingClaim ==
    ReaperRequest("purge_claim", UNCHANGED clusterVars, PurgeDone(rp.then))

PurgeClaim ==
    ReaperRequest("purge_claim", DeleteClaim(rp.sess.pvc), PurgeDone(rp.then))

-----------------------------------------------------------------------------
(* Running sessions are stopped, stopped ones deleted.  The reaper decides *)
(* on the clones it listed, except for the count of active calls.          *)

ListRunning ==
    LET listed == {i \in Ids : store[i].state = "running"}
    IN  /\ rp.pc = "list_running"
        /\ rp' = [rp EXCEPT !.pc = "stop_next",
                     !.todo = {i \in listed : store[i].overdue \/ store[i].idle},
                     !.late = {i \in listed : store[i].overdue}]
        /\ ReaperOnly /\ UNCHANGED <<faults, clusterVars>>

\* runningExpired and the Get of Manager.Stop.
StopNext ==
    /\ rp.pc = "stop_next"
    /\ ReaperOnly /\ UNCHANGED <<faults, clusterVars>>
    /\ \/ rp.todo = {} /\ rp' = [Waiting EXCEPT !.pc = "list_stopped"]
       \/ \E i \in rp.todo :
            LET expired == i \in rp.late \/ active[i] = 0
                stoppable == store[i].state \in {"creating", "running"}
            IN  rp' = IF expired /\ stoppable
                      THEN [rp EXCEPT !.pc = "stop_pod", !.todo = @ \ {i}, !.cur = i,
                                      !.sess = store[i],
                                      !.why = IF i \in rp.late THEN "max-lifetime" ELSE "idle"]
                      ELSE [rp EXCEPT !.todo = @ \ {i}]

StopDone == [rp EXCEPT !.pc = "stop_next", !.cur = None, !.sess = Absent, !.why = "none"]

StopPod ==
    /\ rp.pc = "stop_pod"
    /\ ReaperOnly
    /\ \/ DeletePod(rp.sess.pod) /\ rp' = [rp EXCEPT !.pc = "stop_secret"] /\ UNCHANGED faults
       \/ MayFail(StopDone)

StopSecret ==
    /\ rp.pc = "stop_secret"
    /\ ReaperOnly
    /\ \/ DeleteSecret(rp.sess.pod) /\ rp' = [rp EXCEPT !.pc = "mark_stopped"] /\ UNCHANGED faults
       \/ MayFail(StopDone)

Updated(i, s) == IF Tracked(i) THEN [store EXCEPT ![i] = s] ELSE store

\* The idle limit means nothing to a stopped session, and Resume resets it.
MarkStopped ==
    /\ rp.pc = "mark_stopped"
    /\ store' = Updated(rp.cur, [rp.sess EXCEPT !.state = "stopped", !.expired = FALSE,
                                                  !.idle = FALSE])
    /\ rp' = StopDone
    /\ UNCHANGED <<stock, ages, active, call, budget, clusterVars>>

ListStopped ==
    /\ rp.pc = "list_stopped"
    /\ rp' = [rp EXCEPT !.pc = "delete_next",
                        !.todo = {i \in Ids : store[i].state = "stopped" /\ store[i].expired}]
    /\ ReaperOnly /\ UNCHANGED <<faults, clusterVars>>

\* The Get of Manager.Delete, which purges the session in whatever state it is.
DeleteNext ==
    /\ rp.pc = "delete_next"
    /\ ReaperOnly /\ UNCHANGED <<faults, clusterVars>>
    /\ \/ rp.todo = {} /\ rp' = Waiting
       \/ \E i \in rp.todo :
            rp' = IF Tracked(i)
                  THEN [rp EXCEPT !.pc = "purge_pod", !.todo = @ \ {i}, !.cur = i,
                                  !.sess = store[i], !.then = "mark_dead"]
                  ELSE [rp EXCEPT !.todo = @ \ {i}]

MarkDead ==
    /\ rp.pc = "mark_dead"
    /\ store' = Updated(rp.cur, [rp.sess EXCEPT !.state = "dead"])
    /\ rp' = PurgeDone("delete_next")
    /\ UNCHANGED <<stock, ages, active, call, budget, clusterVars>>

ReaperStep ==
    \/ StartPass \/ ListPods \/ SweepPods \/ ListClaims \/ SweepClaims
    \/ PurgePod \/ PurgeSecret \/ PurgeClaim
    \/ ListRunning \/ StopNext \/ StopPod \/ StopSecret \/ MarkStopped
    \/ ListStopped \/ DeleteNext \/ MarkDead

-----------------------------------------------------------------------------
(* Time, the pool, restarts, the cluster.                                  *)

\* The limits are hours, the provisioning of a sandbox and a pass of the reaper
\* minutes at most: no limit of a sandbox passes meanwhile.
Quiet(i) ==
    rp.pc = "waiting" /\ \A c \in Callers : Id(c) = i => At(c, "run")

\* The limits that apply to a session in its state.
Limits(s) ==
    CASE s.state = "running" -> {"idle", "overdue"}
      [] s.state = "stopped" -> {"overdue", "expired"}
      [] OTHER -> {}

\* s once the given limits have passed.
Past(s, limits) ==
    [s EXCEPT !.idle = @ \/ "idle" \in limits, !.overdue = @ \/ "overdue" \in limits,
              !.expired = @ \/ "expired" \in limits]

\* One limit of one session, pod or claim passes ...
SomeTimePasses ==
    /\ \/ \E i \in Ids : \E limit \in Limits(store[i]) :
            /\ Quiet(i)
            /\ store' = [store EXCEPT ![i] = Past(@, {limit})]
            /\ UNCHANGED ages
       \/ \E i \in Ids :
            /\ Quiet(i) /\ PodExists(i)
            /\ oldPods' = oldPods \cup {i}
            /\ UNCHANGED <<store, oldClaims>>
       \/ \E i \in Ids :
            /\ Quiet(i) /\ pvcs[i] # "none"
            /\ oldClaims' = oldClaims \cup {i}
            /\ UNCHANGED <<store, oldPods>>
    /\ UNCHANGED <<stock, active, call, rp, budget, clusterVars>>

\* ... or all of them.
MuchTimePasses ==
    /\ \A i \in Ids : Quiet(i)
    /\ oldPods' = {i \in Ids : PodExists(i)}
    /\ oldClaims' = {i \in Ids : pvcs[i] # "none"}
    /\ store' = [i \in Ids |-> Past(store[i], Limits(store[i]))]
    /\ UNCHANGED <<stock, active, call, rp, budget, clusterVars>>

PoolRefills(k) ==
    /\ k \notin stock /\ ~ Leftovers(k)
    /\ \A i \in Ids : k \notin {store[i].pod, store[i].pvc}
    /\ \A c \in Callers : k \notin {call[c].sess.pod, call[c].sess.pvc}
    /\ k \notin {rp.sess.pod, rp.sess.pvc}
    /\ stock' = stock \cup {k}
    /\ pods' = [pods EXCEPT ![k] = [phase |-> "ready", claim |-> k]]
    /\ pvcs' = [pvcs EXCEPT ![k] = "bound"]
    /\ secrets' = [secrets EXCEPT ![k] = TRUE]
    /\ UNCHANGED <<store, ages, active, call, rp, budget>>

\* The process ends and starts again: everything it kept in memory is gone.
Restart ==
    /\ restarts > 0
    /\ restarts' = restarts - 1
    /\ store' = [i \in Ids |-> Absent]
    /\ stock' = {}
    /\ active' = [i \in Ids |-> 0]
    /\ call' = [c \in Callers |-> NoCall]
    /\ rp' = Waiting
    /\ UNCHANGED <<ages, faults, clusterVars>>

ClusterActs == ClusterStep /\ UNCHANGED <<store, stock, ages, active, call, rp, budget>>

CallStep(c) ==
    \/ Create(c) \/ PodCreate(c) \/ Persist(c) \/ WaitReady(c)
    \/ Resume(c) \/ ResumeWait(c) \/ BeginActivity(c) \/ EndActivity(c)

Next ==
    \/ \E c \in Callers : CallStep(c) \/ \E i \in Ids : EnsureGet(c, i)
    \/ ReaperStep
    \/ \E k \in PoolKeys : PoolRefills(k)
    \/ SomeTimePasses \/ MuchTimePasses \/ Restart \/ ClusterActs

Spec == Init /\ [][Next]_vars

\* The ticker keeps firing, calls go on, time passes and the cluster works.
FairSpec ==
    /\ Spec
    /\ WF_vars(ReaperStep) /\ SF_vars(MuchTimePasses) /\ WF_vars(ClusterActs)
    /\ \A c \in Callers : WF_vars(CallStep(c))

-----------------------------------------------------------------------------
(* Properties.                                                             *)

\* Objects that a session or a creation in progress uses.
UsedPods == {store[i].pod : i \in {j \in Ids : store[j].state \in {"creating", "running"}}}
            \cup {call[c].sess.pod : c \in {d \in Callers : At(d, "persist")}}
UsedClaims == {store[i].pvc : i \in {j \in Ids : store[j].state \in {"creating", "running", "stopped"}}}
              \cup {call[c].sess.pvc : c \in {d \in Callers : call[d].pc \in {"pod_create", "persist"}}}

\* The sweep never deletes the pod of a session or of a creation that is not
\* recorded yet, nor a workspace it took for abandoned, although it lists the
\* sessions, the pods and the claims one after the other while calls go on.  (The
\* claim it deletes after an orphan pod may be a new one: see the README.)
SweepSparesSandboxes ==
    /\ rp.pc = "purge_pod" /\ rp.then # "mark_dead" => rp.cur \notin UsedPods
    /\ rp.pc = "purge_claim" /\ rp.then = "sweep_claims" => rp.cur \notin UsedClaims

Gone(k) == ~ PodAlive(k) /\ pvcs[k] # "bound"

\* Three ways out of the reaper's sight: a session that cleanupFailedResume left
\* without a pod name, which Purge refuses; a tombstone whose sandbox was resumed
\* while Delete purged it; and a tombstone of a warm sandbox, under whose id the
\* leftovers of a restart count as known.
OutOfSight(i) ==
    \/ store[i].state = "stopped" /\ store[i].pod = None
    \/ store[i].state = "dead" /\ PodAlive(i)
    \/ store[i].state = "dead" /\ store[i].pvc # i

\* Objects that no record and no pool refers to.
Orphaned(k) ==
    /\ ~ Gone(k)
    /\ k \notin stock
    /\ \A i \in Ids : k \notin {store[i].pod, store[i].pvc}

\* One more for a warm sandbox, whose label the sweep skips whoever has it: the
\* process that knew it has ended.  A session of the first kind keeps one, too.
WarmOutOfSight(k) ==
    \/ restarts < MaxRestarts /\ Orphaned(k)
    \/ \E i \in Ids : store[i].state = "stopped" /\ store[i].pod = None /\ store[i].pvc = k

Deserted == <>[](\A c \in Callers : At(c, "idle"))

\* Once the clients stay away, idle sandboxes are stopped, stopped ones deleted
\* and those the store has forgotten swept, until nothing remains but what is
\* named: the stock of the pool and what is out of the reaper's sight.  Restarts
\* may fall between any two steps; requests of the reaper may fail, those of the
\* calls do not.
DesertedSandboxesEnd ==
    Deserted => <>[](/\ \A i \in Ids : Gone(i) \/ OutOfSight(i)
                     /\ \A k \in PoolKeys : Gone(k) \/ k \in stock \/ WarmOutOfSight(k))

\* README.md: "a self-healing sweep reconciles against Kubernetes so restarts never
\* leak orphans": once the clients stay away, every orphan goes.
RestartsLeakNoOrphans == Deserted => <>[](\A k \in Keys : ~ Orphaned(k))

\* config.go: "Stopped sandboxes are purged (PVC + metadata deleted) after this
\* duration": once the clients stay away, a session does not stay stopped for ever.
StoppedSandboxesArePurged ==
    Deserted => \A i \in Ids : store[i].state = "stopped" ~> store[i].state # "stopped"

\* manager.go: HasActiveCalls is there "so an idle-timeout never fires mid-call":
\* no pod is deleted for being idle while a call on its session is in flight.
NeverIdleMidCall ==
    [][rp.pc = "stop_pod" /\ rp'.pc = "stop_secret" /\ rp.why = "idle"
        => active[rp.cur] = 0]_vars
=============================================================================
