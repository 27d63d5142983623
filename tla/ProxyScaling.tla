---------------------------- MODULE ProxyScaling ----------------------------
(***************************************************************************)
(* The proxy autoscaler (internal/proxy/autoscaler.go).                    *)
(*                                                                         *)
(* All egress of the sandboxes goes through mitmproxy pods, a Deployment   *)
(* whose replicas the orchestrator sets: a timer reconciles them with the  *)
(* number of sandbox pods, down to MinReplicas (zero by default), and      *)
(* Manager.Create calls EnsureReady, which scales up and waits for a ready *)
(* proxy before the sandbox is made.  Both count, read the Deployment and  *)
(* patch it in separate requests without a lock, and the pods come and go  *)
(* meanwhile.  Resume and the warm pool make pods without EnsureReady.     *)
(***************************************************************************)
EXTENDS Integers

CONSTANTS
    Creators,      \* goroutines in Manager.Create
    Configs,       \* proxy configurations an orchestrator may be given
    MaxSandboxes,  \* bound: sandbox pods at a time
    MaxStarts,     \* bound: creations, resumes and pods for the warm pool
    MaxFaults      \* bound: failing requests and failing proxy pods

\* perProxy, minReplicas and maxReplicas as the environment sets them.
ProxyConfig == [perProxy : Int, minReplicas : Int, maxReplicas : Int]

\* Mutant: a negative minimum passes.
ValidLimits(cfg) ==
    /\ cfg.perProxy > 0
    /\ cfg.maxReplicas > 0 => cfg.minReplicas <= cfg.maxReplicas

\* The part of Config.Validate about an autoscaled proxy; with an error of it
\* the orchestrator does not start.  maxReplicas <= 0 means no limit.
Valid(cfg) ==
    /\ cfg.perProxy > 0
    /\ cfg.minReplicas >= 0
    /\ cfg.maxReplicas > 0 => cfg.minReplicas <= cfg.maxReplicas

ASSUME ProxyScalingAssumption ==
    /\ Configs \subseteq ProxyConfig
    /\ MaxSandboxes \in Nat
    /\ MaxStarts \in Nat
    /\ MaxFaults \in Nat

VARIABLES
    config,     \* the configuration the orchestrator runs with
    sandboxes,  \* sandbox pods that are not terminating
    replicas,   \* spec.replicas of the proxy Deployment
    pods,       \* its pods
    ready,      \* how many of them are ready
    scaler,     \* the goroutine of Autoscaler.Run
    creator,    \* creator[c]: a goroutine in Manager.Create
    starts,     \* sandbox pods asked for so far
    faults      \* faults so far

clusterVars == <<sandboxes, replicas, pods, ready>>
vars == <<config, clusterVars, scaler, creator, starts, faults>>

\* cleared says whether, since the creator read the Deployment, the scaler has
\* set it to no replicas or a proxy pod has failed; no step depends on it.
NoCreator == [pc |-> "idle", desired |-> 0, cleared |-> FALSE]

TypeOK ==
    /\ config \in {cfg \in Configs : Valid(cfg)}
    /\ sandboxes \in 0 .. MaxSandboxes
    /\ replicas \in Nat
    /\ pods \in Nat
    /\ ready \in 0 .. pods
    /\ scaler \in [pc : {"idle", "get", "patch"}, desired : Nat]
    /\ creator \in [Creators -> [pc : {"idle", "count", "get", "patch", "wait", "create"},
                                 desired : Nat, cleared : BOOLEAN]]
    /\ starts \in 0 .. MaxStarts
    /\ faults \in 0 .. MaxFaults

\* The manifest of the Deployment says no replicas.
Init ==
    /\ config \in {cfg \in Configs : Valid(cfg)}
    /\ sandboxes = 0
    /\ replicas = 0
    /\ pods = 0
    /\ ready = 0
    /\ scaler = [pc |-> "idle", desired |-> 0]
    /\ creator = [c \in Creators |-> NoCreator]
    /\ starts = 0
    /\ faults = 0

-----------------------------------------------------------------------------
(* How many proxies so many sandboxes need.                                *)

AtLeast(low, r) == IF r < low THEN low ELSE r

AtMost(cfg, r) ==
    IF cfg.maxReplicas > 0 /\ r > cfg.maxReplicas THEN cfg.maxReplicas ELSE r

\* Mutant: the quotient is rounded down.
RoundedDown(cfg, n) ==
    IF n <= 0 THEN cfg.minReplicas
    ELSE AtMost(cfg, AtLeast(cfg.minReplicas, n \div cfg.perProxy))

\* Mutant: without sandboxes the minimum does not count.
ScaledToZero(cfg, n) ==
    IF n <= 0 THEN 0
    ELSE AtMost(cfg, AtLeast(cfg.minReplicas, AtLeast(1, (n + cfg.perProxy - 1) \div cfg.perProxy)))

\* (The code takes 100 for a ratio that Validate refuses.)
desiredReplicas(cfg, n) ==
    LET per == IF cfg.perProxy <= 0 THEN 100 ELSE cfg.perProxy IN
    IF n <= 0 THEN cfg.minReplicas
    ELSE AtMost(cfg, AtLeast(cfg.minReplicas, AtLeast(1, (n + per - 1) \div per)))

\* What a list of the sandbox pods counts: not those that terminate.
countSandboxPods == sandboxes

Fault ==
    /\ faults < MaxFaults
    /\ faults' = faults + 1

-----------------------------------------------------------------------------
(* Run: reconcile on a timer.                                              *)

ScalerCounts ==
    /\ scaler.pc = "idle"
    /\ scaler' = [pc |-> "get", desired |-> desiredReplicas(config, countSandboxPods)]
    /\ UNCHANGED <<config, clusterVars, creator, starts, faults>>

\* Mutant: the timer only scales up.
ScalerGetsUpOnly ==
    /\ scaler.pc = "get"
    /\ scaler' = [scaler EXCEPT !.pc = IF replicas >= scaler.desired THEN "idle" ELSE "patch"]
    /\ UNCHANGED <<config, clusterVars, creator, starts, faults>>

ScalerGets ==
    /\ scaler.pc = "get"
    /\ scaler' = [scaler EXCEPT !.pc = IF replicas = scaler.desired THEN "idle" ELSE "patch"]
    /\ UNCHANGED <<config, clusterVars, creator, starts, faults>>

Clear == creator' = [c \in Creators |-> [creator[c] EXCEPT !.cleared = TRUE]]

ScalerPatches ==
    /\ scaler.pc = "patch"
    /\ replicas' = scaler.desired
    /\ scaler' = [scaler EXCEPT !.pc = "idle"]
    /\ IF scaler.desired = 0 THEN Clear ELSE UNCHANGED creator
    /\ UNCHANGED <<config, sandboxes, pods, ready, starts, faults>>

\* A request fails; the next tick tries again.
ScalerFails ==
    /\ Fault
    /\ scaler' = [scaler EXCEPT !.pc = "idle"]
    /\ UNCHANGED <<config, clusterVars, creator, starts>>

-----------------------------------------------------------------------------
(* Create and its EnsureReady.                                             *)

Advance(c, label) == creator' = [creator EXCEPT ![c].pc = label]

BeginCreate(c) ==
    /\ creator[c].pc = "idle"
    /\ starts < MaxStarts
    /\ starts' = starts + 1
    /\ Advance(c, "count")
    /\ UNCHANGED <<config, clusterVars, scaler, faults>>

CreatorCounts(c) ==
    /\ creator[c].pc = "count"
    /\ creator' = [creator EXCEPT
         ![c] = [pc |-> "get", cleared |-> FALSE,
                 desired |-> AtLeast(1, desiredReplicas(config, countSandboxPods + 1))]]
    /\ UNCHANGED <<config, clusterVars, scaler, starts, faults>>

\* scaleUpTo leaves a Deployment alone that has enough replicas.
CreatorGets(c) ==
    /\ creator[c].pc = "get"
    /\ creator' = [creator EXCEPT
         ![c].pc = IF replicas >= creator[c].desired THEN "wait" ELSE "patch",
         ![c].cleared = FALSE]
    /\ UNCHANGED <<config, clusterVars, scaler, starts, faults>>

CreatorPatches(c) ==
    /\ creator[c].pc = "patch"
    /\ replicas' = creator[c].desired
    /\ Advance(c, "wait")
    /\ UNCHANGED <<config, sandboxes, pods, ready, scaler, starts, faults>>

\* Mutant: a proxy pod counts before it is ready.
ProxyPresent == pods >= 1

\* proxyReadyCount; an error of it is no answer, and the loop goes on.
ProxyReady == ready >= 1

CreatorSeesProxy(c) ==
    /\ creator[c].pc = "wait"
    /\ ProxyReady
    /\ Advance(c, "create")
    /\ UNCHANGED <<config, clusterVars, scaler, starts, faults>>

\* The deadline passes, or the client goes away: Create fails.
CreatorTimesOut(c) ==
    /\ creator[c].pc = "wait"
    /\ creator' = [creator EXCEPT ![c] = NoCreator]
    /\ UNCHANGED <<config, clusterVars, scaler, starts, faults>>

\* A request of EnsureReady fails, and Create with it.
CreatorFails(c) ==
    /\ creator[c].pc \in {"count", "get", "patch"}
    /\ Fault
    /\ creator' = [creator EXCEPT ![c] = NoCreator]
    /\ UNCHANGED <<config, clusterVars, scaler, starts>>

\* The rest of Create: a new pod, or one of the warm pool's that was counted
\* before, or none if it fails.
CreateSandbox(c) ==
    /\ creator[c].pc = "create"
    /\ sandboxes' \in {sandboxes, sandboxes + 1} \cap 0 .. MaxSandboxes
    /\ creator' = [creator EXCEPT ![c] = NoCreator]
    /\ UNCHANGED <<config, replicas, pods, ready, scaler, starts, faults>>

-----------------------------------------------------------------------------
(* Sandbox pods that appear without EnsureReady or go away, and the        *)
(* controller of the Deployment, which removes pods that are not ready     *)
(* first.                                                                  *)

StartSandbox ==
    /\ starts < MaxStarts
    /\ sandboxes < MaxSandboxes
    /\ starts' = starts + 1
    /\ sandboxes' = sandboxes + 1
    /\ UNCHANGED <<config, replicas, pods, ready, scaler, creator, faults>>

EndSandbox ==
    /\ sandboxes > 0
    /\ sandboxes' = sandboxes - 1
    /\ UNCHANGED <<config, replicas, pods, ready, scaler, creator, starts, faults>>

AddProxy ==
    /\ pods < replicas
    /\ pods' = pods + 1
    /\ UNCHANGED <<config, sandboxes, replicas, ready, scaler, creator, starts, faults>>

RemoveProxy ==
    /\ pods > replicas
    /\ pods' = pods - 1
    /\ ready' = IF ready = pods THEN ready - 1 ELSE ready
    /\ UNCHANGED <<config, sandboxes, replicas, scaler, creator, starts, faults>>

ProxyGetsReady ==
    /\ ready < pods
    /\ ready' = ready + 1
    /\ UNCHANGED <<config, sandboxes, replicas, pods, scaler, creator, starts, faults>>

ProxyGetsUnready ==
    /\ ready > 0
    /\ Fault
    /\ ready' = ready - 1
    /\ Clear
    /\ UNCHANGED <<config, sandboxes, replicas, pods, scaler, starts>>

-----------------------------------------------------------------------------

ScalerStep == ScalerCounts \/ ScalerGets \/ ScalerPatches

\* What a creator does without a timeout or a fault.
CreatorStep(c) ==
    \/ CreatorCounts(c)
    \/ CreatorGets(c)
    \/ CreatorPatches(c)
    \/ CreatorSeesProxy(c)
    \/ CreateSandbox(c)

DeploymentStep == AddProxy \/ RemoveProxy \/ ProxyGetsReady

Next ==
    \/ ScalerStep
    \/ ScalerFails
    \/ \E c \in Creators :
          \/ BeginCreate(c)
          \/ CreatorStep(c)
          \/ CreatorTimesOut(c)
          \/ CreatorFails(c)
    \/ StartSandbox
    \/ EndSandbox
    \/ DeploymentStep
    \/ ProxyGetsUnready

Spec == Init /\ [][Next]_vars

\* The timer fires again and again, requests are answered, the controller makes
\* and removes pods, and its pods get ready.  Nothing makes anybody create or
\* end a sandbox, and no wait relies on its deadline.
Fairness ==
    /\ WF_vars(ScalerStep)
    /\ \A c \in Creators : WF_vars(CreatorStep(c))
    /\ WF_vars(AddProxy)
    /\ WF_vars(RemoveProxy)
    /\ WF_vars(ProxyGetsReady)

FairSpec == Spec /\ Fairness

-----------------------------------------------------------------------------
(* Properties.                                                             *)

\* What the count of pods is worth: desiredReplicas is the least number of
\* proxies within the limits that serves n sandboxes with at most perProxy
\* each - the greatest allowed number if none does - and at least one as soon
\* as there is a sandbox.
Serves(cfg, r, n) == r * cfg.perProxy >= n

DesiredIsLeast ==
    \A n \in 0 .. MaxSandboxes + 1 :
       LET r == desiredReplicas(config, n)
           capped == config.maxReplicas > 0 /\ r = config.maxReplicas
       IN /\ r >= config.minReplicas
          /\ config.maxReplicas > 0 => r <= config.maxReplicas
          /\ Serves(config, r, n) \/ capped
          /\ \A fewer \in config.minReplicas .. r - 1 : ~ Serves(config, fewer, n)

\* EnsureReady's promise, as far as the code keeps it: when Create goes on to
\* make the sandbox there is a ready proxy, unless the timer has meanwhile set
\* the replicas to none (its count need not be stale for that: the sandbox has
\* no pod yet) or a proxy pod has failed.  Other creators, whose counts may be
\* older, never take the proxy away.
ProxyBeforeTraffic ==
    \A c \in Creators :
       (creator[c].pc = "create" /\ ~ creator[c].cleared) => ready >= 1

\* Whatever stale counts are patched in whatever order, and after failing
\* requests, the replicas end up as what the sandboxes need.
ReplicasSettle == <>[](replicas = desiredReplicas(config, sandboxes))

\* As long as there is a sandbox - resumed and pooled ones too - a ready proxy
\* comes.
SandboxesAreServed == sandboxes > 0 ~> (ready > 0 \/ sandboxes = 0)

\* EnsureReady finds a ready proxy, and does not live on its deadline, unless
\* the timer may scale to zero while the sandbox it waits for is not there yet.
EnsureReadyFindsProxy ==
    \A c \in Creators :
       creator[c].pc = "wait" ~>
          (creator[c].pc # "wait" \/ (config.minReplicas = 0 /\ sandboxes = 0))
=============================================================================
