-------------------------- MODULE ProxyScalingProofs --------------------------
(***************************************************************************)
(* Theorems about ProxyScaling, for every set of creators and              *)
(* configurations and every bound.                                         *)
(***************************************************************************)
EXTENDS ProxyScaling, TLAPS

-----------------------------------------------------------------------------
(* How many proxies so many sandboxes need.                                *)

\* n sandboxes, per of them to a proxy, fit into the rounded-up quotient and
\* into nothing less.
LEMMA RoundedUp ==
    ASSUME NEW n \in Nat, NEW per \in Nat, per > 0
    PROVE  LET q == (n + per - 1) \div per
           IN q \in Int /\ q * per >= n /\ (q - 1) * per < n
  OBVIOUS

\* More proxies serve no fewer sandboxes.
LEMMA MoreServeMore ==
    ASSUME NEW r \in Int, NEW q \in Int, NEW per \in Nat, r <= q
    PROVE  r * per <= q * per
  OBVIOUS

\* desiredReplicas under a configuration that Validate accepts.
LEMMA DesiredIsNumber ==
    ASSUME NEW cfg \in Configs, Valid(cfg), NEW n \in Nat
    PROVE  /\ desiredReplicas(cfg, n) \in Nat
           /\ n > 0 => desiredReplicas(cfg, n) >= 1
<1>1. /\ cfg.perProxy \in Int /\ cfg.perProxy > 0
      /\ cfg.minReplicas \in Int /\ cfg.minReplicas >= 0
      /\ cfg.maxReplicas \in Int
  BY ProxyScalingAssumption DEF ProxyConfig, Valid
<1> DEFINE q == (n + cfg.perProxy - 1) \div cfg.perProxy
<1>2. q \in Int
  BY <1>1, RoundedUp
<1>3. AtLeast(1, q) \in Nat /\ AtLeast(1, q) >= 1
  BY <1>2 DEF AtLeast
<1> HIDE DEF q
<1>4. CASE n = 0
  BY <1>1, <1>4 DEF desiredReplicas
<1>5. CASE n > 0
  <2> DEFINE r == AtLeast(cfg.minReplicas, AtLeast(1, q))
  <2>1. r \in Nat /\ r >= 1
    BY <1>1, <1>3 DEF AtLeast
  <2> HIDE DEF r
  <2>2. AtMost(cfg, r) \in Nat /\ AtMost(cfg, r) >= 1
    BY <1>1, <2>1 DEF AtMost
  <2>3. desiredReplicas(cfg, n) = AtMost(cfg, r)
    BY <1>1, <1>5 DEF desiredReplicas, r, q
  <2> QED
    BY <2>2, <2>3
<1> QED
  BY <1>4, <1>5

\* The number of proxies is within the limits, enough or the most allowed, and
\* no smaller allowed number is enough.
LEMMA DesiredServes ==
    ASSUME NEW cfg \in Configs, Valid(cfg), NEW n \in Nat
    PROVE  LET r == desiredReplicas(cfg, n) IN
           /\ r >= cfg.minReplicas
           /\ cfg.maxReplicas > 0 => r <= cfg.maxReplicas
           /\ r * cfg.perProxy >= n \/ (cfg.maxReplicas > 0 /\ r = cfg.maxReplicas)
           /\ \A fewer \in cfg.minReplicas .. r - 1 : ~ (fewer * cfg.perProxy >= n)
<1> DEFINE per == cfg.perProxy
           low == cfg.minReplicas
           high == cfg.maxReplicas
           q == (n + per - 1) \div per
           r == desiredReplicas(cfg, n)
<1>1. /\ per \in Nat /\ per > 0
      /\ low \in Nat
      /\ high \in Int
      /\ high > 0 => low <= high
  BY ProxyScalingAssumption DEF ProxyConfig, Valid
<1>2. q \in Int /\ q * per >= n /\ (q - 1) * per < n
  BY <1>1, RoundedUp
<1>3. n = 0 => r = low
  BY <1>1 DEF desiredReplicas
<1>4. n > 0 => r = AtMost(cfg, AtLeast(low, AtLeast(1, q)))
  BY <1>1 DEF desiredReplicas
<1> HIDE DEF r, q
<1>5. CASE n = 0
  <2>1. low * per >= 0
    BY <1>1
  <2> QED
    BY <1>1, <1>3, <1>5, <2>1 DEF r
<1>6. CASE n > 0
  <2>1. q >= 1
    <3>1. q <= 0 => q * per <= 0 * per
      BY <1>1, <1>2, MoreServeMore
    <3> QED
      BY <1>1, <1>2, <1>6, <3>1
  <2>2. AtLeast(1, q) = q
    BY <1>2, <2>1 DEF AtLeast
  <2>3. r = AtMost(cfg, AtLeast(low, q))
    BY <1>4, <1>6, <2>2
  <2>4. /\ r \in Int
        /\ r >= low
        /\ high > 0 => r <= high
        /\ r = low \/ r <= q
        /\ r >= q \/ (high > 0 /\ r = high)
    BY <1>1, <1>2, <2>3 DEF AtMost, AtLeast
  <2>5. r >= q => r * per >= n
    <3>1. r >= q => q * per <= r * per
      BY <1>1, <1>2, <2>4, MoreServeMore
    <3>2. r * per \in Int /\ q * per \in Int
      BY <1>1, <1>2, <2>4
    <3> QED
      BY <1>2, <3>1, <3>2
  <2>6. ASSUME NEW fewer \in low .. r - 1
        PROVE  ~ (fewer * per >= n)
    <3>1. fewer \in Int /\ fewer <= q - 1
      BY <1>1, <1>2, <2>4
    <3>2. fewer * per <= (q - 1) * per
      BY <1>1, <1>2, <3>1, MoreServeMore
    <3>3. fewer * per \in Int /\ (q - 1) * per \in Int
      BY <1>1, <1>2, <3>1
    <3> QED
      BY <1>2, <3>2, <3>3
  <2> QED
    BY <2>4, <2>5, <2>6 DEF r
<1> QED
  BY <1>5, <1>6
-----------------------------------------------------------------------------
(* Type correctness.                                                       *)

CreatorType == [pc : {"idle", "count", "get", "patch", "wait", "create"},
                desired : Nat, cleared : BOOLEAN]

\* A patch to zero that marks every creator as cleared keeps the creators
\* well-typed.
LEMMA TypeClear ==
    ASSUME creator \in [Creators -> CreatorType], Clear
    PROVE  creator' \in [Creators -> CreatorType]
<1> SUFFICES ASSUME NEW c \in Creators
             PROVE  [creator[c] EXCEPT !.cleared = TRUE] \in CreatorType
  BY DEF Clear
<1> QED
  BY DEF CreatorType

\* The first state is type correct.
LEMMA TypeInit == Init => TypeOK
<1> SUFFICES ASSUME Init PROVE TypeOK
  OBVIOUS
<1> QED
  BY ProxyScalingAssumption DEF Init, TypeOK, NoCreator

\* The scaler's steps compute from a valid configuration and touch no pod.
LEMMA TypeScaler ==
    ASSUME TypeOK, ScalerStep \/ ScalerFails
    PROVE  TypeOK'
<1> USE ProxyScalingAssumption DEF TypeOK, clusterVars
<1>1. desiredReplicas(config, countSandboxPods) \in Nat
  BY DesiredIsNumber DEF countSandboxPods
<1>2. CASE ScalerCounts
  BY <1>1, <1>2 DEF ScalerCounts
<1>3. CASE ScalerGets
  BY <1>3 DEF ScalerGets
<1>4. CASE ScalerPatches
  <2>1. creator \in [Creators -> CreatorType]
    BY DEF CreatorType
  <2>2. creator' \in [Creators -> CreatorType]
    BY <1>4, <2>1, TypeClear DEF ScalerPatches
  <2> QED
    BY <1>4, <2>2 DEF ScalerPatches, CreatorType
<1>5. CASE ScalerFails
  BY <1>5 DEF ScalerFails, Fault
<1> QED
  BY <1>2, <1>3, <1>4, <1>5 DEF ScalerStep

\* A creator keeps the types: what it remembers and patches is a number of
\* replicas.
LEMMA TypeCreator ==
    ASSUME TypeOK, NEW c \in Creators,
           BeginCreate(c) \/ CreatorStep(c) \/ CreatorTimesOut(c) \/ CreatorFails(c)
    PROVE  TypeOK'
<1> USE ProxyScalingAssumption DEF TypeOK, clusterVars
<1>1. AtLeast(1, desiredReplicas(config, countSandboxPods + 1)) \in Nat
  BY DesiredIsNumber DEF AtLeast, countSandboxPods
<1>2. CASE BeginCreate(c)
  BY <1>2 DEF BeginCreate, Advance
<1>3. CASE CreatorCounts(c)
  BY <1>1, <1>3 DEF CreatorCounts
<1>4. CASE CreatorGets(c)
  <2> DEFINE label == IF replicas >= creator[c].desired THEN "wait" ELSE "patch"
             moved == [creator[c] EXCEPT !.pc = label, !.cleared = FALSE]
  <2>1. creator \in [Creators -> CreatorType]
    BY DEF CreatorType
  <2>2. label \in {"wait", "patch"}
    OBVIOUS
  <2>3. moved \in CreatorType
    <3> HIDE DEF label
    <3> QED  BY <2>1, <2>2 DEF CreatorType
  <2>4. creator' = [creator EXCEPT ![c] = moved]
    BY <1>4, <2>1 DEF CreatorGets
  <2>5. creator' \in [Creators -> CreatorType]
    <3> HIDE DEF moved
    <3> QED  BY <2>1, <2>3, <2>4
  <2> QED
    BY <1>4, <2>5 DEF CreatorGets, CreatorType
<1>5. CASE CreatorPatches(c)
  BY <1>5 DEF CreatorPatches, Advance
<1>6. CASE CreatorSeesProxy(c)
  BY <1>6 DEF CreatorSeesProxy, Advance
<1>7. CASE CreatorTimesOut(c)
  BY <1>7 DEF CreatorTimesOut, NoCreator
<1>8. CASE CreatorFails(c)
  BY <1>8 DEF CreatorFails, Fault, NoCreator
<1>9. CASE CreateSandbox(c)
  BY <1>9 DEF CreateSandbox, NoCreator
<1> QED
  BY <1>2, <1>3, <1>4, <1>5, <1>6, <1>7, <1>8, <1>9 DEF CreatorStep

\* The controller keeps ready proxies among those that exist.
LEMMA TypeCluster ==
    ASSUME TypeOK, StartSandbox \/ EndSandbox \/ DeploymentStep \/ ProxyGetsUnready
    PROVE  TypeOK'
<1> USE ProxyScalingAssumption DEF TypeOK
<1>1. CASE StartSandbox
  BY <1>1 DEF StartSandbox
<1>2. CASE EndSandbox
  BY <1>2 DEF EndSandbox
<1>3. CASE AddProxy
  BY <1>3 DEF AddProxy
<1>4. CASE RemoveProxy
  BY <1>4 DEF RemoveProxy
<1>5. CASE ProxyGetsReady
  BY <1>5 DEF ProxyGetsReady
<1>6. CASE ProxyGetsUnready
  <2>1. creator \in [Creators -> CreatorType]
    BY DEF CreatorType
  <2>2. creator' \in [Creators -> CreatorType]
    BY <1>6, <2>1, TypeClear DEF ProxyGetsUnready
  <2> QED
    BY <1>6, <2>2 DEF ProxyGetsUnready, Fault, CreatorType
<1> QED
  BY <1>1, <1>2, <1>3, <1>4, <1>5, <1>6 DEF DeploymentStep

\* Every step keeps the types.
LEMMA TypeStep == TypeOK /\ [Next]_vars => TypeOK'
<1> SUFFICES ASSUME TypeOK, [Next]_vars PROVE TypeOK'
  OBVIOUS
<1>1. CASE Next
  BY <1>1, TypeScaler, TypeCreator, TypeCluster DEF Next
<1>2. CASE UNCHANGED vars
  BY <1>2 DEF vars, clusterVars, TypeOK
<1> QED
  BY <1>1, <1>2

\* Every reachable state is type correct: whatever is computed from a valid
\* configuration is a number of replicas, and no more proxies are ready than
\* there are.
THEOREM TypeCorrect == Spec => []TypeOK
<1> QED
  BY TypeInit, TypeStep, PTL DEF Spec

\* desiredReplicas is right for every valid configuration and every number of
\* sandboxes within the bound.
THEOREM DesiredIsAlwaysLeast == Spec => []DesiredIsLeast
<1>1. TypeOK => DesiredIsLeast
  <2> SUFFICES ASSUME TypeOK, NEW n \in 0 .. MaxSandboxes + 1
               PROVE  LET r == desiredReplicas(config, n)
                          capped == config.maxReplicas > 0 /\ r = config.maxReplicas
                      IN /\ r >= config.minReplicas
                         /\ config.maxReplicas > 0 => r <= config.maxReplicas
                         /\ Serves(config, r, n) \/ capped
                         /\ \A fewer \in config.minReplicas .. r - 1 :
                               ~ Serves(config, fewer, n)
    BY DEF DesiredIsLeast
  <2>1. config \in Configs /\ Valid(config)
    BY DEF TypeOK
  <2>2. n \in Nat
    BY ProxyScalingAssumption
  <2> QED
    BY <2>1, <2>2, DesiredServes DEF Serves
<1> QED
  BY <1>1, TypeCorrect, PTL

-----------------------------------------------------------------------------
(* A ready proxy before the sandbox.                                       *)

\* What holds for a creator between its read of the Deployment and the sandbox
\* as long as nothing has cleared the proxies: there is a replica, and, once it
\* has seen a ready proxy, one is ready.
Kept(c) ==
    /\ creator[c].pc \in {"get", "patch"} => creator[c].desired >= 1
    /\ (creator[c].pc \in {"wait", "create"} /\ ~ creator[c].cleared) => replicas >= 1
    /\ (creator[c].pc = "create" /\ ~ creator[c].cleared) => ready >= 1

IInv == TypeOK /\ \A c \in Creators : Kept(c)

\* The timer lowers the replicas to none only by clearing.
LEMMA KeptByScaler ==
    ASSUME IInv, ScalerStep \/ ScalerFails, NEW d \in Creators
    PROVE  Kept(d)'
<1> USE DEF IInv, TypeOK, Kept, clusterVars
<1>1. CASE ScalerCounts
  BY <1>1 DEF ScalerCounts
<1>2. CASE ScalerGets
  BY <1>2 DEF ScalerGets
<1>3. CASE ScalerPatches
  <2>1. CASE scaler.desired = 0
    BY <1>3, <2>1 DEF ScalerPatches, Clear
  <2>2. CASE scaler.desired # 0
    BY <1>3, <2>2 DEF ScalerPatches
  <2> QED
    BY <2>1, <2>2
<1>4. CASE ScalerFails
  BY <1>4 DEF ScalerFails
<1> QED
  BY <1>1, <1>2, <1>3, <1>4 DEF ScalerStep

\* A creator leaves at least one replica to the others.
LEMMA KeptByCreator ==
    ASSUME IInv, NEW c \in Creators, NEW d \in Creators,
           BeginCreate(c) \/ CreatorStep(c) \/ CreatorTimesOut(c) \/ CreatorFails(c)
    PROVE  Kept(d)'
<1> USE DEF IInv, TypeOK, Kept, clusterVars
<1>1. CASE BeginCreate(c)
  BY <1>1 DEF BeginCreate, Advance
<1>2. CASE CreatorCounts(c)
  <2>1. AtLeast(1, desiredReplicas(config, countSandboxPods + 1)) >= 1
    BY ProxyScalingAssumption, DesiredIsNumber DEF AtLeast, countSandboxPods
  <2> QED
    BY <1>2, <2>1 DEF CreatorCounts
<1>3. CASE CreatorGets(c)
  BY <1>3 DEF CreatorGets
<1>4. CASE CreatorPatches(c)
  BY <1>4 DEF CreatorPatches, Advance
<1>5. CASE CreatorSeesProxy(c)
  BY <1>5 DEF CreatorSeesProxy, ProxyReady, Advance
<1>6. CASE CreatorTimesOut(c)
  BY <1>6 DEF CreatorTimesOut, NoCreator
<1>7. CASE CreatorFails(c)
  BY <1>7 DEF CreatorFails, NoCreator
<1>8. CASE CreateSandbox(c)
  BY <1>8 DEF CreateSandbox, NoCreator
<1> QED
  BY <1>1, <1>2, <1>3, <1>4, <1>5, <1>6, <1>7, <1>8 DEF CreatorStep

\* The controller removes pods only beyond the replicas, unready ones first.
LEMMA KeptByCluster ==
    ASSUME IInv, NEW d \in Creators,
           StartSandbox \/ EndSandbox \/ DeploymentStep \/ ProxyGetsUnready
    PROVE  Kept(d)'
<1> USE DEF IInv, TypeOK, Kept
<1>1. CASE StartSandbox
  BY <1>1 DEF StartSandbox
<1>2. CASE EndSandbox
  BY <1>2 DEF EndSandbox
<1>3. CASE AddProxy
  BY <1>3 DEF AddProxy
<1>4. CASE RemoveProxy
  BY <1>4 DEF RemoveProxy
<1>5. CASE ProxyGetsReady
  BY <1>5 DEF ProxyGetsReady
<1>6. CASE ProxyGetsUnready
  BY <1>6 DEF ProxyGetsUnready, Clear
<1> QED
  BY <1>1, <1>2, <1>3, <1>4, <1>5, <1>6 DEF DeploymentStep

\* Every step keeps what the creators know about the proxies.
LEMMA IInvStep == IInv /\ [Next]_vars => IInv'
<1> SUFFICES ASSUME IInv, [Next]_vars PROVE IInv'
  OBVIOUS
<1>1. TypeOK'
  BY TypeStep DEF IInv
<1>2. ASSUME NEW d \in Creators PROVE Kept(d)'
  <2>1. CASE Next
    BY <2>1, KeptByScaler, KeptByCreator, KeptByCluster DEF Next
  <2>2. CASE UNCHANGED vars
    BY <2>2 DEF vars, clusterVars, IInv, Kept
  <2> QED
    BY <2>1, <2>2
<1> QED
  BY <1>1, <1>2 DEF IInv

\* However many creators count and patch at the same time, none takes the proxy
\* from another: a sandbox is made beside a ready proxy unless the timer set the
\* replicas to none, or a proxy failed, after its creator read the Deployment.
THEOREM ReadyBeforeTraffic == Spec => []ProxyBeforeTraffic
<1>1. Init => IInv
  <2> SUFFICES ASSUME Init PROVE IInv
    OBVIOUS
  <2>1. TypeOK
    BY TypeInit
  <2>2. \A c \in Creators : Kept(c)
    BY DEF Init, Kept, NoCreator
  <2> QED
    BY <2>1, <2>2 DEF IInv
<1>2. IInv => ProxyBeforeTraffic
  BY DEF IInv, Kept, ProxyBeforeTraffic
<1> QED
  BY <1>1, <1>2, IInvStep, PTL DEF Spec
===============================================================================
