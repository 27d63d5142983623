---------------------------- MODULE WarmPoolProofs ----------------------------
(***************************************************************************)
(* Proofs about WarmPool for any number of callers of Start, any supply of *)
(* uuids, any configuration and any number of failures: the bound of the   *)
(* pool, that it implements PoolContract, and what it may lose.            *)
(***************************************************************************)
EXTENDS WarmPool, TLAPS, FiniteSetTheorems, SequenceTheorems

Running(r) == pc[r] \notin {"off", "returned"}

\* There is one replenisher, and a slot is reserved exactly while it warms a
\* sandbox.  That is what turns the two critical sections of the mutex, which
\* are tens of seconds apart, into an invariant of the pool.
OneReplenisher ==
    /\ \A r \in Starters : Running(r) => started
    /\ \A r, q \in Starters : Running(r) /\ Running(q) => r = q

SlotIsReserved == warming = 1 <=> \E r \in Starters : pc[r] \in WarmingLabels

\* Where a handle may be: with the replenisher, in the queue or with a caller,
\* and in one place only.
HandlesApart ==
    /\ \A r \in Starters : handle[r] # None => pc[r] \in CaringLabels \cup {"finish"}
    /\ \A r \in Starters : pc[r] \in CaringLabels => handle[r] # None
    /\ \A r \in Starters : handle[r] # None => handle[r] \in used \ (Stock \cup taken)
    /\ Stock \subseteq used
    /\ taken \subseteq used \ Stock
    /\ \A m, n \in DOMAIN idle : idle[m] = idle[n] => m = n

IInv == TypeOK /\ OneReplenisher /\ SlotIsReserved /\ PoolBound /\ HandlesApart

-----------------------------------------------------------------------------
(* Lemmas.                                                                 *)

\* The target of the pool is a natural number.
LEMMA TargetType == TargetIdle \in Nat
BY PoolAssumption DEF TargetIdle

\* Stock is the range of the queue, and no larger than the queue is long.
LEMMA StockSize ==
    ASSUME TypeOK
    PROVE  /\ Stock \subseteq Keys
           /\ Cardinality(Stock) \in Nat
           /\ Cardinality(Stock) <= Len(idle)
<1>1. idle \in Seq(Keys) /\ Len(idle) \in Nat /\ DOMAIN idle = 1 .. Len(idle)
  BY DEF TypeOK
<1>2. Stock \subseteq Keys
  BY <1>1 DEF Stock
<1>3. [n \in 1 .. Len(idle) |-> idle[n]] \in Surjection(1 .. Len(idle), Stock)
  BY <1>1 DEF Stock, Surjection
<1>4. IsFiniteSet(1 .. Len(idle)) /\ Cardinality(1 .. Len(idle)) = Len(idle)
  BY <1>1, FS_Interval
<1>5. IsFiniteSet(Stock) /\ Cardinality(Stock) <= Cardinality(1 .. Len(idle))
  BY <1>3, <1>4, FS_Surjection
<1> QED  BY <1>2, <1>4, <1>5, FS_CardinalityType

\* The steps of the cluster are well typed.
LEMMA ClusterTyped ==
    ASSUME ClusterTypeOK, ClusterStep
    PROVE  ClusterTypeOK'
BY NoneIsNoKey DEF ClusterTypeOK, ClusterStep, PodBecomesReady, PodTerminates,
       ClaimIsReleased, PodPhases, ClaimPhases, NoPod

\* So are the effects of the requests about sandbox k, and what a purge of it
\* does, failing or not.
LEMMA SandboxTyped ==
    ASSUME ClusterTypeOK, NEW k \in Keys
    PROVE  /\ CreateClaim(k) => ClusterTypeOK'
           /\ CreateSecretObject(k) => ClusterTypeOK'
           /\ CreatePodMounting(k, k) => ClusterTypeOK'
           /\ DeleteSecret(k) => ClusterTypeOK'
           /\ DeleteClaim(k) => ClusterTypeOK'
           /\ PurgeFails(k) => ClusterTypeOK'
           /\ (/\ pods' = [pods EXCEPT ![k].phase = "terminating"]
               /\ secrets' = [secrets EXCEPT ![k] = FALSE]
               /\ pvcs' = [pvcs EXCEPT ![k] = "terminating"]) => ClusterTypeOK'
           /\ UNCHANGED clusterVars => ClusterTypeOK'
<1> DEFINE Pod == [phase : PodPhases, claim : Keys \cup {None}]
<1>1. UNCHANGED clusterVars => ClusterTypeOK'
  BY DEF ClusterTypeOK, clusterVars
<1>2. /\ pods \in [Keys -> Pod] /\ pvcs \in [Keys -> ClaimPhases]
      /\ secrets \in [Keys -> BOOLEAN]
  BY DEF ClusterTypeOK
<1>3. [phase |-> "starting", claim |-> k] \in Pod
  BY DEF PodPhases
<1>4. /\ [pods EXCEPT ![k] = [phase |-> "starting", claim |-> k]] \in [Keys -> Pod]
      /\ [pods EXCEPT ![k].phase = "terminating"] \in [Keys -> Pod]
  <2>1. [pods[k] EXCEPT !.phase = "terminating"] \in Pod
    BY <1>2 DEF PodPhases
  <2> QED  BY <1>2, <1>3, <2>1
<1>5. \A c \in ClaimPhases : [pvcs EXCEPT ![k] = c] \in [Keys -> ClaimPhases]
  BY <1>2
<1>6. \A b \in BOOLEAN : [secrets EXCEPT ![k] = b] \in [Keys -> BOOLEAN]
  BY <1>2
<1>7. {"none", "bound", "terminating"} \subseteq ClaimPhases
  BY DEF ClaimPhases
<1>8. ASSUME pods' \in [Keys -> Pod], pvcs' \in [Keys -> ClaimPhases],
             secrets' \in [Keys -> BOOLEAN]
      PROVE  ClusterTypeOK'
  BY <1>8 DEF ClusterTypeOK
<1>9. CreateClaim(k) \/ DeleteClaim(k) => ClusterTypeOK'
  BY <1>2, <1>5, <1>7, <1>8 DEF CreateClaim, DeleteClaim
<1>10. CreateSecretObject(k) \/ DeleteSecret(k) => ClusterTypeOK'
  BY <1>2, <1>6, <1>8 DEF CreateSecretObject, DeleteSecret
<1>11. CreatePodMounting(k, k) => ClusterTypeOK'
  BY <1>2, <1>4, <1>8 DEF CreatePodMounting
<1>12. PurgeFails(k) => ClusterTypeOK'
  BY <1>2, <1>4, <1>6, <1>8 DEF PurgeFails
<1>13. ASSUME pods' = [pods EXCEPT ![k].phase = "terminating"],
              secrets' = [secrets EXCEPT ![k] = FALSE],
              pvcs' = [pvcs EXCEPT ![k] = "terminating"]
       PROVE  ClusterTypeOK'
  BY <1>4, <1>5, <1>6, <1>7, <1>8, <1>13
<1> QED  BY <1>1, <1>9, <1>10, <1>11, <1>12, <1>13

-----------------------------------------------------------------------------
(* IInv is inductive.                                                      *)

\* The pool starts empty.
LEMMA InitOK == Init => IInv
<1> SUFFICES ASSUME Init PROVE IInv
  OBVIOUS
<1>1. TypeOK
  <2>1. ClusterTypeOK
    BY DEF Init, EmptyCluster, ClusterTypeOK, NoPod, PodPhases, ClaimPhases
  <2>2. idle \in Seq(Keys)
    BY DEF Init
  <2>3. pc \in [Starters -> Labels] /\ handle \in [Starters -> Keys \cup {None}]
    BY DEF Init, Labels
  <2>4. faults \in Nat /\ timeouts \in Nat /\ warming \in {0, 1}
    BY PoolAssumption DEF Init
  <2>5. used \in SUBSET Keys /\ taken \in SUBSET Keys
        /\ started \in BOOLEAN /\ shutdown \in BOOLEAN
    BY DEF Init
  <2> QED  BY <2>1, <2>2, <2>3, <2>4, <2>5 DEF TypeOK
<1>2. Stock = {} /\ DOMAIN idle = {}
  BY DEF Init, Stock
<1>3. OneReplenisher /\ SlotIsReserved /\ HandlesApart
  BY <1>2 DEF Init, OneReplenisher, SlotIsReserved, HandlesApart, Running, WarmingLabels, CaringLabels
<1>4. PoolBound
  BY TargetType DEF Init, PoolBound
<1> QED  BY <1>1, <1>3, <1>4 DEF IInv

\* A step that leaves the queue, the slot and the handles alone.
LEMMA ControlOK ==
    ASSUME IInv, NEW r \in Starters, NEW label \in Labels, Goto(r, label),
           UNCHANGED <<idle, warming, handle, used, taken, clusterVars>>,
           started' \in BOOLEAN, shutdown' \in BOOLEAN, faults' \in Nat, timeouts' \in Nat,
           started => started', label \notin {"off", "returned"} => started',
           Running(r) \/ label = "returned" \/ ~ started,
           (pc[r] \in WarmingLabels) <=> (label \in WarmingLabels),
           handle[r] # None => label \in CaringLabels \cup {"finish"},
           label \in CaringLabels => handle[r] # None
    PROVE  IInv'
<1>0. pc \in [Starters -> Labels] /\ pc' = [pc EXCEPT ![r] = label]
  BY DEF IInv, TypeOK, Goto
<1>1. TypeOK'
  BY <1>0 DEF IInv, TypeOK, ClusterTypeOK, clusterVars
<1>2. OneReplenisher'
  BY <1>0 DEF IInv, OneReplenisher, Running
<1>3. SlotIsReserved'
  <2>1. \A q \in Starters : pc'[q] \in WarmingLabels <=> pc[q] \in WarmingLabels
    BY <1>0
  <2> QED  BY <2>1 DEF IInv, SlotIsReserved
<1>4. PoolBound'
  BY DEF IInv, PoolBound, TargetIdle
<1>5. HandlesApart'
  BY <1>0 DEF IInv, HandlesApart, Stock
<1> QED  BY <1>1, <1>2, <1>3, <1>4, <1>5 DEF IInv

\* Start, the ticker, the wait for a pod, the shutdown and a full pool.
LEMMA QuietStepsOK ==
    ASSUME IInv, NEW r \in Starters,
           \/ Start(r) \/ Tick(r) \/ WaitReady(r)
           \/ ReserveWarmingSlot(r) /\ Len(idle) + warming >= TargetIdle
    PROVE  IInv'
<1>0. /\ faults \in Nat /\ timeouts \in Nat /\ started \in BOOLEAN /\ shutdown \in BOOLEAN
      /\ Running(r) => started
      /\ handle[r] # None => pc[r] \in CaringLabels \cup {"finish"}
      /\ pc[r] \in CaringLabels => handle[r] # None
  BY DEF IInv, TypeOK, OneReplenisher, HandlesApart
<1>1. CASE Start(r)
  <2> DEFINE label == IF started THEN "returned" ELSE "replenish"
  <2>1. label \in Labels \ WarmingLabels /\ pc[r] \notin WarmingLabels /\ handle[r] = None
        /\ Goto(r, label) /\ started'
        /\ UNCHANGED <<idle, warming, handle, used, taken, clusterVars>>
        /\ UNCHANGED <<shutdown, faults, timeouts>>
    BY <1>0, <1>1 DEF Start, Labels, WarmingLabels, CaringLabels
  <2>2. label = "returned" \/ ~ started
    OBVIOUS
  <2>3. started' \in BOOLEAN
    BY <1>1 DEF Start
  <2>4. label \notin CaringLabels
    BY DEF CaringLabels
  <2> HIDE DEF label
  <2> QED  BY <1>0, <2>1, <2>2, <2>3, <2>4, ControlOK
<1>2. CASE Tick(r)
  <2>1. PICK label \in {"replenish", "stopped"} : Goto(r, label)
    BY <1>2 DEF Tick
  <2>2. label \in Labels \ WarmingLabels /\ pc[r] \notin WarmingLabels /\ handle[r] = None
        /\ label \notin CaringLabels /\ Running(r)
    BY <1>0, <1>2, <2>1 DEF Tick, Labels, WarmingLabels, CaringLabels, Running
  <2> QED  BY <1>0, <1>2, <2>1, <2>2, ControlOK DEF Tick
<1>3. CASE WaitReady(r)
  <2>1. PICK label \in {"finish", "purge"} : Goto(r, label)
    BY <1>3 DEF WaitReady
  <2>2. /\ label \in Labels \cap WarmingLabels /\ pc[r] \in WarmingLabels
        /\ label \in CaringLabels \cup {"finish"}
        /\ Running(r) /\ handle[r] # None
    BY <1>0, <1>3, <2>1 DEF WaitReady, Labels, WarmingLabels, CaringLabels, Running
  <2>3. timeouts' \in Nat
    BY <1>0, <1>3 DEF WaitReady
  <2> QED  BY <1>0, <1>3, <2>1, <2>2, <2>3, ControlOK DEF WaitReady
<1>4. CASE ReserveWarmingSlot(r) /\ Len(idle) + warming >= TargetIdle
  <2>1. /\ Goto(r, "ticking") /\ UNCHANGED warming /\ pc[r] = "replenish"
        /\ UNCHANGED <<idle, started, handle, used, taken, shutdown, faults, timeouts, clusterVars>>
    BY <1>4 DEF ReserveWarmingSlot
  <2>2. "ticking" \in Labels \ WarmingLabels /\ pc[r] \notin WarmingLabels /\ Running(r)
        /\ handle[r] = None /\ "ticking" \notin CaringLabels
    BY <1>0, <2>1 DEF Labels, WarmingLabels, CaringLabels, Running
  <2> QED  BY <1>0, <2>1, <2>2, ControlOK
<1> QED  BY <1>1, <1>2, <1>3, <1>4

\* A slot is reserved only while the queue has room for one more.
LEMMA ReserveOK ==
    ASSUME IInv, NEW r \in Starters, ReserveWarmingSlot(r), ~ Len(idle) + warming >= TargetIdle
    PROVE  IInv'
<1>0. /\ pc \in [Starters -> Labels] /\ pc' = [pc EXCEPT ![r] = "create"] /\ pc[r] = "replenish"
      /\ warming' = warming + 1 /\ warming \in {0, 1} /\ Len(idle) \in Nat
      /\ UNCHANGED <<idle, started, handle, used, taken, shutdown, faults, timeouts, clusterVars>>
  BY DEF IInv, TypeOK, ReserveWarmingSlot, Goto
<1>1. warming = 0
  <2>1. \A q \in Starters : pc[q] \in WarmingLabels => q = r
    BY <1>0 DEF IInv, OneReplenisher, Running, WarmingLabels, CaringLabels
  <2> QED  BY <1>0, <2>1 DEF IInv, SlotIsReserved, WarmingLabels, CaringLabels
<1>2. TypeOK'
  BY <1>0, <1>1 DEF IInv, TypeOK, ClusterTypeOK, clusterVars, Labels, WarmingLabels
<1>3. OneReplenisher'
  BY <1>0 DEF IInv, OneReplenisher, Running
<1>4. SlotIsReserved'
  BY <1>0, <1>1 DEF SlotIsReserved, WarmingLabels, CaringLabels
<1>5. PoolBound'
  BY <1>0, TargetType DEF PoolBound, TargetIdle
<1>6. HandlesApart'
  BY <1>0 DEF IInv, HandlesApart, Stock, CaringLabels
<1> QED  BY <1>2, <1>3, <1>4, <1>5, <1>6 DEF IInv

\* The steps of createOne that hold or let go of a handle.
CareStep(r) ==
    \/ CreateWarmClaim(r) \/ CreateWarmSecret(r) \/ CreateWarmPod(r)
    \/ RollBackSecret(r) \/ RollBackClaim(r) \/ PurgeOne(r)

\* What they do to a handle: draw a key nobody has used, keep or forget one.
LEMMA CareOK ==
    ASSUME IInv, NEW r \in Starters, NEW label \in WarmingLabels, Goto(r, label),
           pc[r] \in WarmingLabels, UNCHANGED <<idle, warming, started, taken, timeouts>>,
           ClusterTypeOK', faults' \in Nat, shutdown' \in BOOLEAN,
           NEW h, handle' = [handle EXCEPT ![r] = h],
           \/ UNCHANGED used /\ h \in {None, handle[r]}
           \/ \E k \in Keys \ used : used' = used \cup {k} /\ h \in {None, k},
           h = None => label = "finish",
           h # None => label \in CaringLabels
    PROVE  IInv'
<1>0. /\ pc \in [Starters -> Labels] /\ handle \in [Starters -> Keys \cup {None}]
      /\ used \in SUBSET Keys /\ pc' = [pc EXCEPT ![r] = label]
  BY DEF IInv, TypeOK, Goto
<1>1. /\ pc' \in [Starters -> Labels] /\ pc'[r] = label /\ handle'[r] = h
      /\ \A q \in Starters : q # r => pc'[q] = pc[q] /\ handle'[q] = handle[q]
  BY <1>0 DEF Labels
<1>2. used' \in SUBSET Keys /\ used \subseteq used' /\ h \in Keys \cup {None}
  BY <1>0
<1>3. handle' \in [Starters -> Keys \cup {None}]
  BY <1>0, <1>2
<1>4. TypeOK'
  BY <1>1, <1>2, <1>3 DEF IInv, TypeOK
<1>5. OneReplenisher'
  BY <1>1 DEF IInv, OneReplenisher, Running, WarmingLabels, CaringLabels
<1>6. SlotIsReserved'
  BY <1>1 DEF IInv, SlotIsReserved
<1>7. PoolBound'
  BY DEF IInv, PoolBound, TargetIdle
<1>8. HandlesApart'
  <2>1. Stock' = Stock
    BY DEF Stock
  <2>2. \A q \in Starters : q # r /\ handle'[q] # None =>
          handle'[q] \in used' \ (Stock' \cup taken')
    BY <1>1, <1>2, <2>1 DEF IInv, HandlesApart
  <2>3. handle'[r] # None => handle'[r] \in used' \ (Stock' \cup taken')
    BY <1>1, <2>1 DEF IInv, HandlesApart
  <2>4. \A q \in Starters : handle'[q] # None => pc'[q] \in CaringLabels \cup {"finish"}
    BY <1>1 DEF IInv, HandlesApart
  <2>5. \A q \in Starters : pc'[q] \in CaringLabels => handle'[q] # None
    BY <1>1 DEF IInv, HandlesApart, CaringLabels
  <2> QED  BY <1>2, <2>1, <2>2, <2>3, <2>4, <2>5 DEF IInv, HandlesApart
<1> QED  BY <1>4, <1>5, <1>6, <1>7, <1>8 DEF IInv

\* What a request may do to the objects, the fault budget and the server.
RequestOf(effect) ==
    /\ effect \/ UNCHANGED clusterVars
    /\ UNCHANGED faults \/ (faults > 0 /\ faults' = faults - 1)
    /\ shutdown' \in {shutdown, TRUE}

\* Each step moves one handle along one of the paths of createOne.
LEMMA CareStepsOK ==
    ASSUME IInv, NEW r \in Starters, CareStep(r)
    PROVE  IInv'
<1>0. /\ pc \in [Starters -> Labels] /\ handle \in [Starters -> Keys \cup {None}]
      /\ ClusterTypeOK /\ faults \in Nat /\ shutdown \in BOOLEAN
      /\ pc[r] \in CaringLabels => handle[r] \in Keys /\ handle[r] # None
      /\ handle = [handle EXCEPT ![r] = handle[r]]
  BY DEF IInv, TypeOK, HandlesApart
<1>1. {"create", "finish"} \subseteq WarmingLabels /\ CaringLabels \subseteq WarmingLabels
  BY DEF WarmingLabels
<1>2. UNCHANGED faults \/ (faults > 0 /\ faults' = faults - 1) => faults' \in Nat
  BY <1>0
<1>3. shutdown' \in {shutdown, TRUE} => shutdown' \in BOOLEAN
  BY <1>0
<1>4. CASE CreateWarmClaim(r)
  <2>1. PICK k \in Keys \ used :
          /\ used' = used \cup {k}
          /\ \/ /\ Answered(CreateClaim(k))
                /\ handle' = [handle EXCEPT ![r] = k]
                /\ Goto(r, "create_secret")
             \/ Refused(CreateClaim(k)) /\ Forget(r)
    BY <1>4 DEF CreateWarmClaim
  <2>2. RequestOf(CreateClaim(k))
    BY <2>1 DEF Answered, Refused, Fails, Cancelled, RequestOf
  <2>3. ClusterTypeOK' /\ faults' \in Nat /\ shutdown' \in BOOLEAN
    BY <1>0, <2>2, <1>2, <1>3, SandboxTyped DEF RequestOf
  <2>4. PICK h \in {None, k}, label \in {"create_secret", "finish"} :
          /\ handle' = [handle EXCEPT ![r] = h] /\ Goto(r, label)
          /\ (h = None => label = "finish") /\ (h # None => label = "create_secret")
    BY <2>1, NoneIsNoKey DEF Forget
  <2>5. label \in WarmingLabels /\ (h # None => label \in CaringLabels)
    BY <1>1, <2>4 DEF CaringLabels
  <2>6. pc[r] \in WarmingLabels /\ UNCHANGED <<idle, warming, started, taken, timeouts>>
    BY <1>1, <1>4 DEF CreateWarmClaim
  <2> QED  BY <2>1, <2>3, <2>4, <2>5, <2>6, CareOK
<1>5. ASSUME NEW label \in CaringLabels, pc[r] \in CaringLabels, UNCHANGED <<idle, warming, started, used, taken, timeouts>>,
             ClusterTypeOK', faults' \in Nat, shutdown' \in BOOLEAN,
             \/ Goto(r, label) /\ UNCHANGED handle
             \/ Forget(r)
      PROVE  IInv'
  <2>1. CASE Goto(r, label) /\ UNCHANGED handle
    BY <1>0, <1>1, <1>5, <2>1, CareOK
  <2>2. CASE Forget(r)
    BY <1>1, <1>5, <2>2, CareOK DEF Forget
  <2> QED  BY <1>5, <2>1, <2>2
<1>6. CASE CreateWarmSecret(r)
  <2>1. pc[r] \in CaringLabels /\ "create_pod" \in CaringLabels
        /\ UNCHANGED <<idle, warming, started, used, taken, timeouts>>
        /\ ((Goto(r, "create_pod") /\ UNCHANGED handle) \/ Forget(r))
    BY <1>6 DEF CreateWarmSecret, CaringLabels
  <2>2. RequestOf(CreateSecretObject(handle[r]))
    BY <1>6 DEF CreateWarmSecret, Answered, Refused, Fails, Cancelled, RequestOf
  <2>3. ClusterTypeOK' /\ faults' \in Nat /\ shutdown' \in BOOLEAN
    BY <1>0, <2>1, <2>2, <1>2, <1>3, SandboxTyped DEF RequestOf
  <2> QED  BY <1>5, <2>1, <2>3
<1>7. CASE CreateWarmPod(r)
  <2>1. PICK label \in {"wait_ready", "rollback_secret"} : Goto(r, label)
    BY <1>7 DEF CreateWarmPod
  <2>2. pc[r] \in CaringLabels /\ label \in CaringLabels
        /\ UNCHANGED <<idle, warming, started, handle, used, taken, timeouts>>
    BY <1>7 DEF CreateWarmPod, CaringLabels
  <2>3. RequestOf(CreatePodMounting(handle[r], handle[r]))
    BY <1>7 DEF CreateWarmPod, Answered, Refused, Fails, Cancelled, RequestOf
  <2>4. ClusterTypeOK' /\ faults' \in Nat /\ shutdown' \in BOOLEAN
    BY <1>0, <2>2, <2>3, <1>2, <1>3, SandboxTyped DEF RequestOf
  <2> QED  BY <1>5, <2>1, <2>2, <2>4
<1>8. CASE RollBackSecret(r)
  <2>1. pc[r] \in CaringLabels /\ "rollback_claim" \in CaringLabels
        /\ UNCHANGED <<idle, warming, started, handle, used, taken, timeouts>>
        /\ Goto(r, "rollback_claim")
    BY <1>8 DEF RollBackSecret, CaringLabels
  <2>2. RequestOf(DeleteSecret(handle[r]))
    BY <1>8 DEF RollBackSecret, InBackground, Fails, RequestOf
  <2>3. ClusterTypeOK' /\ faults' \in Nat /\ shutdown' \in BOOLEAN
    BY <1>0, <2>1, <2>2, <1>2, <1>3, SandboxTyped DEF RequestOf
  <2> QED  BY <1>5, <2>1, <2>3
<1>9. CASE RollBackClaim(r)
  <2>1. pc[r] \in CaringLabels /\ Forget(r)
        /\ UNCHANGED <<idle, warming, started, used, taken, timeouts>>
    BY <1>9 DEF RollBackClaim, CaringLabels
  <2>2. RequestOf(DeleteClaim(handle[r]))
    BY <1>9 DEF RollBackClaim, InBackground, Fails, RequestOf
  <2>3. ClusterTypeOK' /\ faults' \in Nat /\ shutdown' \in BOOLEAN
    BY <1>0, <2>1, <2>2, <1>2, <1>3, SandboxTyped DEF RequestOf
  <2> QED  BY <1>5, <2>1, <2>3
<1>10. CASE PurgeOne(r)
  <2>1. pc[r] \in CaringLabels /\ Forget(r)
        /\ UNCHANGED <<idle, warming, started, used, taken, timeouts>>
    BY <1>10 DEF PurgeOne, CaringLabels, Forget
  <2>2. ClusterTypeOK' /\ faults' \in Nat /\ shutdown' \in BOOLEAN
    BY <1>0, <1>10, <2>1, SandboxTyped DEF PurgeOne
  <2> QED  BY <1>5, <2>1, <2>2
<1> QED  BY <1>4, <1>6, <1>7, <1>8, <1>9, <1>10 DEF CareStep

\* What finishWarming finds: the slot it gives back, and room for its handle.
LEMMA RoomAtFinish ==
    ASSUME IInv, NEW r \in Starters, pc[r] \in WarmingLabels
    PROVE  warming = 1 /\ Len(idle) < TargetIdle
<1>1. warming = 1 /\ Len(idle) \in Nat
  BY DEF IInv, TypeOK, SlotIsReserved
<1> QED  BY <1>1, TargetType DEF IInv, PoolBound

\* A handle, if there is one, moves from the replenisher to the queue.
LEMMA FinishOK ==
    ASSUME IInv, NEW r \in Starters, FinishWarming(r)
    PROVE  /\ IInv'
           /\ \/ handle[r] = None /\ UNCHANGED idle
              \/ handle[r] # None /\ Stock' = Stock \cup {handle[r]}
<1> DEFINE k == handle[r]
<1>0. /\ pc \in [Starters -> Labels] /\ handle \in [Starters -> Keys \cup {None}]
      /\ idle \in Seq(Keys) /\ Len(idle) \in Nat /\ DOMAIN idle = 1 .. Len(idle)
      /\ pc[r] = "finish" /\ handle' = [handle EXCEPT ![r] = None]
      /\ UNCHANGED <<started, used, taken, shutdown, faults, timeouts, clusterVars>>
  BY DEF IInv, TypeOK, FinishWarming
<1>1. warming = 1 /\ Len(idle) < TargetIdle /\ warming' = 0
  BY <1>0, RoomAtFinish DEF FinishWarming, WarmingLabels, CaringLabels
<1>2. /\ pc'[r] \in {"replenish", "ticking"} /\ pc' \in [Starters -> Labels]
      /\ \A q \in Starters : q # r => pc'[q] = pc[q] /\ handle'[q] = handle[q]
      /\ handle'[r] = None /\ handle' \in [Starters -> Keys \cup {None}]
  <2>1. PICK label \in {"replenish", "ticking"} : pc' = [pc EXCEPT ![r] = label]
    BY DEF FinishWarming, Goto
  <2>2. label \in Labels
    BY DEF Labels
  <2> QED  BY <1>0, <2>1, <2>2
<1>3. \A q \in Starters : q # r => pc[q] \in {"off", "returned"}
  BY <1>0 DEF IInv, OneReplenisher, Running
<1>4. \/ k = None /\ idle' = idle
      \/ k \in Keys /\ k # None /\ idle' = Append(idle, k)
  BY <1>0, <1>1 DEF FinishWarming
<1>5. /\ idle' \in Seq(Keys) /\ Len(idle') <= TargetIdle
      /\ \/ k = None /\ idle' = idle /\ Stock' = Stock
         \/ /\ k \in Keys /\ k # None
            /\ Stock' = Stock \cup {k}
            /\ DOMAIN idle' = 1 .. Len(idle) + 1
            /\ \A m \in 1 .. Len(idle) : idle'[m] = idle[m]
            /\ idle'[Len(idle) + 1] = k
  <2>1. CASE k = None /\ idle' = idle
    BY <1>0, <1>1, <2>1, TargetType DEF Stock
  <2>2. CASE k \in Keys /\ k # None /\ idle' = Append(idle, k)
    <3>1. /\ idle' \in Seq(Keys) /\ Len(idle') = Len(idle) + 1
          /\ \A m \in 1 .. Len(idle) : idle'[m] = idle[m]
          /\ idle'[Len(idle) + 1] = k
      BY <1>0, <2>2, AppendProperties
    <3>2. DOMAIN idle' = 1 .. Len(idle) + 1
      BY <3>1
    <3>3. Stock' = Stock \cup {k}
      BY <1>0, <3>1, <3>2 DEF Stock
    <3>4. Len(idle') <= TargetIdle
      BY <1>0, <1>1, <3>1, TargetType
    <3> QED  BY <2>2, <3>1, <3>2, <3>3, <3>4
  <2> QED  BY <1>4, <2>1, <2>2
<1>6. TypeOK'
  BY <1>0, <1>1, <1>2, <1>5 DEF IInv, TypeOK, ClusterTypeOK, clusterVars
<1>7. OneReplenisher'
  BY <1>0, <1>2 DEF IInv, OneReplenisher, Running
<1>8. SlotIsReserved'
  BY <1>1, <1>2, <1>3 DEF SlotIsReserved, WarmingLabels, CaringLabels
<1>9. PoolBound'
  BY <1>1, <1>5, TargetType DEF PoolBound, TargetIdle, TypeOK
<1>10. HandlesApart'
  <2>1. \A q \in Starters : handle'[q] = None
    BY <1>2, <1>3 DEF IInv, HandlesApart, CaringLabels
  <2>2. \A q \in Starters : pc'[q] \notin CaringLabels
    BY <1>2, <1>3 DEF CaringLabels
  <2>3. k # None => k \in used \ (Stock \cup taken)
    BY DEF IInv, HandlesApart
  <2>4. \A m, n \in DOMAIN idle' : idle'[m] = idle'[n] => m = n
    <3>1. \A m \in 1 .. Len(idle) : idle[m] \in Stock
      BY <1>0 DEF Stock
    <3>2. \A m, n \in 1 .. Len(idle) : idle[m] = idle[n] => m = n
      BY <1>0 DEF IInv, HandlesApart
    <3> QED  BY <1>0, <1>5, <2>3, <3>1, <3>2
  <2>5. Stock' \subseteq used' /\ taken' \subseteq used' \ Stock'
    BY <1>0, <1>5, <2>3 DEF IInv, HandlesApart
  <2> QED  BY <2>1, <2>2, <2>4, <2>5 DEF HandlesApart
<1> QED  BY <1>5, <1>6, <1>7, <1>8, <1>9, <1>10 DEF IInv

\* The oldest sandbox of the queue goes to a caller, and no other place keeps it.
LEMMA AcquireOK ==
    ASSUME IInv, Acquire
    PROVE  /\ IInv'
           /\ Head(idle) \in Stock
           /\ Stock' = Stock \ {Head(idle)} /\ taken' = taken \cup {Head(idle)}
<1> DEFINE k == Head(idle)
<1>0. /\ idle \in Seq(Keys) /\ idle # <<>> /\ Len(idle) \in Nat /\ DOMAIN idle = 1 .. Len(idle)
      /\ idle' = Tail(idle) /\ taken' = taken \cup {k}
      /\ UNCHANGED <<warming, started, pc, handle, used, shutdown, faults, timeouts, clusterVars>>
  BY DEF IInv, TypeOK, Acquire
<1>1. /\ k \in Keys /\ idle' \in Seq(Keys) /\ Len(idle') = Len(idle) - 1
      /\ DOMAIN idle' = 1 .. Len(idle) - 1 /\ k = idle[1]
      /\ \A m \in 1 .. Len(idle) - 1 : idle'[m] = idle[m + 1]
  BY <1>0, HeadTailProperties
<1>2. \A m, n \in 1 .. Len(idle) : idle[m] = idle[n] => m = n
  BY <1>0 DEF IInv, HandlesApart
<1>3. Stock' = Stock \ {k} /\ k \in Stock
  <2>1. ASSUME NEW x \in Stock, x # k
        PROVE  x \in Stock'
    <3>1. PICK m \in 1 .. Len(idle) : idle[m] = x
      BY <1>0, <2>1 DEF Stock
    <3>2. m # 1
      BY <1>1, <2>1, <3>1
    <3>3. m - 1 \in 1 .. Len(idle) - 1 /\ idle'[m - 1] = x
      BY <1>0, <1>1, <3>1, <3>2
    <3> QED  BY <1>1, <3>3 DEF Stock
  <2>2. ASSUME NEW x \in Stock'
        PROVE  x \in Stock /\ x # k
    <3>1. PICK m \in 1 .. Len(idle) - 1 : idle'[m] = x
      BY <1>1, <2>2 DEF Stock
    <3>2. m + 1 \in 1 .. Len(idle) /\ idle[m + 1] = x /\ 1 \in 1 .. Len(idle)
      BY <1>0, <1>1, <3>1
    <3> QED  BY <1>0, <1>1, <1>2, <3>2 DEF Stock
  <2>3. k \in Stock
    BY <1>0, <1>1 DEF Stock
  <2> QED  BY <2>1, <2>2, <2>3
<1>4. TypeOK'
  BY <1>0, <1>1 DEF IInv, TypeOK, ClusterTypeOK, clusterVars
<1>5. OneReplenisher' /\ SlotIsReserved'
  BY <1>0 DEF IInv, OneReplenisher, SlotIsReserved, Running
<1>6. PoolBound'
  BY <1>0, <1>1, TargetType DEF IInv, TypeOK, PoolBound, TargetIdle
<1>7. HandlesApart'
  <2>1. \A m, n \in DOMAIN idle' : idle'[m] = idle'[n] => m = n
    <3>1. SUFFICES ASSUME NEW m \in 1 .. Len(idle) - 1, NEW n \in 1 .. Len(idle) - 1,
                          idle'[m] = idle'[n]
                   PROVE  m = n
      BY <1>1
    <3>2. idle[m + 1] = idle[n + 1] /\ m + 1 \in 1 .. Len(idle) /\ n + 1 \in 1 .. Len(idle)
      BY <1>0, <1>1, <3>1
    <3>3. m + 1 = n + 1
      BY <1>2, <3>2
    <3> QED  BY <3>3
  <2>2. /\ Stock' \subseteq used' /\ taken' \subseteq used' \ Stock'
        /\ \A q \in Starters : handle'[q] # None => handle'[q] \in used' \ (Stock' \cup taken')
    BY <1>0, <1>3 DEF IInv, HandlesApart
  <2> QED  BY <1>0, <2>1, <2>2 DEF IInv, HandlesApart
<1> QED  BY <1>0, <1>3, <1>4, <1>5, <1>6, <1>7 DEF IInv

\* The server shuts down, the cluster acts, or nothing happens.
LEMMA OthersOK ==
    ASSUME IInv, Shutdown \/ ClusterActs \/ UNCHANGED vars
    PROVE  IInv'
<1>1. TypeOK'
  <2>1. CASE Shutdown \/ UNCHANGED vars
    BY <2>1 DEF Shutdown, vars, IInv, TypeOK, ClusterTypeOK, clusterVars
  <2>2. CASE ClusterActs
    BY <2>2, ClusterTyped DEF ClusterActs, poolVars, IInv, TypeOK
  <2> QED  BY <2>1, <2>2
<1>2. UNCHANGED <<idle, warming, started, pc, handle, used, taken>>
  BY DEF Shutdown, ClusterActs, poolVars, vars
<1> QED  BY <1>1, <1>2 DEF IInv, OneReplenisher, SlotIsReserved, PoolBound, HandlesApart,
            Running, Stock, TargetIdle

\* Every step preserves IInv.
LEMMA StepOK ==
    ASSUME IInv, [Next]_vars
    PROVE  IInv'
<1>1. ASSUME NEW r \in Starters, Start(r) \/ Replenisher(r)
      PROVE  IInv'
  BY <1>1, QuietStepsOK, ReserveOK, CareStepsOK, FinishOK DEF Replenisher, CareStep
<1> QED  BY <1>1, AcquireOK, OthersOK DEF Next

-----------------------------------------------------------------------------
(* The theorems.                                                           *)

\* Every reachable state is well typed; in particular at most one slot is
\* reserved at a time, however often Start is called.
THEOREM TypeCorrect == Spec => []TypeOK
<1>1. IInv => TypeOK
  BY DEF IInv
<1> QED  BY <1>1, InitOK, StepOK, PTL DEF Spec

\* The pool never holds or prepares more sandboxes than its target.
THEOREM NeverOvershoots == Spec => []PoolBound
<1>1. IInv => PoolBound
  BY DEF IInv
<1> QED  BY <1>1, InitOK, StepOK, PTL DEF Spec

\* finishWarming always has room for the sandbox it is given, so a ready sandbox
\* is never dropped while its pod keeps running.
THEOREM FinishHasRoom == Spec => []FinishNeverDrops
<1>1. IInv => FinishNeverDrops
  BY RoomAtFinish DEF FinishNeverDrops, WarmingLabels, CaringLabels
<1> QED  BY <1>1, InitOK, StepOK, PTL DEF Spec

\* The warm pool implements PoolContract: its stock is bounded by the target, and
\* a sandbox handed to one caller is never offered or handed out again.
THEOREM PoolImplementsContract == Spec => ImplementsContract
<1>1. Init => Contract!Init
  BY DEF Init, Contract!Init, Stock
<1>2. ASSUME IInv, [Next]_vars
      PROVE  [Contract!Next]_<<Stock, taken>>
  <2>1. CASE UNCHANGED <<idle, taken>>
    BY <2>1 DEF Stock
  <2>2. ASSUME NEW r \in Starters, FinishWarming(r)
        PROVE  [Contract!Next]_<<Stock, taken>>
    <3> DEFINE k == handle[r]
    <3>1. UNCHANGED taken
      BY <2>2 DEF FinishWarming
    <3>2. CASE k = None
      BY <1>2, <2>2, <3>1, <3>2, FinishOK DEF Stock
    <3>3. CASE k # None
      <4>1. k \in Keys /\ k \notin Stock \cup taken /\ Stock' = Stock \cup {k}
        BY <1>2, <2>2, <3>3, FinishOK DEF IInv, TypeOK, HandlesApart
      <4>2. Cardinality(Stock) < TargetIdle
        <5>1. Len(idle) < TargetIdle
          BY <1>2, <2>2, RoomAtFinish DEF FinishWarming, WarmingLabels, CaringLabels
        <5>2. Cardinality(Stock) \in Nat /\ Cardinality(Stock) <= Len(idle) /\ Len(idle) \in Nat
          BY <1>2, StockSize DEF IInv, TypeOK
        <5> QED  BY <5>1, <5>2, TargetType
      <4>3. Contract!Offer(k)
        <5>1. Contract!Cardinality(Stock) = Cardinality(Stock)
          BY DEF Contract!Cardinality, Cardinality
        <5> QED  BY <3>1, <4>1, <4>2, <5>1 DEF Contract!Offer
      <4> QED  BY <4>1, <4>3 DEF Contract!Next
    <3> QED  BY <3>2, <3>3
  <2>3. CASE Acquire
    <3> DEFINE k == Head(idle)
    <3>1. k \in Stock /\ k \in Keys /\ Stock' = Stock \ {k} /\ taken' = taken \cup {k}
      BY <1>2, <2>3, AcquireOK, StockSize DEF IInv
    <3>2. Contract!Take(k)
      BY <3>1 DEF Contract!Take
    <3> QED  BY <3>1, <3>2 DEF Contract!Next
  <2>4. ASSUME NEW r \in Starters,
               \/ Start(r) \/ Tick(r) \/ ReserveWarmingSlot(r) \/ CareStep(r)
               \/ WaitReady(r)
        PROVE  UNCHANGED <<idle, taken>>
    BY <2>4 DEF Start, Tick, ReserveWarmingSlot, WaitReady, CareStep, CreateWarmClaim,
       CreateWarmSecret, CreateWarmPod, RollBackSecret, RollBackClaim, PurgeOne
  <2>5. Shutdown \/ ClusterActs \/ UNCHANGED vars => UNCHANGED <<idle, taken>>
    BY DEF Shutdown, ClusterActs, poolVars, vars
  <2> QED  BY <1>2, <2>1, <2>2, <2>3, <2>4, <2>5 DEF Next, Replenisher, CareStep
<1> QED  BY <1>1, <1>2, InitOK, StepOK, PTL DEF Spec, ImplementsContract, Contract!Spec

-----------------------------------------------------------------------------
(* What the pool may lose before a request fails.                          *)

RollbackLabels == {"rollback_secret", "rollback_claim"}

\* Until a request fails, only the shutdown makes Runtime.Create roll back and
\* only the shutdown loses a sandbox, and once it has, no creation is under way
\* that could lose another one.
OneLossEndsIt ==
    faults = MaxFaults =>
        /\ \A r \in Starters : pc[r] \in RollbackLabels => shutdown
        /\ Lost # {} => shutdown /\ \A r \in Starters : pc[r] \notin CaringLabels
        /\ \A k, l \in Lost : k = l

\* Faults are only ever spent, so that MaxFaults of them means none happened.
LossIsBounded == faults <= MaxFaults /\ OneLossEndsIt

\* Who answers for the objects of a sandbox.
Hands == Stock \cup taken \cup {handle[r] : r \in Starters}

\* A step that loses no sandbox, undoes no shutdown, and begins neither a
\* rollback before the shutdown nor a creation when a sandbox has been lost.
LEMMA HandsKeep ==
    ASSUME LossIsBounded, faults' <= faults, faults' \in Nat, faults \in Nat,
           faults' = MaxFaults => Lost' \subseteq Lost,
           shutdown => shutdown',
           faults' = MaxFaults => \A r \in Starters :
               /\ pc'[r] \in RollbackLabels => pc[r] \in RollbackLabels \/ shutdown'
               /\ Lost # {} /\ pc'[r] \in CaringLabels => pc[r] \in CaringLabels
    PROVE  LossIsBounded'
<1>1. faults' <= MaxFaults /\ (faults' = MaxFaults => faults = MaxFaults)
  BY PoolAssumption DEF LossIsBounded
<1>2. ASSUME faults' = MaxFaults
      PROVE  /\ \A r \in Starters : pc'[r] \in RollbackLabels => shutdown'
             /\ Lost' # {} => shutdown' /\ \A r \in Starters : pc'[r] \notin CaringLabels
             /\ \A k, l \in Lost' : k = l
  BY <1>1, <1>2 DEF LossIsBounded, OneLossEndsIt
<1> QED  BY <1>1, <1>2 DEF LossIsBounded, OneLossEndsIt

\* The step that loses sandbox k, in the shutdown.
LEMMA HandsLoseOne ==
    ASSUME LossIsBounded, UNCHANGED faults, NEW k, Lost' \subseteq {k},
           shutdown', \A r \in Starters : pc'[r] \notin CaringLabels
    PROVE  LossIsBounded'
BY DEF LossIsBounded, OneLossEndsIt, CaringLabels, RollbackLabels

\* Nothing is lost by a step after which every object belongs to a sandbox that
\* had an object before and is let go of by nobody, or is in somebody's hands.
LEMMA LostBy ==
    ASSUME \A k \in Keys : Retained(k)' =>
               (Retained(k) /\ (k \in Hands => k \in Hands')) \/ k \in Hands'
    PROVE  Lost' \subseteq Lost
BY DEF Lost, Hands

\* A step on the objects of sandbox k can lose no other sandbox, and not k either
\* when the replenisher keeps its handle.
LEMMA LostByOne ==
    ASSUME IInv, NEW r \in Starters, NEW k \in Keys, NEW h, handle' = [handle EXCEPT ![r] = h],
           UNCHANGED <<idle, taken>>, handle[r] \in {None, k},
           \/ CreateClaim(k) \/ CreateSecretObject(k) \/ CreatePodMounting(k, k)
           \/ DeleteSecret(k) \/ DeleteClaim(k) \/ UNCHANGED clusterVars
    PROVE  Lost' \subseteq Lost \cup {k} /\ (h = k => Lost' \subseteq Lost)
<1>0. /\ handle \in [Starters -> Keys \cup {None}]
      /\ pods \in [Keys -> [phase : PodPhases, claim : Keys \cup {None}]]
      /\ pvcs \in [Keys -> ClaimPhases] /\ secrets \in [Keys -> BOOLEAN]
      /\ Stock' = Stock
  BY DEF IInv, TypeOK, ClusterTypeOK, Stock
<1>1. handle'[r] = h /\ \A q \in Starters : q # r => handle'[q] = handle[q]
  BY <1>0
<1>2. \A l \in Keys : l # k => pods'[l] = pods[l] /\ pvcs'[l] = pvcs[l] /\ secrets'[l] = secrets[l]
  BY <1>0 DEF CreateClaim, CreateSecretObject, CreatePodMounting, DeleteSecret, DeleteClaim, clusterVars
<1>3. \A l \in Keys : l # k => (Retained(l)' <=> Retained(l))
  BY <1>2 DEF Retained, PodAlive
<1>4. \A l \in Keys : l # k /\ l \in Hands => l \in Hands'
  BY <1>0, <1>1, NoneIsNoKey DEF Hands
<1>5. h = k => k \in Hands'
  BY <1>1 DEF Hands
<1>6. \A l \in Keys : l # k /\ l \in Lost' => l \in Lost
  BY <1>3, <1>4 DEF Lost, Hands
<1>7. Lost' \subseteq Keys /\ (h = k => k \notin Lost')
  BY <1>5 DEF Lost, Hands
<1> QED  BY <1>6, <1>7

\* A step that leaves the objects and the handles alone.
LEMMA LossQuiet ==
    ASSUME IInv, LossIsBounded, UNCHANGED <<handle, taken, faults, clusterVars>>, Stock \subseteq Stock',
           shutdown => shutdown',
           \A r \in Starters : /\ pc'[r] \in RollbackLabels => pc[r] \in RollbackLabels
                               /\ pc'[r] \in CaringLabels => pc[r] \in CaringLabels
    PROVE  LossIsBounded'
<1>1. \A k : k \in Hands => k \in Hands'
  BY DEF Hands
<1>2. \A k : Retained(k)' <=> Retained(k)
  BY DEF Retained, PodAlive, clusterVars
<1>3. faults \in Nat /\ faults' <= faults
  BY DEF IInv, TypeOK
<1>4. Lost' \subseteq Lost
  BY <1>1, <1>2, LostBy
<1> QED  BY <1>3, <1>4, HandsKeep

\* A purge answered in full leaves nothing to lose.
LEMMA LossPurge ==
    ASSUME IInv, LossIsBounded, NEW r \in Starters, PurgeOne(r)
    PROVE  LossIsBounded'
<1>1. PICK k : k = handle[r]
  OBVIOUS
<1>2. /\ handle \in [Starters -> Keys \cup {None}] /\ faults \in Nat /\ pc \in [Starters -> Labels]
      /\ pods \in [Keys -> [phase : PodPhases, claim : Keys \cup {None}]]
      /\ pvcs \in [Keys -> ClaimPhases] /\ secrets \in [Keys -> BOOLEAN]
      /\ Stock' = Stock /\ taken' = taken /\ shutdown' = shutdown
      /\ k \in Keys /\ handle' = [handle EXCEPT ![r] = None] /\ pc' = [pc EXCEPT ![r] = "finish"]
  BY <1>1 DEF IInv, TypeOK, ClusterTypeOK, HandlesApart, Stock, PurgeOne, CaringLabels, Goto
<1>3. \A q \in Starters : /\ pc'[q] \in RollbackLabels => pc[q] \in RollbackLabels
                          /\ pc'[q] \in CaringLabels => pc[q] \in CaringLabels
  BY <1>2 DEF RollbackLabels, CaringLabels
<1>4. CASE faults > 0 /\ faults' = faults - 1
  <2>1. faults' \in Nat /\ faults' <= faults /\ faults' # MaxFaults
    BY <1>2, <1>4, PoolAssumption DEF LossIsBounded
  <2> QED  BY <1>2, <2>1, HandsKeep
<1>5. CASE /\ pods' = [pods EXCEPT ![k].phase = "terminating"]
           /\ secrets' = [secrets EXCEPT ![k] = FALSE]
           /\ pvcs' = [pvcs EXCEPT ![k] = "terminating"]
           /\ UNCHANGED faults
  <2>1. \A q \in Starters : q # r => handle'[q] = handle[q]
    BY <1>2
  <2>2. \A l \in Keys : l \in Hands /\ l # k => l \in Hands'
    BY <1>1, <1>2, <2>1 DEF Hands
  <2>3. /\ pods'[k].phase = "terminating" /\ pvcs'[k] = "terminating" /\ ~ secrets'[k]
        /\ \A l \in Keys : l # k => pods'[l] = pods[l] /\ pvcs'[l] = pvcs[l] /\ secrets'[l] = secrets[l]
    BY <1>2, <1>5
  <2>4. ~ Retained(k)' /\ \A l \in Keys : l # k => (Retained(l)' <=> Retained(l))
    BY <2>3 DEF Retained, PodAlive
  <2>5. Lost' \subseteq Lost
    BY <2>2, <2>4, LostBy
  <2> QED  BY <1>2, <1>3, <1>5, <2>5, HandsKeep
<1> QED  BY <1>1, <1>4, <1>5 DEF PurgeOne

\* A creation is under way with nothing lost.  It keeps its handle while its
\* requests are answered and while it rolls back; where it forgets the handle
\* without a purge, the server shuts down, and no other creation follows.
LEMMA LossCaring ==
    ASSUME IInv, LossIsBounded, NEW r \in Starters, CareStep(r)
    PROVE  LossIsBounded'
<1>0. /\ handle \in [Starters -> Keys \cup {None}] /\ pc \in [Starters -> Labels]
      /\ faults \in Nat /\ handle = [handle EXCEPT ![r] = handle[r]]
      /\ pc[r] \in CaringLabels => handle[r] \in Keys
      /\ pc[r] = "create" => handle[r] = None
  BY DEF IInv, TypeOK, HandlesApart, CaringLabels
<1>1. UNCHANGED <<idle, taken>> /\ pc[r] \in WarmingLabels
  BY DEF CareStep, CreateWarmClaim, CreateWarmSecret, CreateWarmPod, RollBackSecret, RollBackClaim,
     PurgeOne, WarmingLabels, CaringLabels
<1>2. \A q \in Starters : q # r => pc[q] \notin CaringLabels
  BY <1>1 DEF IInv, OneReplenisher, Running, WarmingLabels, CaringLabels
<1>3. ASSUME NEW label, Goto(r, label)
      PROVE  pc'[r] = label /\ \A q \in Starters : q # r => pc'[q] \notin CaringLabels
  BY <1>0, <1>2, <1>3 DEF Goto
<1>4. ASSUME faults > 0, faults' = faults - 1, shutdown => shutdown'
      PROVE  LossIsBounded'
  <2>1. faults' \in Nat /\ faults' <= faults /\ faults' # MaxFaults
    BY <1>0, <1>4, PoolAssumption DEF LossIsBounded
  <2> QED  BY <1>0, <1>4, <2>1, HandsKeep
<1>5. faults = MaxFaults /\ (~ shutdown \/ pc[r] \in CaringLabels) => Lost = {}
  BY DEF LossIsBounded, OneLossEndsIt
<1>6. UNCHANGED faults /\ faults # MaxFaults => LossIsBounded'
  BY DEF LossIsBounded, OneLossEndsIt
\* The handle is kept.
<1>7. ASSUME NEW k \in Keys, NEW label, Goto(r, label), handle' = [handle EXCEPT ![r] = k],
             handle[r] \in {None, k}, UNCHANGED faults, ~ shutdown \/ pc[r] \in CaringLabels,
             shutdown => shutdown', label \in RollbackLabels => shutdown' \/ pc[r] \in RollbackLabels,
             \/ CreateClaim(k) \/ CreateSecretObject(k) \/ CreatePodMounting(k, k)
             \/ DeleteSecret(k) \/ UNCHANGED clusterVars
      PROVE  LossIsBounded'
  <2>1. Lost' \subseteq Lost
    BY <1>1, <1>7, LostByOne
  <2>2. faults = MaxFaults => Lost = {}
    BY <1>5, <1>7
  <2>3. \A q \in Starters : pc'[q] \in RollbackLabels => pc[q] \in RollbackLabels \/ shutdown'
    BY <1>3, <1>7 DEF RollbackLabels, CaringLabels
  <2> QED  BY <1>0, <1>7, <2>1, <2>2, <2>3, HandsKeep
\* The handle is forgotten.
<1>8. ASSUME NEW k \in Keys, Forget(r), handle[r] \in {None, k}, UNCHANGED faults, shutdown',
             ~ shutdown \/ pc[r] \in CaringLabels,
             \/ CreateClaim(k) \/ CreateSecretObject(k) \/ DeleteClaim(k) \/ UNCHANGED clusterVars
      PROVE  LossIsBounded'
  <2>1. CASE faults = MaxFaults
    <3>1. Lost' \subseteq {k}
      BY <1>1, <1>5, <1>8, <2>1, LostByOne DEF Forget
    <3>2. \A q \in Starters : pc'[q] \notin CaringLabels
      BY <1>3, <1>8 DEF Forget, CaringLabels
    <3> QED  BY <1>8, <3>1, <3>2, HandsLoseOne
  <2> QED  BY <1>6, <1>8, <2>1
<1>9. CASE CreateWarmClaim(r)
  <2>1. PICK k \in Keys \ used :
          \/ /\ Answered(CreateClaim(k))
             /\ handle' = [handle EXCEPT ![r] = k]
             /\ Goto(r, "create_secret")
          \/ Refused(CreateClaim(k)) /\ Forget(r)
    BY <1>9 DEF CreateWarmClaim
  <2>2. handle[r] = None /\ pc[r] = "create"
    BY <1>0, <1>9 DEF CreateWarmClaim
  <2>3. CASE Answered(CreateClaim(k)) /\ handle' = [handle EXCEPT ![r] = k] /\ Goto(r, "create_secret")
    <3>1. "create_secret" \notin RollbackLabels
      BY DEF RollbackLabels
    <3> QED  BY <1>7, <2>2, <2>3, <3>1 DEF Answered
  <2>4. CASE Fails(CreateClaim(k))
    BY <1>4, <2>4 DEF Fails
  <2>5. CASE Cancelled(CreateClaim(k)) /\ Forget(r) /\ ~ shutdown
    BY <1>8, <2>2, <2>5 DEF Cancelled
  <2>6. CASE Cancelled(CreateClaim(k)) /\ Forget(r) /\ shutdown
    <3>1. UNCHANGED <<handle, taken, faults, clusterVars>> /\ Stock' = Stock /\ shutdown'
      BY <1>0, <1>1, <2>2, <2>6 DEF Cancelled, Forget, Stock
    <3>2. \A q \in Starters : pc'[q] \notin CaringLabels /\ pc'[q] \notin RollbackLabels
      BY <1>3, <2>6 DEF Forget, CaringLabels, RollbackLabels
    <3> QED  BY <3>1, <3>2, LossQuiet
  <2> QED  BY <2>1, <2>3, <2>4, <2>5, <2>6 DEF Refused
<1>10. CASE CreateWarmSecret(r)
  <2>1. pc[r] \in CaringLabels /\ handle[r] \in Keys
    BY <1>0, <1>10 DEF CreateWarmSecret, CaringLabels
  <2>2. CASE Answered(CreateSecretObject(handle[r])) /\ Goto(r, "create_pod") /\ UNCHANGED handle
    <3>1. "create_pod" \notin RollbackLabels
      BY DEF RollbackLabels
    <3> QED  BY <1>0, <1>7, <2>1, <2>2, <3>1 DEF Answered
  <2>3. CASE Fails(CreateSecretObject(handle[r]))
    BY <1>4, <2>3 DEF Fails
  <2>4. CASE Cancelled(CreateSecretObject(handle[r])) /\ Forget(r)
    BY <1>8, <2>1, <2>4 DEF Cancelled
  <2> QED  BY <1>10, <2>2, <2>3, <2>4 DEF CreateWarmSecret, Refused
<1>11. CASE CreateWarmPod(r)
  <2>1. pc[r] \in CaringLabels /\ handle[r] \in Keys /\ UNCHANGED handle
    BY <1>0, <1>11 DEF CreateWarmPod, CaringLabels
  <2>2. CASE Answered(CreatePodMounting(handle[r], handle[r])) /\ Goto(r, "wait_ready")
    <3>1. "wait_ready" \notin RollbackLabels
      BY DEF RollbackLabels
    <3> QED  BY <1>0, <1>7, <2>1, <2>2, <3>1 DEF Answered
  <2>3. CASE Fails(CreatePodMounting(handle[r], handle[r]))
    BY <1>4, <2>3 DEF Fails
  <2>4. CASE Cancelled(CreatePodMounting(handle[r], handle[r])) /\ Goto(r, "rollback_secret")
    BY <1>0, <1>7, <2>1, <2>4 DEF Cancelled
  <2> QED  BY <1>11, <2>2, <2>3, <2>4 DEF CreateWarmPod, Refused
<1>12. CASE RollBackSecret(r)
  <2>1. pc[r] \in CaringLabels /\ pc[r] \in RollbackLabels /\ handle[r] \in Keys
        /\ UNCHANGED handle /\ Goto(r, "rollback_claim")
    BY <1>0, <1>12 DEF RollBackSecret, CaringLabels, RollbackLabels
  <2>2. CASE DeleteSecret(handle[r]) /\ UNCHANGED <<shutdown, faults>>
    BY <1>0, <1>7, <2>1, <2>2
  <2>3. CASE Fails(DeleteSecret(handle[r]))
    BY <1>4, <2>3 DEF Fails
  <2> QED  BY <1>12, <2>2, <2>3 DEF RollBackSecret, InBackground
<1>13. CASE RollBackClaim(r)
  <2>1. pc[r] \in CaringLabels /\ pc[r] \in RollbackLabels /\ handle[r] \in Keys /\ Forget(r)
    BY <1>0, <1>13 DEF RollBackClaim, CaringLabels, RollbackLabels
  <2>2. CASE DeleteClaim(handle[r]) /\ UNCHANGED <<shutdown, faults>> /\ faults = MaxFaults
    <3>1. shutdown'
      BY <2>1, <2>2 DEF LossIsBounded, OneLossEndsIt
    <3> QED  BY <1>8, <2>1, <2>2, <3>1
  <2>3. CASE Fails(DeleteClaim(handle[r]))
    BY <1>4, <2>3 DEF Fails
  <2> QED  BY <1>6, <1>13, <2>2, <2>3 DEF RollBackClaim, InBackground
<1>14. CASE PurgeOne(r)
  BY <1>14, LossPurge
<1> QED  BY <1>9, <1>10, <1>11, <1>12, <1>13, <1>14 DEF CareStep

\* Every step keeps the bound.
LEMMA LossNext ==
    ASSUME IInv, LossIsBounded, [Next]_vars
    PROVE  LossIsBounded'
<1>0. pc \in [Starters -> Labels]
  BY DEF IInv, TypeOK
<1>1. ASSUME NEW r \in Starters, Start(r) \/ Tick(r) \/ ReserveWarmingSlot(r) \/ WaitReady(r)
      PROVE  LossIsBounded'
  <2>1. \A q \in Starters : /\ pc'[q] \in RollbackLabels => pc[q] \in RollbackLabels
                            /\ pc'[q] \in CaringLabels => pc[q] \in CaringLabels
    BY <1>0, <1>1 DEF Start, Tick, ReserveWarmingSlot, WaitReady, Goto, RollbackLabels, CaringLabels
  <2> QED  BY <1>1, <2>1, LossQuiet DEF Start, Tick, ReserveWarmingSlot, WaitReady, Stock
<1>2. ASSUME NEW r \in Starters, FinishWarming(r)
      PROVE  LossIsBounded'
  <2>1. /\ handle \in [Starters -> Keys \cup {None}] /\ faults \in Nat
        /\ handle' = [handle EXCEPT ![r] = None]
        /\ UNCHANGED <<taken, faults, shutdown, clusterVars>>
    BY <1>2 DEF IInv, TypeOK, FinishWarming
  <2>2. \A q \in Starters : q # r => handle'[q] = handle[q]
    BY <2>1
  <2>3. Stock \subseteq Stock' /\ (handle[r] # None => handle[r] \in Stock')
    BY <1>2, FinishOK DEF Stock
  <2>4. \A k \in Keys : k \in Hands => k \in Hands'
    BY <2>1, <2>2, <2>3, NoneIsNoKey DEF Hands
  <2>5. \A k : Retained(k)' <=> Retained(k)
    BY <2>1 DEF Retained, PodAlive, clusterVars
  <2>6. Lost' \subseteq Lost
    BY <2>4, <2>5, LostBy
  <2>7. \A q \in Starters : /\ pc'[q] \in RollbackLabels => pc[q] \in RollbackLabels
                            /\ pc'[q] \in CaringLabels => pc[q] \in CaringLabels
    BY <1>0, <1>2 DEF FinishWarming, Goto, RollbackLabels, CaringLabels
  <2> QED  BY <2>1, <2>6, <2>7, HandsKeep
<1>3. CASE Acquire
  <2>1. Stock' = Stock \ {Head(idle)} /\ taken' = taken \cup {Head(idle)} /\ faults \in Nat
        /\ UNCHANGED <<pc, handle, faults, shutdown, clusterVars>>
    BY <1>3, AcquireOK DEF Acquire, IInv, TypeOK
  <2>2. \A k : k \in Hands => k \in Hands'
    BY <2>1 DEF Hands
  <2>3. \A k : Retained(k)' <=> Retained(k)
    BY <2>1 DEF Retained, PodAlive, clusterVars
  <2>4. Lost' \subseteq Lost
    BY <2>2, <2>3, LostBy
  <2> QED  BY <2>1, <2>4, HandsKeep
<1>4. CASE Shutdown \/ UNCHANGED vars
  BY <1>4, LossQuiet DEF Shutdown, vars, Stock, clusterVars
<1>5. CASE ClusterActs
  <2>1. UNCHANGED <<idle, pc, handle, taken, shutdown, faults>> /\ faults \in Nat /\ ClusterTypeOK
    BY <1>5 DEF ClusterActs, poolVars, IInv, TypeOK
  <2>2. Hands' = Hands
    BY <2>1 DEF Hands, Stock
  <2>3. ASSUME NEW k \in Keys, Retained(k)'
        PROVE  Retained(k)
    BY <1>5, <2>1, <2>3 DEF ClusterActs, ClusterStep, PodBecomesReady, PodTerminates, ClaimIsReleased,
       ClusterTypeOK, Retained, PodAlive, NoPod
  <2>4. Lost' \subseteq Lost
    BY <2>2, <2>3, LostBy
  <2> QED  BY <2>1, <2>4, HandsKeep
<1> QED  BY <1>1, <1>2, <1>3, <1>4, <1>5, LossCaring DEF Next, Replenisher, CareStep

\* Until a request fails, the living process loses no sandbox before the
\* shutdown, slow creations and pods that never get ready included, and at most
\* one, the one in creation, by the shutdown.
THEOREM NothingIsLost == Spec => []NoLostSandbox
<1>1. Init => LossIsBounded
  <2>1. SUFFICES ASSUME Init PROVE LossIsBounded
    OBVIOUS
  <2>2. \A k \in Keys : ~ Retained(k)
    BY <2>1 DEF Init, EmptyCluster, Retained, PodAlive, NoPod
  <2>3. Lost = {}
    BY <2>2 DEF Lost
  <2>4. \A r \in Starters : pc[r] \notin RollbackLabels
    BY <2>1 DEF Init, RollbackLabels
  <2> QED  BY <2>1, <2>3, <2>4, PoolAssumption DEF Init, LossIsBounded, OneLossEndsIt
<1>2. IInv /\ LossIsBounded /\ [Next]_vars => IInv' /\ LossIsBounded'
  BY StepOK, LossNext
<1>3. LossIsBounded => NoLostSandbox
  BY DEF LossIsBounded, OneLossEndsIt, NoLostSandbox
<1> QED  BY <1>1, <1>2, <1>3, InitOK, PTL DEF Spec
=============================================================================
