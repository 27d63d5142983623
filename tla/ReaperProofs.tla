----------------------------- MODULE ReaperProofs -----------------------------
(***************************************************************************)
(* Proofs about the reaper: types and the activity counts, and that the    *)
(* sweep of orphans spares what is in use, for any number of sessions,     *)
(* warm sandboxes, calls, restarts and failing requests.                   *)
(*                                                                         *)
(* SweepSparesSandboxes is about the moment of a deletion, while what makes *)
(* it true was decided when the objects were listed.  The invariant says   *)
(* what the sweep may rely on in between: a session that was unknown when  *)
(* the pass began uses young objects or those of a warm sandbox (Newcomer), *)
(* so that an old object of its name is a stray, and remains one as long   *)
(* as it is there, because its name is taken.                              *)
(***************************************************************************)
EXTENDS Reaper, TLAPS, FiniteSetTheorems

-----------------------------------------------------------------------------
(* The inductive invariant.                                                *)

Calling == [pc : CallLabels, id : Ids \cup {None}, sess : Record]

Passing == [pc : {"waiting"} \cup SweepLabels \cup PurgeLabels \cup PassLabels,
            known : SUBSET Ids, live : SUBSET Ids, todo : SUBSET Ids,
            late : SUBSET Ids, cur : Ids \cup {None}, sess : Record,
            why : {"none", "max-lifetime", "idle"},
            then : {"waiting", "sweep_pods", "sweep_claims", "mark_dead"}]

\* A session refers to objects of its own name and to those of warm sandboxes.
OwnRefs(s, j) == s.pod \in {j, None} \cup PoolKeys /\ s.pvc \in {j, None} \cup PoolKeys

\* Labels of Create from its claim on, and of Resume.
Building == {"pod_create", "persist", "wait_ready"}
Resuming == {"resume", "resume_wait"}

\* What a call carries fits its label; what it has just built is young.
CallOK(r) ==
    /\ r.pc # "idle" => r.id \in Ids
    /\ OwnRefs(r.sess, r.id)
    /\ r.pc \in Building => /\ r.sess.state = "creating"
                            /\ r.sess.pod = r.sess.pvc /\ r.sess.pod # None
    /\ r.pc = "pod_create" => r.sess.pod = r.id /\ r.id \notin oldClaims
    /\ r.pc \in {"persist", "wait_ready"} /\ r.sess.pod = r.id
         => r.id \notin oldPods \cup oldClaims
    /\ r.pc \in Resuming => Tracked(r.id)

RecordOK(s, j) ==
    /\ OwnRefs(s, j)
    /\ s.state = "absent" => s.pod = None /\ s.pvc = None

Stopping == {"stop_pod", "stop_secret", "mark_stopped"}

\* What the reaper carries fits its label.
PassOK ==
    /\ rp.pc \in PurgeLabels => rp.then # "waiting" /\ rp.cur \notin rp.todo
    /\ rp.pc \in PurgeLabels \cup Stopping \cup {"mark_dead"}
         => rp.cur \in Ids /\ OwnRefs(rp.sess, rp.cur)
    /\ rp.pc \in PurgeLabels /\ rp.then # "mark_dead"
         => rp.sess.pod = rp.cur /\ rp.sess.pvc = rp.cur

\* Calls in flight on i, which active[i] counts.
InFlight(i) == {c \in Callers : call[c].pc = "run" /\ call[c].id = i}
Counted == \A i \in Ids : active[i] = Cardinality(InFlight(i))

\* What is true, during the lists of a sweep, of a session that was unknown when
\* it began: if it has come meanwhile, its sandbox is young or was warm.
Newcomer(j) ==
    /\ store[j].state # "stopped" /\ store[j].pod = store[j].pvc
    /\ store[j].pod = j => j \notin oldPods \cup oldClaims
    /\ \A c \in Callers : Id(c) = j => call[c].pc \notin Resuming

\* A pod of the name of j that neither j nor a call creating j uses, ...
StrayPod(j) ==
    /\ PodAlive(j) /\ store[j].pod # j
    /\ \A c \in Callers : Id(c) = j /\ call[c].pc \in {"persist", "wait_ready"}
                            => call[c].sess.pod # j

\* ... and such a claim.
StrayClaim(j) ==
    /\ pvcs[j] = "bound"
    /\ store[j].state # "stopped" /\ store[j].pod = store[j].pvc /\ store[j].pvc # j
    /\ \A c \in Callers : Id(c) = j =>
         /\ call[c].pc \notin Resuming \cup {"pod_create"}
         /\ call[c].pc \in Building => call[c].sess.pvc # j

\* The reaper is at the loop of the given label, or purges a sandbox for it.
Sweeps(label) == rp.pc = label \/ (rp.pc \in PurgeLabels /\ rp.then = label)
Listing == rp.pc \in {"list_pods", "list_claims"} \/ Sweeps("sweep_pods")

CallsOK == \A c \in Callers : CallOK(call[c])
RecordsOK == \A j \in Ids : RecordOK(store[j], j)
Newcomers == Listing => \A j \in Ids \ rp.known : Newcomer(j)
StrayPods ==
    /\ Sweeps("sweep_pods") => rp.todo \cap rp.known = {} /\ \A j \in rp.todo : StrayPod(j)
    /\ rp.pc = "purge_pod" /\ rp.then = "sweep_pods"
         => rp.cur \notin rp.known /\ StrayPod(rp.cur)
StrayClaims ==
    /\ Sweeps("sweep_claims") => \A j \in rp.todo : StrayClaim(j)
    /\ rp.pc \in PurgeLabels /\ rp.then = "sweep_claims" => StrayClaim(rp.cur)

IInv == /\ TypeOK /\ Counted /\ CallsOK /\ RecordsOK /\ PassOK
        /\ Newcomers /\ StrayPods /\ StrayClaims

-----------------------------------------------------------------------------
(* Types and counts.                                                       *)

\* Session ids and the names of warm sandboxes are different names.
LEMMA KeyFacts ==
    /\ Ids \subseteq Keys /\ PoolKeys \subseteq Keys /\ Ids \cap PoolKeys = {}
    /\ None \notin Keys /\ None \notin Ids /\ None \notin PoolKeys
BY ReaperAssumption, NoneIsNoKey DEF ReaperAssumption

\* The initial records are typed and refer to nothing.
LEMMA NothingYet ==
    /\ Absent \in Record /\ NoCall \in Calling /\ Waiting \in Passing
    /\ \A j : RecordOK(Absent, j)
<1>1. Absent \in Record
  BY DEF Absent, Record
<1> QED  BY <1>1 DEF NoCall, Calling, CallLabels, Waiting, Passing, RecordOK, OwnRefs, Absent

\* What TypeOK says, under the names of this module, before and after a step.
LEMMA Types ==
    TypeOK <=>
      /\ pods \in [Keys -> [phase : PodPhases, claim : Keys \cup {None}]]
      /\ pvcs \in [Keys -> ClaimPhases]
      /\ secrets \in [Keys -> BOOLEAN]
      /\ store \in [Ids -> Record]
      /\ stock \subseteq PoolKeys
      /\ oldPods \subseteq Ids /\ oldClaims \subseteq Ids
      /\ active \in [Ids -> 0 .. Cardinality(Callers)]
      /\ call \in [Callers -> Calling]
      /\ rp \in Passing
      /\ restarts \in 0 .. MaxRestarts
      /\ faults \in 0 .. MaxFaults
BY DEF TypeOK, ClusterTypeOK, Calling, Passing

\* The same of the state after a step.
LEMMA TypesAfter ==
    TypeOK' <=>
      /\ pods' \in [Keys -> [phase : PodPhases, claim : Keys \cup {None}]]
      /\ pvcs' \in [Keys -> ClaimPhases]
      /\ secrets' \in [Keys -> BOOLEAN]
      /\ store' \in [Ids -> Record]
      /\ stock' \subseteq PoolKeys
      /\ oldPods' \subseteq Ids /\ oldClaims' \subseteq Ids
      /\ active' \in [Ids -> 0 .. Cardinality(Callers)]
      /\ call' \in [Callers -> Calling]
      /\ rp' \in Passing
      /\ restarts' \in 0 .. MaxRestarts
      /\ faults' \in 0 .. MaxFaults
BY DEF TypeOK, ClusterTypeOK, Calling, Passing

\* An activity count is a number of calls.
LEMMA CountsAreSmall ==
    ASSUME NEW S, S \subseteq Callers
    PROVE  IsFiniteSet(S) /\ Cardinality(S) \in 0 .. Cardinality(Callers)
<1>1. IsFiniteSet(Callers)
  BY ReaperAssumption DEF ReaperAssumption
<1>2. IsFiniteSet(S) /\ Cardinality(S) <= Cardinality(Callers)
  BY <1>1, FS_Subset
<1> QED  BY <1>1, <1>2, FS_CardinalityType

\* As long as no call begins or ends, the counts are right.
LEMMA CountsKept ==
    ASSUME Counted, UNCHANGED active,
           \A c \in Callers : /\ call'[c].pc = "run" <=> call[c].pc = "run"
                              /\ call[c].pc = "run" => call'[c].id = call[c].id
    PROVE  Counted'
<1> SUFFICES ASSUME NEW i \in Ids PROVE active'[i] = Cardinality(InFlight(i)')
  BY DEF Counted
<1>1. InFlight(i)' = InFlight(i)
  BY DEF InFlight
<1> QED  BY <1>1 DEF Counted

\* A right count is a typed one.
LEMMA CountsTyped ==
    ASSUME Counted, DOMAIN active = Ids, active = [i \in Ids |-> active[i]]
    PROVE  active \in [Ids -> 0 .. Cardinality(Callers)]
<1>1. ASSUME NEW i \in Ids PROVE active[i] \in 0 .. Cardinality(Callers)
  <2>1. InFlight(i) \subseteq Callers
    BY DEF InFlight
  <2> QED  BY <2>1, CountsAreSmall DEF Counted
<1> QED  BY <1>1

\* Continue changes the label and the clone of one call ...
LEMMA Continued ==
    ASSUME TypeOK, NEW c \in Callers, NEW label \in CallLabels, NEW s \in Record,
           Continue(c, label, s)
    PROVE  /\ call' \in [Callers -> Calling]
           /\ call'[c].pc = label /\ call'[c].sess = s /\ call'[c].id = Id(c)
           /\ \A d \in Callers \ {c} : call'[d] = call[d]
<1>1. call \in [Callers -> Calling]
  BY Types
<1>2. PICK r \in Calling : r = call[c]
  BY <1>1
<1>3. PICK z : z = [r EXCEPT !.pc = label, !.sess = s]
  OBVIOUS
<1>4. z \in Calling /\ z.pc = label /\ z.sess = s /\ z.id = r.id
  BY <1>3 DEF Calling
<1>5. call' = [call EXCEPT ![c] = z]
  BY <1>2, <1>3 DEF Continue
<1> QED  BY <1>1, <1>2, <1>4, <1>5 DEF Id

\* ... and a call that fails or returns is over.
LEMMA Failed ==
    ASSUME TypeOK, NEW c \in Callers, Fail(c)
    PROVE  /\ call' \in [Callers -> Calling]
           /\ call'[c] = NoCall
           /\ \A d \in Callers \ {c} : call'[d] = call[d]
BY Types, NothingYet DEF Fail

\* The effects on the objects keep them typed and concern the given names only.
LEMMA PodAndSecretDeleted ==
    ASSUME TypeOK, NEW k, DeleteSecretAndPod(k)
    PROVE  /\ pods' \in [Keys -> [phase : PodPhases, claim : Keys \cup {None}]]
           /\ secrets' \in [Keys -> BOOLEAN]
           /\ \A l \in Keys \ {k} : pods'[l] = pods[l]
<1>1. /\ pods \in [Keys -> [phase : PodPhases, claim : Keys \cup {None}]]
      /\ secrets \in [Keys -> BOOLEAN]
  BY Types
<1>2. secrets' \in [Keys -> BOOLEAN]
  BY <1>1 DEF DeleteSecretAndPod
<1>3. CASE pods' = [pods EXCEPT ![k].phase = "terminating"]
  <2>1. ASSUME k \in Keys
        PROVE  [pods[k] EXCEPT !.phase = "terminating"]
                 \in [phase : PodPhases, claim : Keys \cup {None}]
    BY <1>1, <2>1 DEF PodPhases
  <2> QED  BY <1>1, <1>2, <1>3, <2>1
<1>4. CASE pods' = pods
  BY <1>1, <1>2, <1>4
<1> QED  BY <1>3, <1>4 DEF DeleteSecretAndPod

\* Purge of all objects concerns the pod and the claim it is given, ...
LEMMA AllPurged ==
    ASSUME TypeOK, NEW k, NEW claim, PurgeAll(k, claim)
    PROVE  /\ ClusterTypeOK'
           /\ \A l \in Keys \ {k} : pods'[l] = pods[l]
           /\ \A l \in Keys \ {claim} : pvcs'[l] = pvcs[l]
           /\ UNCHANGED ages
<1>1. pvcs \in [Keys -> ClaimPhases]
  BY Types
<1>2. pvcs' = [pvcs EXCEPT ![claim] = IF pvcs[claim] = "none" THEN "none" ELSE "terminating"]
      /\ DeleteSecretAndPod(k) /\ UNCHANGED ages
  BY DEF PurgeAll
<1>3. pvcs' \in [Keys -> ClaimPhases] /\ \A l \in Keys \ {claim} : pvcs'[l] = pvcs[l]
  BY <1>1, <1>2 DEF ClaimPhases
<1> QED  BY <1>2, <1>3, PodAndSecretDeleted DEF ClusterTypeOK

\* ... a creation the pod, which is young, ...
LEMMA SecretAndPodCreated ==
    ASSUME TypeOK, NEW k \in Keys, NEW claim \in Keys \cup {None}, CreateSecretAndPod(k, claim)
    PROVE  /\ ClusterTypeOK'
           /\ \A l \in Keys \ {k} : pods'[l] = pods[l]
           /\ UNCHANGED <<pvcs, oldClaims>>
           /\ oldPods' = oldPods \ {k}
<1>1. [phase |-> "starting", claim |-> claim] \in [phase : PodPhases, claim : Keys \cup {None}]
  BY DEF PodPhases
<1> QED  BY <1>1, Types DEF CreateSecretAndPod, ClusterTypeOK

\* ... DeleteClaim the claim, ...
LEMMA ClaimDeleted ==
    ASSUME TypeOK, NEW k, DeleteClaim(k)
    PROVE  /\ ClusterTypeOK' /\ UNCHANGED pods
           /\ \A l \in Keys \ {k} : pvcs'[l] = pvcs[l]
BY Types DEF DeleteClaim, ClusterTypeOK, ClaimPhases

\* ... and DeletePod the pod.
LEMMA PodDeleted ==
    ASSUME TypeOK, NEW k, DeletePod(k)
    PROVE  /\ ClusterTypeOK' /\ UNCHANGED pvcs
           /\ \A l \in Keys \ {k} : pods'[l] = pods[l]
<1>1. /\ pods \in [Keys -> [phase : PodPhases, claim : Keys \cup {None}]]
      /\ pvcs \in [Keys -> ClaimPhases] /\ secrets \in [Keys -> BOOLEAN]
  BY Types
<1>2. UNCHANGED <<pvcs, secrets>>
  BY DEF DeletePod
<1>3. CASE pods' = [pods EXCEPT ![k].phase = "terminating"]
  <2>1. ASSUME k \in Keys
        PROVE  [pods[k] EXCEPT !.phase = "terminating"]
                 \in [phase : PodPhases, claim : Keys \cup {None}]
    BY <1>1, <2>1 DEF PodPhases
  <2> QED  BY <1>1, <1>2, <1>3, <2>1 DEF ClusterTypeOK
<1>4. CASE pods' = pods
  BY <1>1, <1>2, <1>4 DEF ClusterTypeOK
<1> QED  BY <1>3, <1>4 DEF DeletePod
-----------------------------------------------------------------------------
(* Steps of a call.                                                        *)

\* A step of call c on session i leaves the reaper, the other calls and the
\* other sessions with their objects alone, and makes nothing old.
Frame(c, i) ==
    /\ UNCHANGED rp
    /\ call[c].pc = "idle" \/ Id(c) = i
    /\ call'[c].id = i \/ call'[c] = NoCall
    /\ \A d \in Callers \ {c} : call'[d] = call[d]
    /\ \A j \in Ids \ {i} : store'[j] = store[j] /\ pods'[j] = pods[j] /\ pvcs'[j] = pvcs[j]
    /\ oldPods' \subseteq oldPods /\ oldClaims' \subseteq oldClaims

\* What such a step has to keep of i itself.
Home(c, i) ==
    /\ CallOK(call[c])'
    /\ \A d \in Callers \ {c} : Id(d) = i /\ call[d].pc \in Resuming => Tracked(i)'
    /\ RecordOK(store'[i], i)
    /\ Newcomer(i) => Newcomer(i)'
    /\ Newcomer(i) /\ StrayPod(i) => StrayPod(i)'
    /\ StrayClaim(i) => StrayClaim(i)'

\* Then it keeps the invariant.
LEMMA CallKeeps ==
    ASSUME IInv, NEW c \in Callers, NEW i \in Ids, Frame(c, i), Home(c, i), TypeOK', Counted'
    PROVE  IInv'
<1>1. None \notin Ids /\ NoCall.id = None /\ NoCall.pc = "idle"
  BY KeyFacts DEF NoCall
<1>2. ASSUME NEW d \in Callers PROVE CallOK(call[d])'
  <2>1. CASE d = c
    BY <2>1 DEF Home
  <2>2. CASE d # c
    <3>0. PICK r : r = call[d]
      OBVIOUS
    <3>1. call'[d] = r
      BY <2>2, <3>0 DEF Frame
    <3>2. CallOK(r)
      BY <3>0 DEF IInv, CallsOK
    <3>3. r.pc \in Resuming => store'[r.id].state # "absent"
      <4>1. CASE r.id = i
        BY <2>2, <3>0, <4>1 DEF Home, Id, Tracked
      <4>2. CASE r.id # i
        <5>1. r.pc \in Resuming => r.id \in Ids \ {i} /\ Tracked(r.id)
          BY <3>2, <4>2 DEF CallOK, Resuming
        <5> QED  BY <5>1 DEF Frame, Tracked
      <4> QED  BY <4>1, <4>2
    <3>4. CallOK(r)'
      BY <3>2, <3>3 DEF Frame, CallOK, Tracked
    <3> QED  BY <3>1, <3>4
  <2> QED  BY <2>1, <2>2
<1>3. ASSUME NEW j \in Ids PROVE RecordOK(store[j], j)'
  BY DEF Home, Frame, IInv, RecordsOK, RecordOK, OwnRefs
<1>4. ASSUME NEW j \in Ids, j # i, NEW d \in Callers, call'[d].id = j
      PROVE  call'[d] = call[d]
  BY <1>1, <1>4 DEF Frame
<1>5. ASSUME NEW j \in Ids, Newcomer(j) PROVE Newcomer(j)'
  <2>1. CASE j = i
    BY <1>5, <2>1 DEF Home
  <2>2. CASE j # i
    <3>1. store'[j] = store[j] /\ oldPods' \subseteq oldPods /\ oldClaims' \subseteq oldClaims
      BY <2>2 DEF Frame
    <3> QED  BY <1>4, <1>5, <2>2, <3>1 DEF Newcomer, Id
  <2> QED  BY <2>1, <2>2
<1>6. ASSUME NEW j \in Ids, Newcomer(j), StrayPod(j) PROVE StrayPod(j)'
  <2>1. CASE j = i
    BY <1>6, <2>1 DEF Home
  <2>2. CASE j # i
    <3>1. store'[j] = store[j] /\ pods'[j] = pods[j]
      BY <2>2 DEF Frame
    <3> QED  BY <1>4, <1>6, <2>2, <3>1 DEF StrayPod, PodAlive, Id
  <2> QED  BY <2>1, <2>2
<1>7. ASSUME NEW j \in Ids, StrayClaim(j) PROVE StrayClaim(j)'
  <2>1. CASE j = i
    BY <1>7, <2>1 DEF Home
  <2>2. CASE j # i
    <3>1. store'[j] = store[j] /\ pvcs'[j] = pvcs[j]
      BY <2>2 DEF Frame
    <3> QED  BY <1>4, <1>7, <2>2, <3>1 DEF StrayClaim, Id
  <2> QED  BY <2>1, <2>2
<1>8. rp' = rp /\ rp \in Passing
  BY Types DEF Frame, IInv
<1>9. PassOK'
  BY <1>8 DEF IInv, PassOK, OwnRefs
<1>10. Newcomers'
  BY <1>5, <1>8 DEF IInv, Newcomers, Listing, Sweeps
<1>11. StrayPods'
  <2>0. PICK q : q = rp
    OBVIOUS
  <2>1. rp.todo \subseteq Ids
    BY <1>8 DEF Passing
  <2>2. Sweeps("sweep_pods") => \A j \in rp.todo : j \in Ids \ rp.known /\ StrayPod(j) /\ Newcomer(j)
    BY <2>1 DEF IInv, StrayPods, Newcomers, Listing
  <2>3. rp.pc = "purge_pod" /\ rp.then = "sweep_pods"
          => rp.cur \in Ids \ rp.known /\ StrayPod(rp.cur) /\ Newcomer(rp.cur)
    BY DEF IInv, StrayPods, Newcomers, Listing, Sweeps, PurgeLabels, PassOK
  <2>4. Sweeps("sweep_pods")' <=> Sweeps("sweep_pods")
    BY <1>8 DEF Sweeps
  <2>5. Sweeps("sweep_pods") => \A j \in q.todo : StrayPod(j)'
    BY <1>6, <2>0, <2>1, <2>2
  <2>6. q.pc = "purge_pod" /\ q.then = "sweep_pods" => StrayPod(q.cur)'
    BY <1>6, <2>0, <2>3
  <2> QED  BY <1>8, <2>0, <2>2, <2>3, <2>4, <2>5, <2>6 DEF StrayPods
<1>12. StrayClaims'
  <2>0. PICK q : q = rp
    OBVIOUS
  <2>1. rp.todo \subseteq Ids
    BY <1>8 DEF Passing
  <2>2. Sweeps("sweep_claims")' <=> Sweeps("sweep_claims")
    BY <1>8 DEF Sweeps
  <2>3. Sweeps("sweep_claims") => \A j \in q.todo : StrayClaim(j)'
    BY <1>7, <2>0, <2>1 DEF IInv, StrayClaims
  <2>4. q.pc \in PurgeLabels /\ q.then = "sweep_claims" => StrayClaim(q.cur)'
    BY <1>7, <2>0 DEF IInv, StrayClaims, PassOK
  <2> QED  BY <1>8, <2>0, <2>2, <2>3, <2>4 DEF StrayClaims
<1> QED  BY <1>2, <1>3, <1>9, <1>10, <1>11, <1>12 DEF IInv, CallsOK, RecordsOK

\* What is typed after a step of a call.
LEMMA CallTyped ==
    ASSUME TypeOK, ClusterTypeOK', call' \in [Callers -> Calling], store' \in [Ids -> Record],
           stock' \subseteq PoolKeys, oldPods' \subseteq oldPods, oldClaims' \subseteq oldClaims,
           UNCHANGED <<active, rp, budget>>
    PROVE  TypeOK'
BY Types, TypesAfter DEF budget, ClusterTypeOK

\* What is known of a call in progress.
LEMMA CallFacts ==
    ASSUME IInv, NEW c \in Callers, call[c].pc # "idle"
    PROVE  /\ Id(c) \in Ids /\ Id(c) \in Keys /\ Id(c) \notin PoolKeys /\ Id(c) # None
           /\ call[c] \in Calling /\ CallOK(call[c]) /\ call[c].sess \in Record
           /\ store[Id(c)] \in Record /\ RecordOK(store[Id(c)], Id(c))
<1>1. call[c] \in Calling /\ CallOK(call[c])
  BY Types DEF IInv, CallsOK
<1>2. Id(c) \in Ids /\ call[c].sess \in Record
  BY <1>1 DEF CallOK, Id, Calling
<1>3. store[Id(c)] \in Record /\ RecordOK(store[Id(c)], Id(c))
  BY <1>2, Types DEF IInv, RecordsOK
<1> QED  BY <1>1, <1>2, <1>3, KeyFacts

\* A call that arrives.
LEMMA Arrived ==
    ASSUME TypeOK, NEW c \in Callers, NEW i \in Ids, NEW label \in CallLabels, NEW s \in Record,
           call' = [call EXCEPT ![c] = [pc |-> label, id |-> i, sess |-> s]]
    PROVE  /\ call' \in [Callers -> Calling]
           /\ call'[c].pc = label /\ call'[c].id = i /\ call'[c].sess = s
           /\ \A d \in Callers \ {c} : call'[d] = call[d]
<1>1. [pc |-> label, id |-> i, sess |-> s] \in Calling
  BY DEF Calling
<1> QED  BY <1>1, Types

\* EnsureSession looks at the record of i under its lock: a record that is being
\* forgotten takes its objects with it, no other does.
LEMMA EnsureGetStep ==
    ASSUME IInv, NEW c \in Callers, NEW i \in Ids, EnsureGet(c, i)
    PROVE  IInv'
<1> DEFINE s == store[i]
<1>1. /\ i \in Keys /\ i \notin PoolKeys /\ i # None
      /\ s \in Record /\ RecordOK(s, i) /\ TypeOK /\ Counted
      /\ store \in [Ids -> Record] /\ ClusterTypeOK
  BY KeyFacts, Types DEF IInv, RecordsOK, TypeOK
<1>2. /\ call[c].pc = "idle"
      /\ \A d \in Callers : call[d].pc \in LockLabels => Id(d) # i
      /\ UNCHANGED <<stock, active, rp, budget>>
  BY DEF EnsureGet, At
<1>3. CASE \E label \in {"begin", "resume", "create"} :
             /\ call' = [call EXCEPT ![c] = [pc |-> label, id |-> i, sess |-> s]]
             /\ label = "resume" => s.state = "stopped"
             /\ UNCHANGED <<store, ages, clusterVars>>
  <2>1. PICK label \in {"begin", "resume", "create"} :
             /\ call' = [call EXCEPT ![c] = [pc |-> label, id |-> i, sess |-> s]]
             /\ label = "resume" => s.state = "stopped"
             /\ UNCHANGED <<store, ages, clusterVars>>
    BY <1>3
  <2>2. /\ call' \in [Callers -> Calling]
        /\ call'[c].pc = label /\ call'[c].id = i /\ call'[c].sess = s
        /\ \A d \in Callers \ {c} : call'[d] = call[d]
    BY <1>1, <2>1, Arrived DEF CallLabels
  <2>3. UNCHANGED <<store, oldPods, oldClaims, pods, pvcs, secrets>>
    BY <2>1 DEF ages, clusterVars
  <2> HIDE DEF s
  <2>4. Frame(c, i)
    BY <1>2, <2>2, <2>3 DEF Frame
  <2>5. Counted'
    BY <1>1, <1>2, <2>1, <2>2, CountsKept
  <2>6. TypeOK'
    BY <1>1, <1>2, <2>2, <2>3, CallTyped, Types DEF ClusterTypeOK
  <2>7. CallOK(call[c])'
    BY <1>1, <2>1, <2>2, <2>3 DEF CallOK, RecordOK, Building, Resuming, Tracked, OwnRefs, s
  <2>8. Newcomer(i) => Newcomer(i)' /\ s.state # "stopped"
    BY <2>1, <2>2, <2>3 DEF Newcomer, Id, Resuming, s
  <2>9. StrayPod(i) => StrayPod(i)'
    BY <2>1, <2>2, <2>3 DEF StrayPod, PodAlive, Id
  <2>10. StrayClaim(i) => StrayClaim(i)'
    BY <2>1, <2>2, <2>3 DEF StrayClaim, Id, Resuming, Building, s
  <2>11. Home(c, i)
    BY <1>1, <1>2, <2>3, <2>7, <2>8, <2>9, <2>10 DEF Home, LockLabels, CallLabels, Resuming, s
  <2> QED  BY <2>4, <2>5, <2>6, <2>11, CallKeeps
<1>4. CASE /\ s.state \in {"creating", "dead"}
           /\ call' = [call EXCEPT ![c] = [pc |-> "create", id |-> i, sess |-> Absent]]
           /\ store' = [store EXCEPT ![i] = Absent]
           /\ PurgeAll(s.pod, s.pvc)
  <2>1. Absent \in Record /\ RecordOK(Absent, i)
    BY NothingYet
  <2>2. /\ call' \in [Callers -> Calling]
        /\ call'[c].pc = "create" /\ call'[c].id = i /\ call'[c].sess = Absent
        /\ \A d \in Callers \ {c} : call'[d] = call[d]
    BY <1>1, <1>4, <2>1, Arrived DEF CallLabels
  <2>3. store' \in [Ids -> Record] /\ store'[i] = Absent
        /\ \A j \in Ids \ {i} : store'[j] = store[j]
    BY <1>1, <1>4, <2>1
  <2>4. /\ ClusterTypeOK' /\ UNCHANGED <<oldPods, oldClaims>>
        /\ \A l \in Keys \ {s.pod} : pods'[l] = pods[l]
        /\ \A l \in Keys \ {s.pvc} : pvcs'[l] = pvcs[l]
    BY <1>1, <1>4, AllPurged DEF ages
  <2>5. \A j \in Ids : /\ j # i \/ s.pod # i => pods'[j] = pods[j]
                       /\ j # i \/ s.pvc # i => pvcs'[j] = pvcs[j]
    BY <1>1, <2>4, KeyFacts DEF RecordOK, OwnRefs
  <2>6. Frame(c, i)
    BY <1>2, <2>2, <2>3, <2>4, <2>5 DEF Frame
  <2>7. Counted'
    BY <1>1, <1>2, <2>2, CountsKept
  <2>8. TypeOK'
    BY <1>1, <1>2, <2>2, <2>3, <2>4, CallTyped, Types
  <2>9. CallOK(call[c])'
    BY <2>1, <2>2 DEF CallOK, RecordOK, Building, Resuming
  <2>10. Newcomer(i) => Newcomer(i)'
    BY <1>1, <2>2, <2>3, <2>4 DEF Newcomer, Id, Resuming, Absent
  <2>11. StrayPod(i) => StrayPod(i)'
    BY <1>1, <2>2, <2>3, <2>5 DEF StrayPod, PodAlive, Id, Absent
  <2>12. StrayClaim(i) => StrayClaim(i)'
    BY <1>1, <2>2, <2>3, <2>5 DEF StrayClaim, Id, Resuming, Building, Absent
  <2>13. \A d \in Callers : Id(d) = i => call[d].pc \notin Resuming
    BY <1>2 DEF LockLabels, CallLabels, Resuming
  <2>14. Home(c, i)
    BY <2>1, <2>3, <2>9, <2>10, <2>11, <2>12, <2>13 DEF Home
  <2> QED  BY <2>6, <2>7, <2>8, <2>14, CallKeeps
<1>5. CASE s.state = "absent" /\ call' = [call EXCEPT ![c] = [pc |-> "create", id |-> i, sess |-> s]]
           /\ UNCHANGED <<store, ages, clusterVars>>
  BY <1>3, <1>5
<1> QED  BY <1>3, <1>4, <1>5 DEF EnsureGet

\* When the records do not change, they stay in order.
LEMMA SameRecord ==
    ASSUME IInv, NEW c \in Callers, NEW i \in Ids, UNCHANGED store, CallOK(call[c])',
           Newcomer(i) => Newcomer(i)',
           Newcomer(i) /\ StrayPod(i) => StrayPod(i)',
           StrayClaim(i) => StrayClaim(i)'
    PROVE  Home(c, i)
<1>1. RecordOK(store[i], i) /\ \A d \in Callers : CallOK(call[d])
  BY DEF IInv, RecordsOK, CallsOK
<1>2. \A d \in Callers : Id(d) = i /\ call[d].pc \in Resuming => Tracked(i)
  BY <1>1 DEF CallOK, Id
<1> QED  BY <1>1, <1>2 DEF Home, Tracked

\* A call that fails before its tool runs, and has changed at most objects of its
\* session that are no strays.
LEMMA CallFailed ==
    ASSUME IInv, NEW c \in Callers, NEW i \in Ids, call[c].pc # "run", Id(c) = i,
           call' \in [Callers -> Calling], call'[c] = NoCall,
           \A d \in Callers \ {c} : call'[d] = call[d],
           UNCHANGED <<stock, oldPods, oldClaims, store, active, rp, budget>>,
           ClusterTypeOK',
           \A j \in Ids \ {i} : pods'[j] = pods[j] /\ pvcs'[j] = pvcs[j],
           Newcomer(i) /\ StrayPod(i) => pods'[i] = pods[i],
           StrayClaim(i) => pvcs'[i] = pvcs[i]
    PROVE  IInv'
<1>1. NoCall.pc = "idle" /\ NoCall.id = None /\ NoCall.sess = Absent /\ i # None
  BY KeyFacts DEF NoCall
<1>2. Frame(c, i)
  BY DEF Frame
<1>3. Counted'
  BY <1>1, CountsKept DEF IInv
<1>4. TypeOK'
  BY CallTyped, Types DEF IInv
<1>5. CallOK(call[c])'
  BY <1>1, NothingYet DEF CallOK, RecordOK, Building, Resuming
<1>6. Newcomer(i) => Newcomer(i)'
  BY <1>1 DEF Newcomer, Id
<1>7. Newcomer(i) /\ StrayPod(i) => StrayPod(i)'
  BY <1>1 DEF StrayPod, PodAlive, Id
<1>8. StrayClaim(i) => StrayClaim(i)'
  BY <1>1 DEF StrayClaim, Id
<1> QED  BY <1>2, <1>3, <1>4, <1>5, <1>6, <1>7, <1>8, SameRecord, CallKeeps

\* A call that creates refers to a sandbox of its own name or to a warm one.
LEMMA NewSessionOK ==
    ASSUME NEW i \in Ids, NEW k \in {i} \cup PoolKeys
    PROVE  /\ NewSession(k) \in Record
           /\ NewSession(k).state = "creating" /\ NewSession(k).pod = k /\ NewSession(k).pvc = k
           /\ OwnRefs(NewSession(k), i) /\ k # None /\ k \in Keys
<1>1. k \in Keys /\ k # None
  BY KeyFacts
<1>2. /\ NewSession(k) \in Record
      /\ NewSession(k).state = "creating" /\ NewSession(k).pod = k /\ NewSession(k).pvc = k
  BY <1>1, NothingYet DEF NewSession, Record
<1> QED  BY <1>1, <1>2 DEF OwnRefs

\* Create takes a warm sandbox or makes a new claim, young and under its own name; a
\* name that is taken makes it fail.
LEMMA CreateStep ==
    ASSUME IInv, NEW c \in Callers, Create(c)
    PROVE  IInv'
<1>0. call[c].pc = "create" /\ TypeOK /\ Counted
  BY DEF Create, At, IInv
<1>1. PICK i \in Ids : /\ i \in Keys /\ i \notin PoolKeys /\ i # None
                       /\ call[c].id = i /\ Id(c) = i
  BY <1>0, CallFacts DEF Id
<1>2. UNCHANGED store /\ UNCHANGED <<active, rp, budget>>
  BY DEF Create
<1>3. CASE \E k \in stock : /\ stock' = stock \ {k}
                            /\ Continue(c, "persist", NewSession(k))
                            /\ UNCHANGED <<ages, clusterVars>>
  <2>1. PICK k \in stock : /\ stock' = stock \ {k}
                           /\ Continue(c, "persist", NewSession(k))
                           /\ UNCHANGED <<ages, clusterVars>>
    BY <1>3
  <2> DEFINE s == NewSession(k)
  <2>2. /\ k \in PoolKeys /\ s \in Record /\ s.state = "creating" /\ s.pod = k /\ s.pvc = k
        /\ OwnRefs(s, i) /\ k # None /\ k # i
    BY <1>0, <1>1, Types, NewSessionOK
  <2>3. UNCHANGED <<oldPods, oldClaims, pods, pvcs, secrets>> /\ stock' \subseteq PoolKeys
    BY <1>0, <2>1, Types DEF ages, clusterVars
  <2>4. Continue(c, "persist", s)
    BY <2>1
  <2> HIDE DEF s
  <2>5. /\ call' \in [Callers -> Calling]
        /\ call'[c].pc = "persist" /\ call'[c].sess = s /\ call'[c].id = i
        /\ \A d \in Callers \ {c} : call'[d] = call[d]
    BY <1>0, <1>1, <2>2, <2>4, Continued DEF CallLabels, Id
  <2>6. Frame(c, i)
    BY <1>1, <1>2, <2>3, <2>5 DEF Frame, Id
  <2>7. Counted'
    BY <1>0, <1>2, <2>5, CountsKept
  <2>8. TypeOK'
    BY <1>0, <1>2, <2>3, <2>5, CallTyped, Types DEF ClusterTypeOK
  <2>9. CallOK(call[c])'
    BY <1>1, <2>2, <2>5 DEF CallOK, OwnRefs, Building, Resuming
  <2>10. Newcomer(i) => Newcomer(i)'
    BY <1>2, <2>3, <2>5 DEF Newcomer, Id, Resuming
  <2>11. StrayPod(i) => StrayPod(i)'
    BY <1>2, <2>2, <2>3, <2>5 DEF StrayPod, PodAlive, Id
  <2>12. StrayClaim(i) => StrayClaim(i)'
    BY <1>2, <2>2, <2>3, <2>5 DEF StrayClaim, Id, Resuming, Building
  <2>13. Home(c, i)
    BY <1>2, <2>9, <2>10, <2>11, <2>12, SameRecord
  <2> QED  BY <2>6, <2>7, <2>8, <2>13, CallKeeps
<1>4. CASE /\ pvcs[i] = "none"
           /\ CreateClaim(i)
           /\ oldClaims' = oldClaims \ {i}
           /\ Continue(c, "pod_create", NewSession(i))
           /\ UNCHANGED <<stock, oldPods>>
  <2> DEFINE s == NewSession(i)
  <2>2. s \in Record /\ s.state = "creating" /\ s.pod = i /\ s.pvc = i /\ OwnRefs(s, i)
    BY <1>1, NewSessionOK
  <2>3. /\ pvcs' = [pvcs EXCEPT ![i] = "bound"] /\ UNCHANGED <<pods, secrets>>
        /\ ClusterTypeOK' /\ stock' \subseteq PoolKeys
    BY <1>0, <1>4, Types DEF CreateClaim, ClusterTypeOK, ClaimPhases
  <2>4. Continue(c, "pod_create", s)
    BY <1>4
  <2> HIDE DEF s
  <2>5. /\ call' \in [Callers -> Calling]
        /\ call'[c].pc = "pod_create" /\ call'[c].sess = s /\ call'[c].id = i
        /\ \A d \in Callers \ {c} : call'[d] = call[d]
    BY <1>0, <1>1, <2>2, <2>4, Continued DEF CallLabels, Id
  <2>6. Frame(c, i)
    <3>1. \A j \in Ids \ {i} : pvcs'[j] = pvcs[j]
      BY <1>0, <2>3, Types, KeyFacts
    <3> QED  BY <1>1, <1>2, <1>4, <2>3, <2>5, <3>1 DEF Frame, Id
  <2>7. Counted'
    BY <1>0, <1>2, <2>5, CountsKept
  <2>8. TypeOK'
    BY <1>0, <1>2, <1>4, <2>3, <2>5, CallTyped, Types
  <2>9. CallOK(call[c])'
    BY <1>1, <1>4, <2>2, <2>5 DEF CallOK, OwnRefs, Building, Resuming
  <2>10. Newcomer(i) => Newcomer(i)'
    BY <1>2, <1>4, <2>5 DEF Newcomer, Id, Resuming
  <2>11. StrayPod(i) => StrayPod(i)'
    BY <1>2, <2>2, <2>3, <2>5 DEF StrayPod, PodAlive, Id
  <2>12. ~ StrayClaim(i)
    BY <1>4 DEF StrayClaim
  <2>13. Home(c, i)
    BY <1>2, <2>9, <2>10, <2>11, <2>12, SameRecord
  <2> QED  BY <2>6, <2>7, <2>8, <2>13, CallKeeps
<1>5. CASE Fail(c) /\ UNCHANGED <<stock, ages, clusterVars>>
  <2>1. UNCHANGED <<stock, oldPods, oldClaims, pods, pvcs, secrets>>
    BY <1>5 DEF ages, clusterVars
  <2>2. /\ call' \in [Callers -> Calling] /\ call'[c] = NoCall
        /\ \A d \in Callers \ {c} : call'[d] = call[d]
    BY <1>0, <1>5, Failed
  <2>3. ClusterTypeOK' /\ call[c].pc # "run"
    BY <1>0, <2>1, Types DEF ClusterTypeOK
  <2>4. UNCHANGED <<stock, oldPods, oldClaims, store, active, rp, budget>>
    BY <1>2, <2>1
  <2> QED  BY <1>1, <2>1, <2>2, <2>3, <2>4, CallFailed
<1> QED  BY <1>1, <1>3, <1>4, <1>5 DEF Create

\* The pod of a creation is young too; the rollback deletes a claim that a call was
\* creating, which is no stray.
LEMMA PodCreateStep ==
    ASSUME IInv, NEW c \in Callers, PodCreate(c)
    PROVE  IInv'
<1>0. call[c].pc = "pod_create" /\ TypeOK /\ Counted
  BY DEF PodCreate, At, IInv
<1>1. PICK i \in Ids : /\ i \in Keys /\ i \notin PoolKeys /\ i # None
                       /\ call[c].id = i /\ Id(c) = i
  BY <1>0, CallFacts DEF Id
<1>2. UNCHANGED <<store, stock, active, rp, budget>>
  BY DEF PodCreate
<1>3. CASE Fail(c) /\ UNCHANGED ages /\ (UNCHANGED clusterVars \/ DeleteClaim(i))
  <2>1. UNCHANGED <<stock, oldPods, oldClaims, store, active, rp, budget>> /\ call[c].pc # "run"
    BY <1>0, <1>2, <1>3 DEF ages
  <2>2. /\ call' \in [Callers -> Calling] /\ call'[c] = NoCall
        /\ \A d \in Callers \ {c} : call'[d] = call[d]
    BY <1>0, <1>3, Failed
  <2>3. ClusterTypeOK' /\ UNCHANGED pods /\ \A l \in Keys \ {i} : pvcs'[l] = pvcs[l]
    <3>1. CASE UNCHANGED clusterVars
      BY <1>0, <3>1, Types DEF ClusterTypeOK, clusterVars
    <3>2. CASE DeleteClaim(i)
      BY <1>0, <3>2, ClaimDeleted
    <3> QED  BY <1>3, <3>1, <3>2
  <2>4. ~ StrayClaim(i)
    BY <1>0, <1>1 DEF StrayClaim
  <2>5. \A j \in Ids \ {i} : pods'[j] = pods[j] /\ pvcs'[j] = pvcs[j]
    BY <2>3, KeyFacts
  <2> QED  BY <1>1, <2>1, <2>2, <2>3, <2>4, <2>5, CallFailed
<1>4. CASE /\ ~ PodExists(i)
           /\ CreateSecretAndPod(i, i)
           /\ Continue(c, "persist", call[c].sess)
  <2>1. PICK s \in Record : /\ s = call[c].sess /\ OwnRefs(s, i) /\ s.state = "creating"
                            /\ s.pod = s.pvc /\ s.pod # None /\ s.pod = i
                            /\ i \notin oldClaims
    BY <1>0, <1>1, CallFacts DEF CallOK, Building
  <2>2. /\ call' \in [Callers -> Calling]
        /\ call'[c].pc = "persist" /\ call'[c].sess = s /\ call'[c].id = i
        /\ \A d \in Callers \ {c} : call'[d] = call[d]
    BY <1>0, <1>1, <1>4, <2>1, Continued DEF CallLabels
  <2>3. /\ ClusterTypeOK' /\ oldPods' = oldPods \ {i} /\ UNCHANGED <<pvcs, oldClaims>>
        /\ \A l \in Keys \ {i} : pods'[l] = pods[l]
    BY <1>0, <1>1, <1>4, SecretAndPodCreated
  <2>4. Frame(c, i)
    BY <1>1, <1>2, <2>2, <2>3, KeyFacts DEF Frame
  <2>5. Counted'
    BY <1>0, <1>2, <2>2, CountsKept
  <2>6. TypeOK'
    BY <1>0, <1>2, <2>2, <2>3, CallTyped, Types
  <2>7. CallOK(call[c])'
    BY <1>1, <2>1, <2>2, <2>3 DEF CallOK, OwnRefs, Building, Resuming
  <2>8. Newcomer(i) => Newcomer(i)'
    BY <1>2, <2>2, <2>3 DEF Newcomer, Id, Resuming
  <2>9. ~ StrayPod(i) /\ ~ StrayClaim(i)
    BY <1>0, <1>1, <1>4 DEF StrayPod, PodAlive, PodExists, StrayClaim
  <2>10. Home(c, i)
    BY <1>2, <2>7, <2>8, <2>9, SameRecord
  <2> QED  BY <2>4, <2>5, <2>6, <2>10, CallKeeps
<1> QED  BY <1>1, <1>3, <1>4 DEF PodCreate

\* A call waiting for the sandbox it has built, after a step.
LEMMA WaitingOK ==
    ASSUME NEW r, NEW i \in Ids, NEW s, r.pc = "wait_ready", r.id = i, r.sess = s,
           OwnRefs(s, i), s.state = "creating", s.pod = s.pvc, s.pod # None,
           s.pod = i => i \notin (oldPods \cup oldClaims)'
    PROVE  CallOK(r)'
BY DEF CallOK, Building, Resuming, OwnRefs

\* The record is the clone of the call, and so are what it refers to.
LEMMA PersistStep ==
    ASSUME IInv, NEW c \in Callers, Persist(c)
    PROVE  IInv'
<1>0. call[c].pc = "persist" /\ TypeOK /\ Counted
  BY DEF Persist, At, IInv
<1>1. PICK i \in Ids : /\ i \in Keys /\ i \notin PoolKeys /\ i # None
                       /\ call[c].id = i /\ Id(c) = i
  BY <1>0, CallFacts DEF Id
<1>2. PICK s \in Record : /\ s = call[c].sess /\ OwnRefs(s, i) /\ s.state = "creating"
                          /\ s.pod = s.pvc /\ s.pod # None
                          /\ s.pod = i => i \notin oldPods \cup oldClaims
  BY <1>0, <1>1, CallFacts DEF CallOK, Building
<1>3. UNCHANGED <<stock, oldPods, oldClaims, active, rp, budget, pods, pvcs, secrets>>
  BY DEF Persist, ages, clusterVars
<1>4. /\ call' \in [Callers -> Calling]
      /\ call'[c].pc = "wait_ready" /\ call'[c].sess = s /\ call'[c].id = i
      /\ \A d \in Callers \ {c} : call'[d] = call[d]
  <2>1. Continue(c, "wait_ready", s)
    BY <1>2 DEF Persist
  <2> QED  BY <1>0, <1>1, <2>1, Continued DEF CallLabels
<1>5. /\ store' \in [Ids -> Record] /\ store'[i] = s
      /\ \A j \in Ids \ {i} : store'[j] = store[j]
  <2>1. store' = [store EXCEPT ![i] = s]
    BY <1>1, <1>2 DEF Persist
  <2> QED  BY <1>0, <2>1, Types
<1>6. Frame(c, i)
  BY <1>1, <1>3, <1>4, <1>5 DEF Frame
<1>7. Counted'
  BY <1>0, <1>3, <1>4, CountsKept
<1>8. TypeOK'
  BY <1>0, <1>3, <1>4, <1>5, CallTyped, Types DEF ClusterTypeOK
<1>9. CallOK(call[c])'
  <2>1. PICK r : r = call'[c]
    OBVIOUS
  <2>2. s.pod = i => i \notin (oldPods \cup oldClaims)'
    BY <1>2, <1>3
  <2>3. CallOK(r)'
    BY <1>2, <1>4, <2>1, <2>2, WaitingOK
  <2> QED  BY <2>1, <2>3
<1>10. RecordOK(store'[i], i) /\ Tracked(i)'
  BY <1>2, <1>5 DEF RecordOK, Tracked
<1>11. Newcomer(i) => Newcomer(i)'
  BY <1>2, <1>3, <1>4, <1>5 DEF Newcomer, Id, Resuming
<1>12. StrayPod(i) => StrayPod(i)'
  BY <1>0, <1>1, <1>2, <1>3, <1>4, <1>5 DEF StrayPod, PodAlive, Id
<1>13. StrayClaim(i) => StrayClaim(i)'
  BY <1>0, <1>1, <1>2, <1>3, <1>4, <1>5 DEF StrayClaim, Id, Resuming, Building
<1> QED  BY <1>6, <1>7, <1>8, <1>9, <1>10, <1>11, <1>12, <1>13, CallKeeps DEF Home

\* Outside Create and Resume little is asked of a call.
LEMMA AtRest ==
    /\ \A r : r.pc \in {"begin", "run"} /\ r.id \in Ids /\ OwnRefs(r.sess, r.id) => CallOK(r)'
    /\ CallOK(NoCall)'
<1>1. CallOK(NoCall)'
  BY NothingYet DEF CallOK, RecordOK, Building, Resuming, NoCall
<1>2. \A r : r.pc \in {"begin", "run"} /\ r.id \in Ids /\ OwnRefs(r.sess, r.id) => CallOK(r)'
  BY DEF CallOK, OwnRefs, Building, Resuming
<1> QED  BY <1>1, <1>2

\* A step of call c that writes record s of its session.
LEMMA RecordWritten ==
    ASSUME IInv, NEW c \in Callers, NEW i \in Ids, Frame(c, i), TypeOK', Counted', CallOK(call[c])',
           NEW s, store'[i] = s, s.state # "absent", OwnRefs(s, i),
           call'[c].pc \in {"idle", "begin", "run"} \/ (~ Newcomer(i) /\ ~ StrayClaim(i)),
           Newcomer(i) => /\ s.state # "stopped" /\ s.pod = s.pvc
                          /\ s.pod = i => i \notin oldPods \cup oldClaims,
           Newcomer(i) /\ StrayPod(i) => pods'[i] = pods[i] /\ s.pod # i,
           StrayClaim(i) => /\ pvcs'[i] = pvcs[i] /\ s.pvc # i
                            /\ s.state # "stopped" /\ s.pod = s.pvc
    PROVE  IInv'
<1>1. RecordOK(store'[i], i) /\ Tracked(i)'
  BY DEF RecordOK, Tracked
<1>2. \A d \in Callers \ {c} : call'[d] = call[d]
  BY DEF Frame
<1>3. Newcomer(i) => Newcomer(i)'
  <2>1. oldPods' \subseteq oldPods /\ oldClaims' \subseteq oldClaims
    BY DEF Frame
  <2> QED  BY <1>2, <2>1 DEF Newcomer, Id, Resuming
<1>4. Newcomer(i) /\ StrayPod(i) => StrayPod(i)'
  BY <1>2 DEF StrayPod, PodAlive, Id
<1>5. StrayClaim(i) => StrayClaim(i)'
  BY <1>2 DEF StrayClaim, Id, Resuming, Building
<1>6. Home(c, i)
  BY <1>1, <1>3, <1>4, <1>5 DEF Home
<1> QED  BY <1>6, CallKeeps

\* WaitReady: the record says what the sandbox is from now on, the failed one is
\* purged by the names the call has given it.
LEMMA WaitReadyStep ==
    ASSUME IInv, NEW c \in Callers, WaitReady(c)
    PROVE  IInv'
<1>0. call[c].pc = "wait_ready" /\ TypeOK /\ Counted
  BY DEF WaitReady, At, IInv
<1>1. PICK i \in Ids : /\ i \in Keys /\ i \notin PoolKeys /\ i # None
                       /\ call[c].id = i /\ Id(c) = i
  BY <1>0, CallFacts DEF Id
<1>2. PICK s \in Record : /\ s = call[c].sess /\ OwnRefs(s, i) /\ s.state = "creating"
                          /\ s.pod = s.pvc /\ s.pod # None
                          /\ s.pod = i => i \notin oldPods \cup oldClaims
  BY <1>0, <1>1, CallFacts DEF CallOK, Building
<1>3. UNCHANGED <<stock, active, rp, budget>>
  BY DEF WaitReady
<1>4. (StrayPod(i) => s.pod # i) /\ (StrayClaim(i) => s.pvc # i)
  BY <1>0, <1>1, <1>2 DEF StrayPod, StrayClaim, Building
<1>5. CASE \E t \in {[s EXCEPT !.state = "running"]} :
             /\ store' = [store EXCEPT ![i] = t]
             /\ Continue(c, "begin", t)
             /\ UNCHANGED <<ages, clusterVars>>
  <2>1. PICK t : /\ t = [s EXCEPT !.state = "running"]
                 /\ store' = [store EXCEPT ![i] = t]
                 /\ Continue(c, "begin", t)
                 /\ UNCHANGED <<ages, clusterVars>>
    BY <1>5
  <2>2. /\ t \in Record /\ OwnRefs(t, i) /\ t.state = "running"
        /\ t.pod = s.pod /\ t.pvc = s.pvc
    BY <1>2, <2>1 DEF Record, OwnRefs
  <2>3. /\ call' \in [Callers -> Calling]
        /\ call'[c].pc = "begin" /\ call'[c].sess = t /\ call'[c].id = i
        /\ \A d \in Callers \ {c} : call'[d] = call[d]
    BY <1>0, <1>1, <2>1, <2>2, Continued DEF CallLabels
  <2>4. /\ store' \in [Ids -> Record] /\ store'[i] = t
        /\ \A j \in Ids \ {i} : store'[j] = store[j]
    BY <1>0, <2>1, <2>2, Types
  <2>5. UNCHANGED <<oldPods, oldClaims, pods, pvcs, secrets>>
    BY <2>1 DEF ages, clusterVars
  <2>6. Frame(c, i)
    BY <1>1, <1>3, <2>3, <2>4, <2>5 DEF Frame
  <2>7. Counted'
    BY <1>0, <1>3, <2>3, CountsKept
  <2>8. TypeOK'
    BY <1>0, <1>3, <2>3, <2>4, <2>5, CallTyped, Types DEF ClusterTypeOK
  <2>9. CallOK(call[c])'
    BY <2>2, <2>3, AtRest
  <2> QED  BY <1>2, <1>4, <2>2, <2>3, <2>4, <2>5, <2>6, <2>7, <2>8, <2>9, RecordWritten
<1>6. CASE /\ store' = [store EXCEPT ![i] = [s EXCEPT !.state = "dead"]]
           /\ Fail(c)
           /\ PurgeAll(s.pod, s.pvc)
  <2>1. PICK t : t = [s EXCEPT !.state = "dead"] /\ store' = [store EXCEPT ![i] = t]
    BY <1>6
  <2>2. /\ t \in Record /\ OwnRefs(t, i) /\ t.state = "dead"
        /\ t.pod = s.pod /\ t.pvc = s.pvc
    BY <1>2, <2>1 DEF Record, OwnRefs
  <2>3. /\ call' \in [Callers -> Calling] /\ call'[c] = NoCall
        /\ \A d \in Callers \ {c} : call'[d] = call[d]
    BY <1>0, <1>6, Failed
  <2>4. /\ store' \in [Ids -> Record] /\ store'[i] = t
        /\ \A j \in Ids \ {i} : store'[j] = store[j]
    BY <1>0, <2>1, <2>2, Types
  <2>5. /\ ClusterTypeOK' /\ UNCHANGED <<oldPods, oldClaims>>
        /\ \A l \in Keys \ {s.pod} : pods'[l] = pods[l]
        /\ \A l \in Keys \ {s.pvc} : pvcs'[l] = pvcs[l]
    BY <1>0, <1>6, AllPurged DEF ages
  <2>6. \A j \in Ids : /\ j # i \/ s.pod # i => pods'[j] = pods[j]
                       /\ j # i \/ s.pvc # i => pvcs'[j] = pvcs[j]
    BY <1>2, <2>5, KeyFacts DEF OwnRefs
  <2>7. Frame(c, i) /\ NoCall.pc = "idle"
    BY <1>1, <1>3, <2>3, <2>4, <2>5, <2>6 DEF Frame, NoCall
  <2>8. Counted'
    BY <1>0, <1>3, <2>3, <2>7, CountsKept
  <2>9. TypeOK'
    BY <1>0, <1>3, <2>3, <2>4, <2>5, CallTyped, Types
  <2>10. CallOK(call[c])'
    BY <2>3, AtRest
  <2> QED  BY <1>2, <1>4, <2>2, <2>3, <2>4, <2>6, <2>7, <2>8, <2>9, <2>10, RecordWritten
<1> QED  BY <1>1, <1>2, <1>5, <1>6 DEF WaitReady

\* Resume: no newcomer and no stray claim has a session that is resumed.
LEMMA ResumeStep ==
    ASSUME IInv, NEW c \in Callers, Resume(c)
    PROVE  IInv'
<1>0. call[c].pc = "resume" /\ TypeOK /\ Counted
  BY DEF Resume, At, IInv
<1>1. PICK i \in Ids : /\ i \in Keys /\ i \notin PoolKeys /\ i # None
                       /\ call[c].id = i /\ Id(c) = i
  BY <1>0, CallFacts DEF Id
<1>2. PICK r \in Record : r = call[c].sess /\ OwnRefs(r, i)
  BY <1>0, <1>1, CallFacts DEF CallOK
<1>3. UNCHANGED <<stock, active, rp, budget>>
  BY DEF Resume
<1>4. ~ Newcomer(i) /\ ~ StrayClaim(i)
  BY <1>0, <1>1 DEF Newcomer, StrayClaim, Resuming
<1>5. CASE /\ Fail(c) /\ UNCHANGED <<store, ages>>
           /\ UNCHANGED clusterVars \/ CreateSecretObject(i)
  <2>1. /\ call' \in [Callers -> Calling] /\ call'[c] = NoCall
        /\ \A d \in Callers \ {c} : call'[d] = call[d]
    BY <1>0, <1>5, Failed
  <2>2. ClusterTypeOK' /\ UNCHANGED <<pods, pvcs>>
    BY <1>0, <1>5, Types DEF ClusterTypeOK, clusterVars, CreateSecretObject
  <2>3. UNCHANGED <<stock, oldPods, oldClaims, store, active, rp, budget>> /\ call[c].pc # "run"
    BY <1>0, <1>3, <1>5 DEF ages
  <2> QED  BY <1>1, <2>1, <2>2, <2>3, CallFailed
<1>6. CASE \E s \in {[r EXCEPT !.pod = i, !.state = "creating"]} :
             /\ CreateSecretAndPod(i, s.pvc)
             /\ store' = [store EXCEPT ![i] = s]
             /\ Continue(c, "resume_wait", s)
  <2>1. PICK s : /\ s = [r EXCEPT !.pod = i, !.state = "creating"]
                 /\ CreateSecretAndPod(i, s.pvc)
                 /\ store' = [store EXCEPT ![i] = s]
                 /\ Continue(c, "resume_wait", s)
    BY <1>6
  <2>2. s \in Record /\ OwnRefs(s, i) /\ s.state = "creating" /\ s.pvc \in Keys \cup {None}
    BY <1>1, <1>2, <2>1 DEF Record, OwnRefs
  <2>3. /\ call' \in [Callers -> Calling]
        /\ call'[c].pc = "resume_wait" /\ call'[c].sess = s /\ call'[c].id = i
        /\ \A d \in Callers \ {c} : call'[d] = call[d]
    BY <1>0, <1>1, <2>1, <2>2, Continued DEF CallLabels
  <2>4. /\ store' \in [Ids -> Record] /\ store'[i] = s
        /\ \A j \in Ids \ {i} : store'[j] = store[j]
    BY <1>0, <2>1, <2>2, Types
  <2>5. /\ ClusterTypeOK' /\ oldPods' = oldPods \ {i} /\ UNCHANGED <<pvcs, oldClaims>>
        /\ \A l \in Keys \ {i} : pods'[l] = pods[l]
    BY <1>0, <1>1, <2>1, <2>2, SecretAndPodCreated
  <2>6. Frame(c, i)
    BY <1>1, <1>3, <2>3, <2>4, <2>5, KeyFacts DEF Frame
  <2>7. Counted'
    BY <1>0, <1>3, <2>3, CountsKept
  <2>8. TypeOK'
    BY <1>0, <1>3, <2>3, <2>4, <2>5, CallTyped, Types
  <2>9. CallOK(call[c])'
    <3>1. store'[i].state # "absent"
      BY <2>2, <2>4
    <3> QED  BY <1>1, <2>2, <2>3, <3>1 DEF CallOK, Building, Resuming, Tracked, OwnRefs
  <2> QED  BY <1>4, <2>2, <2>4, <2>6, <2>7, <2>8, <2>9, RecordWritten
<1>7. \/ Fail(c) /\ UNCHANGED <<store, ages, clusterVars>>
      \/ Fail(c) /\ CreateSecretObject(i) /\ UNCHANGED <<store, ages>>
      \/ \E s \in {[r EXCEPT !.pod = i, !.state = "creating"]} :
             /\ CreateSecretAndPod(i, s.pvc)
             /\ store' = [store EXCEPT ![i] = s]
             /\ Continue(c, "resume_wait", s)
  BY <1>1, <1>2 DEF Resume
<1>8. UNCHANGED <<store, ages, clusterVars>> => UNCHANGED <<store, ages>> /\ UNCHANGED clusterVars
  OBVIOUS
<1> QED  BY <1>5, <1>6, <1>7, <1>8

\* The end of Resume, either way.
LEMMA ResumeWaitStep ==
    ASSUME IInv, NEW c \in Callers, ResumeWait(c)
    PROVE  IInv'
<1>0. call[c].pc = "resume_wait" /\ TypeOK /\ Counted
  BY DEF ResumeWait, At, IInv
<1>1. PICK i \in Ids : /\ i \in Keys /\ i \notin PoolKeys /\ i # None
                       /\ call[c].id = i /\ Id(c) = i
  BY <1>0, CallFacts DEF Id
<1>2. PICK r \in Record : r = call[c].sess /\ OwnRefs(r, i)
  BY <1>0, <1>1, CallFacts DEF CallOK
<1>3. UNCHANGED <<stock, oldPods, oldClaims, active, rp, budget>>
  BY DEF ResumeWait, ages
<1>4. ~ Newcomer(i) /\ ~ StrayClaim(i)
  BY <1>0, <1>1 DEF Newcomer, StrayClaim, Resuming
<1>5. ASSUME NEW t \in Record, OwnRefs(t, i), t.state # "absent",
             store' = [store EXCEPT ![i] = t],
             call' \in [Callers -> Calling],
             call'[c] = NoCall
               \/ (call'[c].pc = "begin" /\ call'[c].id = i /\ call'[c].sess = t),
             \A d \in Callers \ {c} : call'[d] = call[d],
             ClusterTypeOK', UNCHANGED pvcs, \A l \in Keys \ {i} : pods'[l] = pods[l]
      PROVE  IInv'
  <2>1. /\ store' \in [Ids -> Record] /\ store'[i] = t
        /\ \A j \in Ids \ {i} : store'[j] = store[j]
    BY <1>0, <1>5, Types
  <2>2. NoCall.pc = "idle"
    BY DEF NoCall
  <2>3. Frame(c, i)
    BY <1>1, <1>3, <1>5, <2>1, KeyFacts DEF Frame
  <2>4. Counted'
    BY <1>0, <1>3, <1>5, <2>2, CountsKept
  <2>5. TypeOK'
    BY <1>0, <1>3, <1>5, <2>1, CallTyped, Types
  <2>6. CallOK(call[c])'
    BY <1>5, AtRest
  <2> QED  BY <1>4, <1>5, <2>1, <2>3, <2>4, <2>5, <2>6, RecordWritten
<1>6. CASE \E t \in {[r EXCEPT !.state = "running", !.idle = FALSE]} :
             /\ store' = [store EXCEPT ![i] = t]
             /\ Continue(c, "begin", t)
             /\ UNCHANGED clusterVars
  <2>1. PICK t : /\ t = [r EXCEPT !.state = "running", !.idle = FALSE]
                 /\ store' = [store EXCEPT ![i] = t]
                 /\ Continue(c, "begin", t)
                 /\ UNCHANGED clusterVars
    BY <1>6
  <2>2. t \in Record /\ OwnRefs(t, i) /\ t.state = "running"
    BY <1>2, <2>1 DEF Record, OwnRefs
  <2>3. /\ call' \in [Callers -> Calling]
        /\ call'[c].pc = "begin" /\ call'[c].sess = t /\ call'[c].id = i
        /\ \A d \in Callers \ {c} : call'[d] = call[d]
    BY <1>0, <1>1, <2>1, <2>2, Continued DEF CallLabels
  <2>4. ClusterTypeOK' /\ UNCHANGED <<pods, pvcs>>
    BY <1>0, <2>1, Types DEF ClusterTypeOK, clusterVars
  <2> QED  BY <1>5, <2>1, <2>2, <2>3, <2>4
<1>7. CASE \E t \in {[r EXCEPT !.state = "stopped", !.pod = None]} :
             /\ store' = [store EXCEPT ![i] = t]
             /\ Fail(c)
             /\ DeleteSecretAndPod(i)
             /\ UNCHANGED pvcs
  <2>1. PICK t : /\ t = [r EXCEPT !.state = "stopped", !.pod = None]
                 /\ store' = [store EXCEPT ![i] = t]
    BY <1>7
  <2>2. t \in Record /\ OwnRefs(t, i) /\ t.state = "stopped"
    BY <1>2, <2>1 DEF Record, OwnRefs
  <2>3. /\ call' \in [Callers -> Calling] /\ call'[c] = NoCall
        /\ \A d \in Callers \ {c} : call'[d] = call[d]
    BY <1>0, <1>7, Failed
  <2>4. /\ ClusterTypeOK' /\ UNCHANGED pvcs
        /\ \A l \in Keys \ {i} : pods'[l] = pods[l]
    BY <1>0, <1>7, PodAndSecretDeleted, Types DEF ClusterTypeOK
  <2> QED  BY <1>5, <2>1, <2>2, <2>3, <2>4
<1> QED  BY <1>1, <1>2, <1>6, <1>7 DEF ResumeWait

\* The touch at the beginning and at the end of a tool changes nothing else.
LEMMA TouchKeeps ==
    ASSUME IInv, NEW c \in Callers, NEW i \in Ids, Id(c) = i, store' = Touched(i),
           UNCHANGED <<stock, ages, rp, budget, clusterVars>>,
           call' \in [Callers -> Calling], call'[c].pc \in {"idle", "run"},
           call'[c].id = i \/ call'[c] = NoCall,
           \A d \in Callers \ {c} : call'[d] = call[d], CallOK(call[c])',
           Counted', active' \in [Ids -> 0 .. Cardinality(Callers)]
    PROVE  IInv'
<1>1. PICK s \in Record : s = store[i] /\ RecordOK(s, i)
  BY Types DEF IInv, RecordsOK
<1>2. UNCHANGED <<stock, oldPods, oldClaims, rp, restarts, faults, pods, pvcs, secrets>>
  BY DEF ages, budget, clusterVars
<1>3. PICK t \in Record : /\ t.state = s.state /\ t.pod = s.pod /\ t.pvc = s.pvc
                          /\ t = [s EXCEPT !.idle = FALSE]
  <2>1. [s EXCEPT !.idle = FALSE] \in Record
    BY DEF Record
  <2> QED  BY <2>1 DEF Record
<1>4. store' \in [Ids -> Record] /\ \A j \in Ids \ {i} : store'[j] = store[j]
  BY <1>1, <1>3, Types DEF IInv, Touched
<1>5. TypeOK'
  BY <1>2, <1>4, Types, TypesAfter DEF IInv
<1>6. Frame(c, i)
  BY <1>2, <1>4 DEF Frame
<1>7. NoCall.id = None /\ None # i
  BY KeyFacts DEF NoCall
<1>8. CASE Tracked(i)
  <2>1. store'[i] = t /\ t.state # "absent" /\ OwnRefs(t, i)
    BY <1>1, <1>3, <1>8, Types DEF IInv, Touched, Tracked, RecordOK, OwnRefs
  <2>2. Newcomer(i) => /\ t.state # "stopped" /\ t.pod = t.pvc
                       /\ t.pod = i => i \notin oldPods \cup oldClaims
    BY <1>1, <1>3 DEF Newcomer
  <2>3. StrayPod(i) => t.pod # i
    BY <1>1, <1>3 DEF StrayPod
  <2>4. StrayClaim(i) => t.pvc # i /\ t.state # "stopped" /\ t.pod = t.pvc
    BY <1>1, <1>3 DEF StrayClaim
  <2> QED  BY <1>2, <1>5, <1>6, <2>1, <2>2, <2>3, <2>4, RecordWritten
<1>9. CASE ~ Tracked(i)
  <2>1. UNCHANGED store
    BY <1>9 DEF Touched
  <2>2. Newcomer(i) => Newcomer(i)'
    BY <1>2, <2>1 DEF Newcomer, Id, Resuming
  <2>3. StrayPod(i) => StrayPod(i)'
    BY <1>2, <2>1 DEF StrayPod, PodAlive, Id
  <2>4. StrayClaim(i) => StrayClaim(i)'
    BY <1>2, <2>1 DEF StrayClaim, Id, Resuming, Building
  <2>5. Home(c, i)
    BY <2>1, <2>2, <2>3, <2>4, SameRecord
  <2> QED  BY <1>5, <1>6, <2>5, CallKeeps
<1> QED  BY <1>8, <1>9

\* A count is a number.
LEMMA CountFacts ==
    ASSUME IInv, NEW i \in Ids
    PROVE  /\ active \in [Ids -> 0 .. Cardinality(Callers)]
           /\ active[i] = Cardinality(InFlight(i)) /\ active[i] \in Nat
           /\ InFlight(i) \subseteq Callers /\ IsFiniteSet(InFlight(i))
<1>1. InFlight(i) \subseteq Callers
  BY DEF InFlight
<1>2. IsFiniteSet(InFlight(i)) /\ Cardinality(InFlight(i)) \in Nat
  BY <1>1, CountsAreSmall, FS_CardinalityType
<1> QED  BY <1>1, <1>2, Types DEF IInv, Counted

\* When one count changes and is right, all are right and none too large.
LEMMA OneCount ==
    ASSUME IInv, NEW i \in Ids, NEW n, active' = [active EXCEPT ![i] = n],
           n = Cardinality(InFlight(i)'), \A j \in Ids \ {i} : InFlight(j)' = InFlight(j)
    PROVE  Counted' /\ active' \in [Ids -> 0 .. Cardinality(Callers)]
<1>1. active \in [Ids -> 0 .. Cardinality(Callers)]
  BY CountFacts
<1>2. n \in 0 .. Cardinality(Callers)
  <2>1. InFlight(i)' \subseteq Callers
    BY DEF InFlight
  <2> QED  BY <2>1, CountsAreSmall
<1>3. Counted'
  <2> SUFFICES ASSUME NEW j \in Ids PROVE active'[j] = Cardinality(InFlight(j)')
    BY DEF Counted
  <2> QED  BY <1>1 DEF IInv, Counted
<1> QED  BY <1>1, <1>2, <1>3

\* BeginActivity counts the call, ...
LEMMA BeginActivityStep ==
    ASSUME IInv, NEW c \in Callers, BeginActivity(c)
    PROVE  IInv'
<1>0. call[c].pc = "begin" /\ TypeOK /\ Absent \in Record
  BY NothingYet DEF BeginActivity, At, IInv
<1>1. PICK i \in Ids : call[c].id = i /\ Id(c) = i
  BY <1>0, CallFacts DEF Id
<1>2. /\ call' \in [Callers -> Calling]
      /\ call'[c].pc = "run" /\ call'[c].sess = Absent /\ call'[c].id = i
      /\ \A d \in Callers \ {c} : call'[d] = call[d]
  <2>1. Continue(c, "run", Absent)
    BY DEF BeginActivity
  <2> QED  BY <1>0, <1>1, <2>1, Continued DEF CallLabels
<1>3. CallOK(call[c])'
  BY <1>2, NothingYet, AtRest DEF RecordOK
<1>4. InFlight(i)' = InFlight(i) \cup {c} /\ c \notin InFlight(i)
  BY <1>0, <1>2 DEF InFlight
<1>5. \A j \in Ids \ {i} : InFlight(j)' = InFlight(j)
  BY <1>0, <1>1, <1>2 DEF InFlight
<1>6. active' = [active EXCEPT ![i] = active[i] + 1]
  BY <1>1 DEF BeginActivity
<1>7. active[i] + 1 = Cardinality(InFlight(i)')
  BY <1>4, CountFacts, FS_AddElement
<1>8. Counted' /\ active' \in [Ids -> 0 .. Cardinality(Callers)]
  BY <1>5, <1>6, <1>7, OneCount
<1>9. store' = Touched(i) /\ UNCHANGED <<stock, ages, rp, budget, clusterVars>>
  BY <1>1 DEF BeginActivity
<1> QED  BY <1>1, <1>2, <1>3, <1>8, <1>9, TouchKeeps

\* ... EndActivity takes it away again.
LEMMA EndActivityStep ==
    ASSUME IInv, NEW c \in Callers, EndActivity(c)
    PROVE  IInv'
<1>0. call[c].pc = "run" /\ TypeOK
  BY DEF EndActivity, At, IInv
<1>1. PICK i \in Ids : call[c].id = i /\ Id(c) = i
  BY <1>0, CallFacts DEF Id
<1>2. /\ call' \in [Callers -> Calling]
      /\ call'[c] = NoCall /\ call'[c].pc = "idle"
      /\ \A d \in Callers \ {c} : call'[d] = call[d]
  <2>1. Fail(c)
    BY DEF EndActivity
  <2> QED  BY <1>0, <2>1, Failed DEF NoCall
<1>3. CallOK(call[c])'
  BY <1>2, AtRest
<1>4. InFlight(i)' = InFlight(i) \ {c} /\ c \in InFlight(i)
  BY <1>0, <1>1, <1>2 DEF InFlight
<1>5. \A j \in Ids \ {i} : InFlight(j)' = InFlight(j)
  BY <1>0, <1>1, <1>2 DEF InFlight
<1>6. PICK n : n = (IF active[i] <= 1 THEN 0 ELSE active[i] - 1)
               /\ active' = [active EXCEPT ![i] = n]
  BY <1>1 DEF EndActivity
<1>7. Cardinality(InFlight(i)') = active[i] - 1 /\ Cardinality(InFlight(i)') \in Nat
  <2>1. IsFiniteSet(InFlight(i) \ {c}) /\ Cardinality(InFlight(i) \ {c}) = active[i] - 1
    BY <1>4, CountFacts, FS_RemoveElement
  <2>2. Cardinality(InFlight(i) \ {c}) \in Nat
    BY <2>1, FS_CardinalityType
  <2> QED  BY <1>4, <2>1, <2>2
<1>8. n = Cardinality(InFlight(i)')
  BY <1>6, <1>7, CountFacts
<1>9. Counted' /\ active' \in [Ids -> 0 .. Cardinality(Callers)]
  BY <1>5, <1>6, <1>8, OneCount
<1>10. store' = Touched(i) /\ UNCHANGED <<stock, ages, rp, budget, clusterVars>>
  BY <1>1 DEF EndActivity
<1> QED  BY <1>1, <1>2, <1>3, <1>9, <1>10, TouchKeeps

-----------------------------------------------------------------------------
(* Steps of the reaper.                                                    *)

\* The reaper does not touch these.
PassFrame == UNCHANGED <<stock, ages, active, call, restarts>>

\* Where no orphan is being swept.
NotSweeping(q) ==
    \/ q.pc \in {"waiting"} \cup PassLabels
    \/ q.pc \in PurgeLabels /\ q.then = "mark_dead"

\* What a step of the reaper has to keep.
LEMMA PassKeeps ==
    ASSUME IInv, PassFrame, store' \in [Ids -> Record], ClusterTypeOK', rp' \in Passing,
           faults' \in 0 .. MaxFaults, \A j \in Ids : RecordOK(store'[j], j),
           \A j \in Ids : Tracked(j) => Tracked(j)',
           PassOK', Newcomers', StrayPods', StrayClaims'
    PROVE  IInv'
<1>1. UNCHANGED <<stock, oldPods, oldClaims, active, call, restarts>>
  BY DEF PassFrame, ages
<1>2. TypeOK'
  BY <1>1, Types, TypesAfter DEF IInv, ClusterTypeOK
<1>3. Counted'
  BY <1>1, CountsKept DEF IInv
<1>4. CallsOK'
  <2> SUFFICES ASSUME NEW c \in Callers PROVE CallOK(call[c])'
    BY DEF CallsOK
  <2>1. PICK r : r = call[c] /\ r = call'[c]
    BY <1>1
  <2>2. CallOK(r)
    BY <2>1 DEF IInv, CallsOK
  <2>3. r.pc \in Resuming => store'[r.id].state # "absent"
    BY <2>2 DEF CallOK, Resuming, Tracked
  <2>4. CallOK(r)'
    BY <1>1, <2>2, <2>3 DEF CallOK, Tracked
  <2> QED  BY <2>1, <2>4
<1>5. RecordsOK'
  BY DEF RecordsOK, RecordOK, OwnRefs
<1> QED  BY <1>2, <1>3, <1>4, <1>5 DEF IInv

\* Outside the sweep, only types and references matter.
LEMMA Elsewhere ==
    ASSUME IInv, PassFrame, store' \in [Ids -> Record], ClusterTypeOK', rp' \in Passing,
           faults' \in 0 .. MaxFaults, \A j \in Ids : RecordOK(store'[j], j),
           \A j \in Ids : Tracked(j) => Tracked(j)', PassOK', NotSweeping(rp')
    PROVE  IInv'
<1>1. PICK q : q = rp'
  OBVIOUS
<1>2. /\ q.pc \notin SweepLabels
      /\ q.pc \in PurgeLabels => q.then = "mark_dead"
  BY <1>1 DEF NotSweeping, SweepLabels, PurgeLabels, PassLabels
<1>3. Newcomers' /\ StrayPods' /\ StrayClaims'
  BY <1>1, <1>2 DEF Newcomers, StrayPods, StrayClaims, Listing, Sweeps, SweepLabels, PurgeLabels
<1> QED  BY <1>3, PassKeeps

\* The reaper moves on without writing anything.
LEMMA RecordsStay ==
    ASSUME IInv, UNCHANGED <<store, clusterVars>>
    PROVE  /\ store' \in [Ids -> Record] /\ ClusterTypeOK'
           /\ \A j \in Ids : RecordOK(store'[j], j)
           /\ \A j \in Ids : Tracked(j) => Tracked(j)'
BY Types DEF IInv, RecordsOK, ClusterTypeOK, clusterVars, Tracked

\* A failing request changes nothing but the place of the reaper.
LEMMA FaultSpent ==
    ASSUME IInv, NEW q, MayFail(q)
    PROVE  rp' = q /\ UNCHANGED <<store, clusterVars>> /\ faults' \in 0 .. MaxFaults
<1>1. faults \in 0 .. MaxFaults /\ MaxFaults \in Nat
  BY Types, ReaperAssumption DEF IInv, ReaperAssumption
<1>2. faults > 0 /\ faults' = faults - 1
  BY DEF MayFail
<1>3. faults' \in 0 .. MaxFaults
  BY <1>1, <1>2
<1> QED  BY <1>3 DEF MayFail

\* A request that fails outside the sweep, or ends it.
LEMMA RequestFailed ==
    ASSUME IInv, PassFrame, NEW q \in Passing, MayFail(q), NotSweeping(q),
           q.pc \notin PurgeLabels \cup Stopping \cup {"mark_dead"}
    PROVE  IInv'
<1>1. /\ rp' = q /\ UNCHANGED <<store, clusterVars>>
      /\ faults' \in 0 .. MaxFaults
  BY FaultSpent
<1>2. PassOK'
  BY <1>1 DEF PassOK
<1> QED  BY <1>1, <1>2, RecordsStay, Elsewhere

\* Where a pass is that has nothing in hand.
LEMMA AtEase ==
    /\ Waiting \in Passing /\ ToRunning \in Passing
    /\ NotSweeping(Waiting) /\ Waiting.pc = "waiting"
    /\ NotSweeping(ToRunning) /\ ToRunning.pc = "list_running"
<1>1. Waiting \in Passing
  BY NothingYet
<1>2. ToRunning \in Passing /\ ToRunning.pc = "list_running"
  BY <1>1 DEF ToRunning, Passing, PassLabels
<1>3. Waiting.pc = "waiting"
  BY DEF Waiting
<1> QED  BY <1>1, <1>2, <1>3 DEF NotSweeping, PassLabels

\* The session of an unknown id is a newcomer.
LEMMA StartPassStep ==
    ASSUME IInv, StartPass
    PROVE  IInv'
<1>1. PICK q \in Passing : q = rp
  BY Types DEF IInv
<1>2. rp' = [q EXCEPT !.pc = "list_pods", !.known = {i \in Ids : Tracked(i)}]
      /\ UNCHANGED <<store, faults, clusterVars>> /\ PassFrame
  BY <1>1 DEF StartPass, ReaperOnly, PassFrame, ages, clusterVars
<1>3. rp' \in Passing /\ rp'.pc = "list_pods" /\ rp'.known = {i \in Ids : Tracked(i)}
  BY <1>1, <1>2 DEF Passing, SweepLabels
<1>4. UNCHANGED <<oldPods, oldClaims, call, store>> /\ faults' \in 0 .. MaxFaults
  BY <1>2, Types DEF PassFrame, ages, IInv
<1>5. ASSUME NEW j \in Ids, ~ Tracked(j) PROVE Newcomer(j)'
  <2>1. store[j].state = "absent" /\ store[j].pod = None /\ store[j].pvc = None /\ None # j
    BY <1>5, KeyFacts DEF Tracked, IInv, RecordsOK, RecordOK
  <2>2. \A c \in Callers : Id(c) = j => call[c].pc \notin Resuming
    BY <1>5 DEF IInv, CallsOK, CallOK, Id
  <2> QED  BY <1>4, <2>1, <2>2 DEF Newcomer, Id
<1>6. Newcomers'
  BY <1>3, <1>5 DEF Newcomers
<1>7. PassOK' /\ StrayPods' /\ StrayClaims'
  BY <1>3 DEF PassOK, PurgeLabels, Stopping, StrayPods, StrayClaims, Sweeps
<1> QED  BY <1>2, <1>3, <1>4, <1>6, <1>7, RecordsStay, PassKeeps

\* An old pod of an unknown name is a stray: if its session has come meanwhile,
\* it uses another one.
LEMMA ListPodsStep ==
    ASSUME IInv, ListPods
    PROVE  IInv'
<1>1. PICK q \in Passing : q = rp
  BY Types DEF IInv
<1>2. q.pc = "list_pods" /\ PassFrame
  BY <1>1 DEF ListPods, ReaperOnly, PassFrame, ages
<1>3. CASE MayFail(ToRunning)
  BY <1>2, <1>3, AtEase, RequestFailed DEF PurgeLabels, Stopping
<1>4. CASE /\ rp' = [q EXCEPT !.pc = "sweep_pods", !.live = AlivePods,
                              !.todo = (AlivePods \ q.known) \cap oldPods]
           /\ UNCHANGED <<store, faults, clusterVars>>
  <2>1. /\ rp' \in Passing /\ rp'.pc = "sweep_pods" /\ rp'.known = q.known
        /\ rp'.todo = (AlivePods \ q.known) \cap oldPods
    <3>1. AlivePods \in SUBSET Ids /\ (AlivePods \ q.known) \cap oldPods \in SUBSET Ids
      BY DEF AlivePods
    <3> QED  BY <1>1, <1>4, <3>1 DEF Passing, SweepLabels
  <2>2. /\ UNCHANGED <<oldPods, oldClaims, call, store, pods>> /\ faults' \in 0 .. MaxFaults
    BY <1>2, <1>4, Types DEF PassFrame, ages, clusterVars, IInv
  <2>3. \A j \in Ids \ q.known : Newcomer(j)
    BY <1>1, <1>2 DEF IInv, Newcomers, Listing
  <2>4. ASSUME NEW j \in rp'.todo PROVE StrayPod(j)'
    <3>1. j \in Ids /\ PodAlive(j) /\ j \in oldPods /\ Newcomer(j)
      BY <2>1, <2>3, <2>4 DEF AlivePods
    <3>2. store[j].pod # j
      BY <3>1 DEF Newcomer
    <3>3. ASSUME NEW c \in Callers, Id(c) = j, call[c].pc \in {"persist", "wait_ready"}
          PROVE  call[c].sess.pod # j
      BY <3>1, <3>3 DEF IInv, CallsOK, CallOK, Id
    <3> QED  BY <2>2, <3>1, <3>2, <3>3 DEF StrayPod, PodAlive, Id
  <2>5. StrayPods'
    BY <2>1, <2>4 DEF StrayPods, Sweeps, PurgeLabels
  <2>6. Newcomers'
    <3>1. \A j \in Ids \ q.known : Newcomer(j)'
      BY <2>2, <2>3 DEF Newcomer, Id
    <3> QED  BY <2>1, <3>1 DEF Newcomers
  <2>7. PassOK' /\ StrayClaims'
    BY <2>1 DEF PassOK, PurgeLabels, Stopping, StrayClaims, Sweeps
  <2> QED  BY <1>2, <1>4, <2>1, <2>2, <2>5, <2>6, <2>7, RecordsStay, PassKeeps
<1> QED  BY <1>1, <1>3, <1>4 DEF ListPods, ReaperOnly

\* The same for an old claim.
LEMMA ListClaimsStep ==
    ASSUME IInv, ListClaims
    PROVE  IInv'
<1>1. PICK q \in Passing : q = rp
  BY Types DEF IInv
<1>2. q.pc = "list_claims" /\ PassFrame
  BY <1>1 DEF ListClaims, ReaperOnly, PassFrame, ages
<1>3. CASE MayFail(ToRunning)
  BY <1>2, <1>3, AtEase, RequestFailed DEF PurgeLabels, Stopping
<1>4. CASE \E old \in {({i \in Ids : pvcs[i] = "bound"} \ (q.known \cup q.live)) \cap oldClaims} :
             /\ rp' = [Waiting EXCEPT !.pc = "sweep_claims", !.todo = old]
             /\ UNCHANGED <<store, faults, clusterVars>>
  <2>1. PICK old \in SUBSET Ids :
             /\ old = ({i \in Ids : pvcs[i] = "bound"} \ (q.known \cup q.live)) \cap oldClaims
             /\ rp' = [Waiting EXCEPT !.pc = "sweep_claims", !.todo = old]
             /\ UNCHANGED <<store, faults, clusterVars>>
    BY <1>4
  <2>2. rp' \in Passing /\ rp'.pc = "sweep_claims" /\ rp'.todo = old
    <3>1. PICK w \in Passing : w = Waiting
      BY AtEase
    <3> QED  BY <2>1, <3>1 DEF Passing, SweepLabels
  <2>3. UNCHANGED <<oldPods, oldClaims, call, store, pvcs>> /\ faults' \in 0 .. MaxFaults
    BY <1>2, <2>1, Types DEF PassFrame, ages, clusterVars, IInv
  <2>4. \A j \in Ids \ q.known : Newcomer(j)
    BY <1>1, <1>2 DEF IInv, Newcomers, Listing
  <2>5. ASSUME NEW j \in old PROVE StrayClaim(j)'
    <3>1. j \in Ids /\ pvcs[j] = "bound" /\ j \in oldClaims /\ Newcomer(j)
      BY <2>1, <2>4, <2>5
    <3>2. store[j].state # "stopped" /\ store[j].pod = store[j].pvc /\ store[j].pvc # j
      BY <3>1 DEF Newcomer
    <3>3. ASSUME NEW c \in Callers, Id(c) = j
          PROVE  /\ call[c].pc \notin Resuming \cup {"pod_create"}
                 /\ call[c].pc \in Building => call[c].sess.pvc # j
      <4>1. CallOK(call[c]) /\ call[c].pc \notin Resuming /\ call[c].id = j
        BY <3>1, <3>3 DEF IInv, CallsOK, Newcomer, Id
      <4> QED  BY <3>1, <4>1 DEF CallOK, Building
    <3> QED  BY <2>3, <3>1, <3>2, <3>3 DEF StrayClaim, Id
  <2>6. StrayClaims'
    BY <2>2, <2>5 DEF StrayClaims, Sweeps, PurgeLabels
  <2>7. PassOK' /\ StrayPods' /\ Newcomers'
    BY <2>2 DEF PassOK, PurgeLabels, Stopping, StrayPods, Newcomers, Listing, Sweeps
  <2> QED  BY <1>2, <2>1, <2>2, <2>3, <2>6, <2>7, RecordsStay, PassKeeps
<1> QED  BY <1>1, <1>3, <1>4 DEF ListClaims, ReaperOnly

\* The sweep takes the next orphan of a list.
LEMMA SweepTakes ==
    ASSUME IInv, NEW label \in {"sweep_pods", "sweep_claims"}, rp.pc = label, PassFrame,
           UNCHANGED <<store, faults, clusterVars>>, NEW k \in rp.todo,
           rp' = [rp EXCEPT !.pc = "purge_pod", !.todo = rp.todo \ {k}, !.cur = k,
                            !.sess = [Absent EXCEPT !.pod = k, !.pvc = k], !.then = label]
    PROVE  IInv'
<1>1. PICK q \in Passing : q = rp
  BY Types DEF IInv
<1>2. k \in Ids /\ k \in Keys /\ q.todo \subseteq Ids
  BY <1>1, KeyFacts DEF Passing
<1>3. PICK s \in Record : /\ s = [Absent EXCEPT !.pod = k, !.pvc = k]
                          /\ s.pod = k /\ s.pvc = k /\ OwnRefs(s, k)
  <2>1. [Absent EXCEPT !.pod = k, !.pvc = k] \in Record
    BY <1>2, NothingYet DEF Record
  <2> QED  BY <1>2, <2>1, NothingYet DEF Record, OwnRefs
<1>4. rp' = [q EXCEPT !.pc = "purge_pod", !.todo = q.todo \ {k}, !.cur = k,
                      !.sess = s, !.then = label]
  BY <1>1, <1>3
<1>5. /\ rp' \in Passing /\ rp'.pc = "purge_pod" /\ rp'.known = q.known
      /\ rp'.todo = q.todo \ {k} /\ rp'.cur = k /\ rp'.sess = s /\ rp'.then = label
  <2>1. PICK t \in SUBSET Ids : t = q.todo \ {k}
    BY <1>2
  <2>2. rp' = [q EXCEPT !.pc = "purge_pod", !.todo = t, !.cur = k, !.sess = s, !.then = label]
    BY <1>4, <2>1
  <2>3. rp' \in Passing
    BY <1>2, <2>2 DEF Passing, PurgeLabels
  <2>4. /\ rp'.pc = "purge_pod" /\ rp'.known = q.known /\ rp'.todo = t
        /\ rp'.cur = k /\ rp'.sess = s /\ rp'.then = label
    BY <2>2 DEF Passing
  <2> QED  BY <2>1, <2>3, <2>4
<1>6. /\ UNCHANGED <<oldPods, oldClaims, call, store, pods, pvcs>> /\ faults' \in 0 .. MaxFaults
  BY Types DEF PassFrame, ages, clusterVars, IInv
<1>7. PassOK'
  BY <1>2, <1>3, <1>5 DEF PassOK, OwnRefs, Stopping, PurgeLabels
<1>8. CASE label = "sweep_pods"
  <2>1. /\ \A j \in Ids \ q.known : Newcomer(j)
        /\ q.todo \cap q.known = {} /\ \A j \in q.todo : StrayPod(j)
    BY <1>1, <1>8 DEF IInv, Newcomers, StrayPods, Listing, Sweeps
  <2>2. Newcomers'
    <3>1. \A j \in Ids \ q.known : Newcomer(j)'
      BY <1>6, <2>1 DEF Newcomer, Id
    <3> QED  BY <1>5, <3>1 DEF Newcomers
  <2>3. StrayPods'
    <3>1. \A j \in q.todo : StrayPod(j)'
      BY <1>6, <2>1 DEF StrayPod, PodAlive, Id
    <3>2. StrayPod(k)'
      BY <1>1, <3>1
    <3>3. PICK z : z = rp'
      OBVIOUS
    <3>4. \A j \in z.todo : StrayPod(j)'
      BY <1>5, <3>1, <3>3
    <3>5. StrayPod(z.cur)'
      BY <1>5, <3>2, <3>3
    <3>6. z.todo \cap z.known = {} /\ z.cur \notin z.known
      BY <1>1, <1>5, <2>1, <3>3
    <3> QED  BY <3>3, <3>4, <3>5, <3>6 DEF StrayPods
  <2>4. StrayClaims'
    BY <1>5, <1>8 DEF StrayClaims, Sweeps, PurgeLabels
  <2> QED  BY <1>5, <1>6, <1>7, <2>2, <2>3, <2>4, RecordsStay, PassKeeps
<1>9. CASE label = "sweep_claims"
  <2>1. \A j \in q.todo : StrayClaim(j)
    BY <1>1, <1>9 DEF IInv, StrayClaims, Sweeps
  <2>2. \A j \in q.todo : StrayClaim(j)'
    BY <1>6, <2>1 DEF StrayClaim, Id
  <2>3. StrayClaims'
    <3>1. PICK z : z = rp'
      OBVIOUS
    <3>2. \A j \in z.todo : StrayClaim(j)'
      BY <1>5, <2>2, <3>1
    <3>3. StrayClaim(z.cur)'
      BY <1>1, <1>5, <2>2, <3>1
    <3> QED  BY <3>1, <3>2, <3>3 DEF StrayClaims
  <2>4. Newcomers' /\ StrayPods'
    BY <1>5, <1>9 DEF Newcomers, StrayPods, Listing, Sweeps, PurgeLabels
  <2> QED  BY <1>5, <1>6, <1>7, <2>3, <2>4, RecordsStay, PassKeeps
<1> QED  BY <1>8, <1>9

\* The loops of the sweep.
LEMMA SweepPodsStep ==
    ASSUME IInv, SweepPods
    PROVE  IInv'
<1>1. PICK q \in Passing : q = rp
  BY Types DEF IInv
<1>2. rp.pc = "sweep_pods" /\ PassFrame /\ UNCHANGED <<store, faults, clusterVars>>
  BY DEF SweepPods, SweepNext, ReaperOnly, PassFrame, ages, clusterVars
<1>3. CASE \E k \in rp.todo :
             rp' = [rp EXCEPT !.pc = "purge_pod", !.todo = rp.todo \ {k}, !.cur = k,
                              !.sess = [Absent EXCEPT !.pod = k, !.pvc = k], !.then = "sweep_pods"]
  BY <1>2, <1>3, SweepTakes
<1>4. CASE rp.todo = {} /\ rp' = [q EXCEPT !.pc = "list_claims"]
  <2>1. rp' \in Passing /\ rp'.pc = "list_claims" /\ rp'.known = q.known
    BY <1>1, <1>4 DEF Passing, SweepLabels
  <2>2. UNCHANGED <<oldPods, oldClaims, call, store>> /\ faults' \in 0 .. MaxFaults
    BY <1>2, Types DEF PassFrame, ages, IInv
  <2>3. \A j \in Ids \ q.known : Newcomer(j)
    BY <1>1, <1>2 DEF IInv, Newcomers, Listing, Sweeps
  <2>4. \A j \in Ids \ q.known : Newcomer(j)'
    BY <2>2, <2>3 DEF Newcomer, Id
  <2>5. Newcomers'
    BY <2>1, <2>4 DEF Newcomers
  <2>6. PassOK' /\ StrayPods' /\ StrayClaims'
    BY <2>1 DEF PassOK, PurgeLabels, Stopping, StrayPods, StrayClaims, Sweeps
  <2> QED  BY <1>2, <2>1, <2>2, <2>5, <2>6, RecordsStay, PassKeeps
<1> QED  BY <1>1, <1>3, <1>4 DEF SweepPods, SweepNext

\* The loop over the claims ends the sweep.
LEMMA SweepClaimsStep ==
    ASSUME IInv, SweepClaims
    PROVE  IInv'
<1>1. rp.pc = "sweep_claims" /\ PassFrame /\ UNCHANGED <<store, faults, clusterVars>>
  BY DEF SweepClaims, SweepNext, ReaperOnly, PassFrame, ages, clusterVars
<1>2. CASE \E k \in rp.todo :
             rp' = [rp EXCEPT !.pc = "purge_pod", !.todo = rp.todo \ {k}, !.cur = k,
                              !.sess = [Absent EXCEPT !.pod = k, !.pvc = k], !.then = "sweep_claims"]
  BY <1>1, <1>2, SweepTakes
<1>3. CASE rp' = ToRunning
  <2>1. faults' \in 0 .. MaxFaults
    BY <1>1, Types DEF IInv
  <2>2. PassOK'
    BY <1>3, AtEase DEF PassOK, PurgeLabels, Stopping
  <2> QED  BY <1>1, <1>3, <2>1, <2>2, AtEase, RecordsStay, Elsewhere
<1> QED  BY <1>2, <1>3 DEF SweepClaims, SweepNext

\* Purge deletes objects of the names it has been given, and then returns.
LEMMA PurgeKeeps ==
    ASSUME IInv, rp.pc \in PurgeLabels, PassFrame, UNCHANGED store, ClusterTypeOK',
           faults' \in 0 .. MaxFaults, rp' \in Passing,
           \A l \in Keys \ {rp.sess.pod} : pods'[l] = pods[l],
           \A l \in Keys \ {rp.sess.pvc} : pvcs'[l] = pvcs[l],
           rp'.known = rp.known, rp'.todo = rp.todo,
           \/ /\ rp'.pc \in {"purge_secret", "purge_claim"} /\ UNCHANGED pvcs
              /\ rp'.then = rp.then /\ rp'.cur = rp.cur /\ rp'.sess = rp.sess
           \/ /\ rp'.pc = rp.then /\ rp'.then = "waiting"
              /\ rp.then = "mark_dead" => rp'.cur = rp.cur /\ rp'.sess = rp.sess
           \/ rp'.pc = "delete_next" /\ rp.then = "mark_dead"
    PROVE  IInv'
<1>0. PICK q \in Passing : q = rp
  BY Types DEF IInv
<1>1. PICK z \in Passing : z = rp'
  OBVIOUS
<1>2. /\ q.then \in {"sweep_pods", "sweep_claims", "mark_dead"}
      /\ q.cur \in Ids /\ OwnRefs(q.sess, q.cur) /\ q.cur \notin q.todo
      /\ q.then # "mark_dead" => q.sess.pod = q.cur /\ q.sess.pvc = q.cur
  BY <1>0 DEF IInv, PassOK, Passing
<1>3. /\ UNCHANGED <<oldPods, oldClaims, call, store>>
  BY DEF PassFrame, ages
<1>4. /\ z.known = q.known /\ z.todo = q.todo
      /\ \/ /\ z.pc \in {"purge_secret", "purge_claim"} /\ UNCHANGED pvcs
            /\ z.then = q.then /\ z.cur = q.cur /\ z.sess = q.sess
         \/ /\ z.pc = q.then /\ z.then = "waiting"
            /\ q.then = "mark_dead" => z.cur = q.cur /\ z.sess = q.sess
         \/ z.pc = "delete_next" /\ q.then = "mark_dead"
  BY <1>0, <1>1
<1>5. /\ store' \in [Ids -> Record] /\ \A j \in Ids : RecordOK(store'[j], j)
      /\ \A j \in Ids : Tracked(j) => Tracked(j)'
  BY Types DEF IInv, RecordsOK, Tracked
<1>6. PassOK'
  <2>1. /\ z.pc \in PurgeLabels => z.then # "waiting" /\ z.cur \notin z.todo
        /\ z.pc \in PurgeLabels \cup Stopping \cup {"mark_dead"}
             => z.cur \in Ids /\ OwnRefs(z.sess, z.cur)
        /\ z.pc \in PurgeLabels /\ z.then # "mark_dead"
             => z.sess.pod = z.cur /\ z.sess.pvc = z.cur
    BY <1>2, <1>4 DEF PurgeLabels, Stopping
  <2> QED  BY <1>1, <2>1 DEF PassOK, OwnRefs
<1>7. CASE q.then = "mark_dead"
  <2>1. NotSweeping(z)
    BY <1>4, <1>7 DEF NotSweeping, PurgeLabels, PassLabels
  <2> QED  BY <1>1, <1>5, <1>6, <2>1, Elsewhere
<1>8. CASE q.then = "sweep_pods"
  <2>1. /\ \A j \in Ids \ q.known : Newcomer(j)
        /\ q.todo \cap q.known = {} /\ \A j \in q.todo : StrayPod(j)
    BY <1>0, <1>8 DEF IInv, Newcomers, StrayPods, Listing, Sweeps
  <2>2. \A j \in z.todo : StrayPod(j)'
    <3>1. \A j \in q.todo : j \in Keys \ {q.sess.pod}
      BY <1>0, <1>2, <1>8, KeyFacts DEF Passing
    <3> QED  BY <1>0, <1>3, <1>4, <2>1, <3>1 DEF StrayPod, PodAlive, Id
  <2>3. StrayPods'
    <3>1. z.pc # "purge_pod" /\ z.todo \cap z.known = {}
      BY <1>4, <1>8, <2>1
    <3> QED  BY <1>1, <2>2, <3>1 DEF StrayPods
  <2>4. Newcomers'
    <3>1. \A j \in Ids \ z.known : Newcomer(j)'
      BY <1>3, <1>4, <2>1 DEF Newcomer, Id
    <3> QED  BY <1>1, <3>1 DEF Newcomers
  <2>5. StrayClaims'
    BY <1>1, <1>4, <1>8 DEF StrayClaims, Sweeps, PurgeLabels
  <2> QED  BY <1>5, <1>6, <2>3, <2>4, <2>5, PassKeeps
<1>9. CASE q.then = "sweep_claims"
  <2>1. (\A j \in q.todo : StrayClaim(j)) /\ StrayClaim(q.cur)
    BY <1>0, <1>9 DEF IInv, StrayClaims, Sweeps
  <2>2. \A j \in z.todo : StrayClaim(j)'
    <3>1. \A j \in q.todo : j \in Keys \ {q.sess.pvc}
      BY <1>0, <1>2, <1>9, KeyFacts DEF Passing
    <3> QED  BY <1>0, <1>3, <1>4, <2>1, <3>1 DEF StrayClaim, Id
  <2>3. z.pc \in PurgeLabels => StrayClaim(z.cur)'
    <3>1. UNCHANGED pvcs => StrayClaim(q.cur)'
      BY <1>3, <2>1 DEF StrayClaim, Id
    <3> QED  BY <1>4, <1>9, <3>1 DEF PurgeLabels
  <2>4. StrayClaims'
    BY <1>1, <2>2, <2>3 DEF StrayClaims
  <2>5. Newcomers' /\ StrayPods'
    BY <1>1, <1>4, <1>9 DEF Newcomers, StrayPods, Listing, Sweeps, PurgeLabels
  <2> QED  BY <1>5, <1>6, <2>4, <2>5, PassKeeps
<1> QED  BY <1>2, <1>7, <1>8, <1>9

\* What Purge leaves behind for its caller.
LEMMA Returned ==
    ASSUME IInv, NEW to \in {"sweep_pods", "sweep_claims", "mark_dead", "delete_next"}
    PROVE  /\ PurgeDone(to) \in Passing /\ PurgeDone(to).pc = to /\ PurgeDone(to).then = "waiting"
           /\ PurgeDone(to).known = rp.known /\ PurgeDone(to).todo = rp.todo
           /\ to = "mark_dead" => PurgeDone(to).cur = rp.cur /\ PurgeDone(to).sess = rp.sess
<1>1. PICK q \in Passing : q = rp
  BY Types DEF IInv
<1>2. PICK k \in Ids \cup {None} : k = IF to = "mark_dead" THEN q.cur ELSE None
  BY DEF Passing
<1>3. PICK s \in Record : s = IF to = "mark_dead" THEN q.sess ELSE Absent
  BY NothingYet DEF Passing
<1>4. PICK z : z = [q EXCEPT !.pc = to, !.cur = k, !.sess = s, !.then = "waiting"]
  OBVIOUS
<1>5. z = PurgeDone(to)
  BY <1>1, <1>2, <1>3, <1>4 DEF PurgeDone
<1>6. z \in Passing
  BY <1>4 DEF Passing, SweepLabels, PassLabels
<1>7. /\ z.pc = to /\ z.then = "waiting" /\ z.known = q.known /\ z.todo = q.todo
      /\ z.cur = k /\ z.sess = s
  BY <1>4 DEF Passing
<1> QED  BY <1>1, <1>2, <1>3, <1>5, <1>6, <1>7

\* A purge that ends with an error leaves what it has not deleted.
LEMMA PurgeGivenUp ==
    ASSUME IInv, rp.pc \in PurgeLabels, PassFrame, rp' = PurgeDone(AfterFailedPurge),
           UNCHANGED <<store, clusterVars>>, faults' \in 0 .. MaxFaults
    PROVE  IInv'
<1>1. PICK to : to = AfterFailedPurge
  OBVIOUS
<1>2. rp.then \in {"sweep_pods", "sweep_claims", "mark_dead"}
  BY Types DEF IInv, PassOK, Passing
<1>3. /\ to \in {"sweep_pods", "sweep_claims", "delete_next"}
      /\ \/ to = "delete_next" /\ rp.then = "mark_dead"
         \/ to = rp.then /\ to # "mark_dead"
  BY <1>1, <1>2 DEF AfterFailedPurge
<1>4. /\ rp' \in Passing /\ rp'.pc = to /\ rp'.then = "waiting"
      /\ rp'.known = rp.known /\ rp'.todo = rp.todo
  BY <1>1, <1>3, Returned
<1>5. ClusterTypeOK' /\ UNCHANGED <<pods, pvcs, store>>
  BY RecordsStay DEF clusterVars
<1> QED  BY <1>3, <1>4, <1>5, PurgeKeeps

\* The three requests of Purge.
LEMMA PurgePodStep ==
    ASSUME IInv, PurgePod
    PROVE  IInv'
<1>1. PICK q \in Passing : q = rp
  BY Types DEF IInv
<1>2. CASE /\ rp.pc = "purge_pod" /\ ReaperOnly /\ DeletePod(rp.sess.pod)
           /\ rp' = [q EXCEPT !.pc = "purge_secret"] /\ UNCHANGED faults
  <2>1. /\ ClusterTypeOK' /\ UNCHANGED pvcs
        /\ \A l \in Keys \ {rp.sess.pod} : pods'[l] = pods[l]
    BY <1>2, PodDeleted DEF IInv
  <2>2. /\ rp' \in Passing /\ rp'.pc = "purge_secret" /\ rp'.then = q.then /\ rp'.cur = q.cur
        /\ rp'.sess = q.sess /\ rp'.known = q.known /\ rp'.todo = q.todo
    BY <1>1, <1>2 DEF Passing, PurgeLabels
  <2>3. PassFrame /\ UNCHANGED store /\ faults' \in 0 .. MaxFaults /\ rp.pc \in PurgeLabels
    BY <1>2, Types DEF ReaperOnly, PassFrame, ages, IInv, PurgeLabels
  <2> QED  BY <1>1, <2>1, <2>2, <2>3, PurgeKeeps
<1>3. CASE /\ rp.pc = "purge_pod" /\ ReaperOnly /\ rp' = PurgeDone(AfterFailedPurge)
           /\ UNCHANGED <<faults, clusterVars>> \/ MayFail(PurgeDone(AfterFailedPurge))
  <2>1. /\ PassFrame /\ UNCHANGED <<store, clusterVars>> /\ faults' \in 0 .. MaxFaults
        /\ rp.pc \in PurgeLabels
    BY <1>3, FaultSpent, Types DEF ReaperOnly, PassFrame, ages, clusterVars, IInv, PurgeLabels
  <2> QED  BY <1>3, <2>1, PurgeGivenUp
<1>4. MayFail(PurgeDone(AfterFailedPurge)) => rp' = PurgeDone(AfterFailedPurge)
  BY FaultSpent
<1> QED  BY <1>1, <1>2, <1>3, <1>4 DEF PurgePod, ReaperRequest

\* The secret is nobody's evidence of anything.
LEMMA PurgeSecretStep ==
    ASSUME IInv, PurgeSecret
    PROVE  IInv'
<1>1. PICK q \in Passing : q = rp
  BY Types DEF IInv
<1>2. /\ rp.pc = "purge_secret" /\ rp.pc \in PurgeLabels /\ PassFrame /\ UNCHANGED store
  BY DEF PurgeSecret, ReaperRequest, ReaperOnly, PassFrame, ages, PurgeLabels
<1>3. CASE /\ DeleteSecret(rp.sess.pod)
           /\ rp' = [q EXCEPT !.pc = "purge_claim"] /\ UNCHANGED faults
  <2>1. ClusterTypeOK' /\ UNCHANGED <<pods, pvcs>>
    BY <1>3, Types DEF IInv, DeleteSecret, ClusterTypeOK
  <2>2. /\ rp' \in Passing /\ rp'.pc = "purge_claim" /\ rp'.then = q.then /\ rp'.cur = q.cur
        /\ rp'.sess = q.sess /\ rp'.known = q.known /\ rp'.todo = q.todo
    BY <1>1, <1>3 DEF Passing, PurgeLabels
  <2>3. faults' \in 0 .. MaxFaults
    BY <1>3, Types DEF IInv
  <2> QED  BY <1>1, <1>2, <2>1, <2>2, <2>3, PurgeKeeps
<1>4. CASE MayFail(PurgeDone(AfterFailedPurge))
  BY <1>2, <1>4, FaultSpent, PurgeGivenUp
<1> QED  BY <1>1, <1>3, <1>4 DEF PurgeSecret, ReaperRequest

\* The claim is the last, then Purge returns.
LEMMA PurgeClaimStep ==
    ASSUME IInv, PurgeClaim
    PROVE  IInv'
<1>1. /\ rp.pc = "purge_claim" /\ rp.pc \in PurgeLabels /\ PassFrame /\ UNCHANGED store
  BY DEF PurgeClaim, ReaperRequest, ReaperOnly, PassFrame, ages, PurgeLabels
<1>2. CASE DeleteClaim(rp.sess.pvc) /\ rp' = PurgeDone(rp.then) /\ UNCHANGED faults
  <2>1. /\ ClusterTypeOK' /\ UNCHANGED pods
        /\ \A l \in Keys \ {rp.sess.pvc} : pvcs'[l] = pvcs[l]
    BY <1>2, ClaimDeleted DEF IInv
  <2>2. PICK to : to = rp.then
    OBVIOUS
  <2>3. to \in {"sweep_pods", "sweep_claims", "mark_dead"}
    BY <1>1, <2>2, Types DEF IInv, PassOK, Passing
  <2>4. /\ rp' \in Passing /\ rp'.pc = rp.then /\ rp'.then = "waiting"
        /\ rp'.known = rp.known /\ rp'.todo = rp.todo
        /\ rp.then = "mark_dead" => rp'.cur = rp.cur /\ rp'.sess = rp.sess
    BY <1>2, <2>2, <2>3, Returned
  <2>5. faults' \in 0 .. MaxFaults
    BY <1>2, Types DEF IInv
  <2> QED  BY <1>1, <2>1, <2>4, <2>5, PurgeKeeps
<1>3. CASE MayFail(PurgeDone(AfterFailedPurge))
  BY <1>1, <1>3, FaultSpent, PurgeGivenUp
<1> QED  BY <1>2, <1>3 DEF PurgeClaim, ReaperRequest

\* The rest of a pass, as long as it writes no record.
LEMMA GoesOn ==
    ASSUME IInv, PassFrame, UNCHANGED store, ClusterTypeOK', faults' \in 0 .. MaxFaults,
           NEW q \in Passing, rp' = q, NotSweeping(q),
           q.pc \in PurgeLabels => q.cur \notin q.todo,
           q.pc \in PurgeLabels \cup Stopping \cup {"mark_dead"}
             => q.cur \in Ids /\ OwnRefs(q.sess, q.cur)
    PROVE  IInv'
<1>1. /\ store' \in [Ids -> Record] /\ \A j \in Ids : RecordOK(store'[j], j)
      /\ \A j \in Ids : Tracked(j) => Tracked(j)'
  BY Types DEF IInv, RecordsOK, Tracked
<1>2. q.pc \in PurgeLabels => q.then = "mark_dead"
  BY DEF NotSweeping, PurgeLabels, PassLabels
<1>3. PassOK'
  BY <1>2 DEF PassOK, OwnRefs
<1> QED  BY <1>1, <1>3, Elsewhere

\* The lists of running and of stopped sessions.
LEMMA ListRunningStep ==
    ASSUME IInv, ListRunning
    PROVE  IInv'
<1>1. PICK q \in Passing : q = rp
  BY Types DEF IInv
<1>2. PICK todo \in SUBSET Ids, late \in SUBSET Ids :
         rp' = [q EXCEPT !.pc = "stop_next", !.todo = todo, !.late = late]
  <2>1. /\ {i \in {j \in Ids : store[j].state = "running"} : store[i].overdue \/ store[i].idle}
             \in SUBSET Ids
        /\ {i \in {j \in Ids : store[j].state = "running"} : store[i].overdue} \in SUBSET Ids
    OBVIOUS
  <2> QED  BY <1>1, <2>1 DEF ListRunning
<1>3. /\ PassFrame /\ UNCHANGED <<store, clusterVars>> /\ faults' \in 0 .. MaxFaults
  BY Types DEF ListRunning, ReaperOnly, PassFrame, ages, clusterVars, IInv
<1>4. rp' \in Passing /\ rp'.pc = "stop_next"
  BY <1>2 DEF Passing, PassLabels
<1>5. NotSweeping(rp')
  BY <1>4 DEF NotSweeping, PassLabels
<1> QED  BY <1>3, <1>4, <1>5, RecordsStay, GoesOn DEF PurgeLabels, Stopping

\* The list of stopped sessions.
LEMMA ListStoppedStep ==
    ASSUME IInv, ListStopped
    PROVE  IInv'
<1>1. PICK q \in Passing : q = rp
  BY Types DEF IInv
<1>2. PICK todo \in SUBSET Ids : rp' = [q EXCEPT !.pc = "delete_next", !.todo = todo]
  <2>1. {i \in Ids : store[i].state = "stopped" /\ store[i].expired} \in SUBSET Ids
    OBVIOUS
  <2> QED  BY <1>1, <2>1 DEF ListStopped
<1>3. /\ PassFrame /\ UNCHANGED <<store, clusterVars>> /\ faults' \in 0 .. MaxFaults
  BY Types DEF ListStopped, ReaperOnly, PassFrame, ages, clusterVars, IInv
<1>4. rp' \in Passing /\ rp'.pc = "delete_next"
  BY <1>2 DEF Passing, PassLabels
<1>5. NotSweeping(rp')
  BY <1>4 DEF NotSweeping, PassLabels
<1> QED  BY <1>3, <1>4, <1>5, RecordsStay, GoesOn DEF PurgeLabels, Stopping

\* What Stop and Delete take in hand is the record of the session.
LEMMA StopNextStep ==
    ASSUME IInv, StopNext
    PROVE  IInv'
<1>1. PICK q \in Passing : q = rp /\ q.pc = "stop_next"
  BY Types DEF IInv, StopNext
<1>2. /\ PassFrame /\ UNCHANGED <<store, clusterVars>> /\ faults' \in 0 .. MaxFaults
  BY Types DEF StopNext, ReaperOnly, PassFrame, ages, clusterVars, IInv
<1>3. CASE rp' = [Waiting EXCEPT !.pc = "list_stopped"]
  <2>1. PICK w \in Passing : w = Waiting
    BY AtEase
  <2>2. rp' \in Passing /\ rp'.pc = "list_stopped"
    BY <1>3, <2>1 DEF Passing, PassLabels
  <2>3. NotSweeping(rp')
    BY <2>2 DEF NotSweeping, PassLabels
  <2> QED  BY <1>2, <2>2, <2>3, RecordsStay, GoesOn DEF PurgeLabels, Stopping
<1>4. ASSUME NEW i \in q.todo, NEW why \in {"max-lifetime", "idle"},
             \/ rp' = [q EXCEPT !.pc = "stop_pod", !.todo = q.todo \ {i}, !.cur = i,
                                !.sess = store[i], !.why = why]
             \/ rp' = [q EXCEPT !.todo = q.todo \ {i}]
      PROVE  IInv'
  <2>1. PICK todo \in SUBSET Ids : todo = q.todo \ {i} /\ i \in Ids
    BY <1>4 DEF Passing
  <2>2. PICK s \in Record : s = store[i] /\ OwnRefs(s, i)
    BY <2>1, Types DEF IInv, RecordsOK, RecordOK
  <2>3. CASE rp' = [q EXCEPT !.pc = "stop_pod", !.todo = todo, !.cur = i, !.sess = s, !.why = why]
    <3>1. rp' \in Passing /\ rp'.pc = "stop_pod" /\ rp'.cur = i /\ rp'.sess = s
      BY <1>4, <2>1, <2>3 DEF Passing, PassLabels
    <3>2. NotSweeping(rp')
      BY <3>1 DEF NotSweeping, PassLabels
    <3> QED  BY <1>2, <2>1, <2>2, <3>1, <3>2, RecordsStay, GoesOn DEF PurgeLabels, Stopping
  <2>4. CASE rp' = [q EXCEPT !.todo = todo]
    <3>1. rp' \in Passing /\ rp'.pc = "stop_next"
      BY <1>1, <2>4 DEF Passing
    <3>2. NotSweeping(rp')
      BY <3>1 DEF NotSweeping, PassLabels
    <3> QED  BY <1>2, <3>1, <3>2, RecordsStay, GoesOn DEF PurgeLabels, Stopping
  <2> QED  BY <1>4, <2>1, <2>2, <2>3, <2>4
<1>5. CASE \E i \in q.todo : \E why \in {"max-lifetime", "idle"} :
             \/ rp' = [q EXCEPT !.pc = "stop_pod", !.todo = q.todo \ {i}, !.cur = i,
                                !.sess = store[i], !.why = why]
             \/ rp' = [q EXCEPT !.todo = q.todo \ {i}]
  BY <1>4, <1>5
<1> QED  BY <1>1, <1>3, <1>5 DEF StopNext

\* Delete takes the record of a session in whatever state it is.
LEMMA DeleteNextStep ==
    ASSUME IInv, DeleteNext
    PROVE  IInv'
<1>1. PICK q \in Passing : q = rp /\ q.pc = "delete_next"
  BY Types DEF IInv, DeleteNext
<1>2. /\ PassFrame /\ UNCHANGED <<store, clusterVars>> /\ faults' \in 0 .. MaxFaults
  BY Types DEF DeleteNext, ReaperOnly, PassFrame, ages, clusterVars, IInv
<1>3. CASE rp' = Waiting
  BY <1>2, <1>3, AtEase, RecordsStay, GoesOn DEF PurgeLabels, Stopping
<1>4. ASSUME NEW i \in q.todo,
             \/ rp' = [q EXCEPT !.pc = "purge_pod", !.todo = q.todo \ {i}, !.cur = i,
                                !.sess = store[i], !.then = "mark_dead"]
             \/ rp' = [q EXCEPT !.todo = q.todo \ {i}]
      PROVE  IInv'
  <2>1. PICK todo \in SUBSET Ids : todo = q.todo \ {i} /\ i \in Ids
    BY <1>4 DEF Passing
  <2>2. PICK s \in Record : s = store[i] /\ OwnRefs(s, i)
    BY <2>1, Types DEF IInv, RecordsOK, RecordOK
  <2>3. CASE rp' = [q EXCEPT !.pc = "purge_pod", !.todo = todo, !.cur = i, !.sess = s,
                             !.then = "mark_dead"]
    <3>1. /\ rp' \in Passing /\ rp'.pc = "purge_pod" /\ rp'.cur = i /\ rp'.sess = s
          /\ rp'.then = "mark_dead" /\ rp'.todo = todo
      BY <2>1, <2>3 DEF Passing, PurgeLabels
    <3>2. NotSweeping(rp')
      BY <3>1 DEF NotSweeping, PurgeLabels
    <3> QED  BY <1>2, <2>1, <2>2, <3>1, <3>2, RecordsStay, GoesOn
  <2>4. CASE rp' = [q EXCEPT !.todo = todo]
    <3>1. rp' \in Passing /\ rp'.pc = "delete_next"
      BY <1>1, <2>4 DEF Passing
    <3>2. NotSweeping(rp')
      BY <3>1 DEF NotSweeping, PassLabels
    <3> QED  BY <1>2, <3>1, <3>2, RecordsStay, GoesOn DEF PurgeLabels, Stopping
  <2> QED  BY <1>4, <2>1, <2>2, <2>3, <2>4
<1> QED  BY <1>1, <1>3, <1>4 DEF DeleteNext

\* Where Stop returns to.
LEMMA Stopped ==
    ASSUME IInv
    PROVE  StopDone \in Passing /\ StopDone.pc = "stop_next" /\ NotSweeping(StopDone)
<1>1. PICK q \in Passing : q = rp
  BY Types DEF IInv
<1>2. PICK z : z = [q EXCEPT !.pc = "stop_next", !.cur = None, !.sess = Absent, !.why = "none"]
  OBVIOUS
<1>3. z \in Passing /\ z.pc = "stop_next"
  BY <1>2, NothingYet DEF Passing, PassLabels
<1>4. z = StopDone
  BY <1>1, <1>2 DEF StopDone
<1>5. NotSweeping(z)
  BY <1>3 DEF NotSweeping, PassLabels
<1> QED  BY <1>3, <1>4, <1>5

\* The requests of Stop, one after the other.
LEMMA StopPodStep ==
    ASSUME IInv, StopPod
    PROVE  IInv'
<1>1. PICK q \in Passing : /\ q = rp /\ q.pc = "stop_pod"
                           /\ q.cur \in Ids /\ OwnRefs(q.sess, q.cur)
  BY Types DEF IInv, StopPod, PassOK, Stopping
<1>2. PassFrame /\ UNCHANGED store
  BY DEF StopPod, ReaperOnly, PassFrame, ages
<1>3. CASE DeletePod(rp.sess.pod) /\ rp' = [q EXCEPT !.pc = "stop_secret"] /\ UNCHANGED faults
  <2>1. ClusterTypeOK' /\ faults' \in 0 .. MaxFaults
    BY <1>3, PodDeleted, Types DEF IInv
  <2>2. rp' \in Passing /\ rp'.pc = "stop_secret" /\ rp'.cur = q.cur /\ rp'.sess = q.sess
    BY <1>3 DEF Passing, PassLabels
  <2>3. NotSweeping(rp')
    BY <2>2 DEF NotSweeping, PassLabels
  <2> QED  BY <1>1, <1>2, <2>1, <2>2, <2>3, GoesOn DEF PurgeLabels, Stopping
<1>4. CASE MayFail(StopDone)
  BY <1>2, <1>4, Stopped, RequestFailed DEF PurgeLabels, Stopping
<1> QED  BY <1>1, <1>3, <1>4 DEF StopPod

\* The second request of Stop.
LEMMA StopSecretStep ==
    ASSUME IInv, StopSecret
    PROVE  IInv'
<1>1. PICK q \in Passing : /\ q = rp /\ q.pc = "stop_secret"
                           /\ q.cur \in Ids /\ OwnRefs(q.sess, q.cur)
  BY Types DEF IInv, StopSecret, PassOK, Stopping
<1>2. PassFrame /\ UNCHANGED store
  BY DEF StopSecret, ReaperOnly, PassFrame, ages
<1>3. CASE DeleteSecret(rp.sess.pod) /\ rp' = [q EXCEPT !.pc = "mark_stopped"] /\ UNCHANGED faults
  <2>1. ClusterTypeOK' /\ faults' \in 0 .. MaxFaults
    BY <1>3, Types DEF IInv, DeleteSecret, ClusterTypeOK
  <2>2. rp' \in Passing /\ rp'.pc = "mark_stopped" /\ rp'.cur = q.cur /\ rp'.sess = q.sess
    BY <1>3 DEF Passing, PassLabels
  <2>3. NotSweeping(rp')
    BY <2>2 DEF NotSweeping, PassLabels
  <2> QED  BY <1>1, <1>2, <2>1, <2>2, <2>3, GoesOn DEF PurgeLabels, Stopping
<1>4. CASE MayFail(StopDone)
  BY <1>2, <1>4, Stopped, RequestFailed DEF PurgeLabels, Stopping
<1> QED  BY <1>1, <1>3, <1>4 DEF StopSecret

\* Stop and Delete write the clone they took, if the session is still there.
LEMMA UpdatedKeeps ==
    ASSUME IInv, PassFrame, UNCHANGED <<faults, clusterVars>>, NEW i \in Ids, NEW s \in Record,
           OwnRefs(s, i), s.state # "absent", store' = Updated(i, s),
           NEW q \in Passing, rp' = q, q.pc \in {"stop_next", "delete_next"}
    PROVE  IInv'
<1>1. /\ store \in [Ids -> Record] /\ faults' \in 0 .. MaxFaults /\ ClusterTypeOK'
      /\ \A j \in Ids : RecordOK(store[j], j)
  BY Types DEF IInv, RecordsOK, ClusterTypeOK, clusterVars
<1>2. CASE Tracked(i) /\ store' = [store EXCEPT ![i] = s]
  <2>1. store' \in [Ids -> Record] /\ store'[i] = s
        /\ \A j \in Ids \ {i} : store'[j] = store[j]
    BY <1>1, <1>2
  <2>2. \A j \in Ids : RecordOK(store'[j], j)
    <3>1. RecordOK(s, i)
      BY DEF RecordOK
    <3> QED  BY <1>1, <2>1, <3>1
  <2>3. \A j \in Ids : Tracked(j) => Tracked(j)'
    BY <2>1 DEF Tracked
  <2>4. PassOK' /\ NotSweeping(rp')
    BY DEF PassOK, PurgeLabels, Stopping, NotSweeping, PassLabels
  <2> QED  BY <1>1, <2>1, <2>2, <2>3, <2>4, Elsewhere
<1>3. CASE UNCHANGED store
  <2>1. NotSweeping(q) /\ q.pc \notin PurgeLabels \cup Stopping \cup {"mark_dead"}
    BY DEF NotSweeping, PassLabels, PurgeLabels, Stopping
  <2> QED  BY <1>1, <1>3, <2>1, GoesOn
<1> QED  BY <1>2, <1>3 DEF Updated

\* Stop writes the clone it took, stopped.
LEMMA MarkStoppedStep ==
    ASSUME IInv, MarkStopped
    PROVE  IInv'
<1>1. PICK i \in Ids, s \in Record : i = rp.cur /\ s = rp.sess /\ OwnRefs(s, i)
  BY Types DEF IInv, MarkStopped, PassOK, Stopping, Passing
<1>2. PICK t : /\ t = [s EXCEPT !.state = "stopped", !.expired = FALSE, !.idle = FALSE]
               /\ store' = Updated(i, t)
  BY <1>1 DEF MarkStopped
<1>3. t \in Record /\ OwnRefs(t, i) /\ t.state # "absent"
  BY <1>1, <1>2 DEF Record, OwnRefs
<1>4. rp' = StopDone /\ PassFrame /\ UNCHANGED <<faults, clusterVars>>
  BY DEF MarkStopped, PassFrame, ages, budget, clusterVars
<1> QED  BY <1>2, <1>3, <1>4, Stopped, UpdatedKeeps

\* Delete writes the clone it took, dead.
LEMMA MarkDeadStep ==
    ASSUME IInv, MarkDead
    PROVE  IInv'
<1>1. PICK i \in Ids, s \in Record : i = rp.cur /\ s = rp.sess /\ OwnRefs(s, i)
  BY Types DEF IInv, MarkDead, PassOK, Passing
<1>2. PICK t : t = [s EXCEPT !.state = "dead"] /\ store' = Updated(i, t)
  BY <1>1 DEF MarkDead
<1>3. t \in Record /\ OwnRefs(t, i) /\ t.state # "absent"
  BY <1>1, <1>2 DEF Record, OwnRefs
<1>4. rp' = PurgeDone("delete_next") /\ PassFrame /\ UNCHANGED <<faults, clusterVars>>
  BY DEF MarkDead, PassFrame, ages, budget, clusterVars
<1> QED  BY <1>2, <1>3, <1>4, Returned, UpdatedKeeps

\* Every step of the reaper.
LEMMA ReaperKeeps ==
    ASSUME IInv, ReaperStep
    PROVE  IInv'
<1>1. CASE StartPass \/ ListPods \/ SweepPods \/ ListClaims \/ SweepClaims
  BY <1>1, StartPassStep, ListPodsStep, SweepPodsStep, ListClaimsStep, SweepClaimsStep
<1>2. CASE PurgePod \/ PurgeSecret \/ PurgeClaim
  BY <1>2, PurgePodStep, PurgeSecretStep, PurgeClaimStep
<1>3. CASE ListRunning \/ StopNext \/ StopPod \/ StopSecret \/ MarkStopped
  BY <1>3, ListRunningStep, StopNextStep, StopPodStep, StopSecretStep, MarkStoppedStep
<1>4. CASE ListStopped \/ DeleteNext \/ MarkDead
  BY <1>4, ListStoppedStep, DeleteNextStep, MarkDeadStep
<1> QED  BY <1>1, <1>2, <1>3, <1>4 DEF ReaperStep

-----------------------------------------------------------------------------
(* Time, the pool, restarts, the cluster.                                  *)

\* Time changes the ages of a record only.
LEMMA PastFacts ==
    ASSUME NEW s \in Record, NEW limits
    PROVE  /\ Past(s, limits) \in Record
           /\ Past(s, limits).state = s.state
           /\ Past(s, limits).pod = s.pod /\ Past(s, limits).pvc = s.pvc
<1>1. PICK a \in BOOLEAN : a = (s.idle \/ "idle" \in limits)
  OBVIOUS
<1>2. PICK b \in BOOLEAN : b = (s.overdue \/ "overdue" \in limits)
  OBVIOUS
<1>3. PICK e \in BOOLEAN : e = (s.expired \/ "expired" \in limits)
  OBVIOUS
<1>4. Past(s, limits) = [s EXCEPT !.idle = a, !.overdue = b, !.expired = e]
  BY <1>1, <1>2, <1>3 DEF Past
<1> QED  BY <1>4 DEF Record

\* Between two passes, limits may pass for all that is not being built.
LEMMA TimeKeeps ==
    ASSUME IInv, rp.pc = "waiting", UNCHANGED <<stock, active, call, rp, budget, clusterVars>>,
           store' \in [Ids -> Record],
           \A j \in Ids : /\ store'[j].state = store[j].state
                          /\ store'[j].pod = store[j].pod /\ store'[j].pvc = store[j].pvc,
           oldPods' \subseteq Ids, oldClaims' \subseteq Ids,
           \A c \in Callers : call[c].pc \in Building =>
             /\ Id(c) \in oldPods' => Id(c) \in oldPods
             /\ Id(c) \in oldClaims' => Id(c) \in oldClaims
    PROVE  IInv'
<1>1. UNCHANGED <<stock, active, call, rp, restarts, faults, pods, pvcs, secrets>>
  BY DEF budget, clusterVars
<1>2. TypeOK'
  BY <1>1, Types, TypesAfter DEF IInv
<1>3. Counted'
  BY <1>1, CountsKept DEF IInv
<1>4. CallsOK'
  <2> SUFFICES ASSUME NEW c \in Callers PROVE CallOK(call[c])'
    BY DEF CallsOK
  <2>1. PICK r : r = call[c] /\ r = call'[c] /\ r.id = Id(c)
    BY <1>1 DEF Id
  <2>2. CallOK(r)
    BY <2>1 DEF IInv, CallsOK
  <2>3. r.pc \in Resuming => store'[r.id].state # "absent"
    BY <2>2 DEF CallOK, Resuming, Tracked
  <2>4. r.pc \in Building => /\ r.id \in oldPods' => r.id \in oldPods
                             /\ r.id \in oldClaims' => r.id \in oldClaims
    BY <2>1
  <2>5. CallOK(r)'
    BY <2>2, <2>3, <2>4 DEF CallOK, Tracked, Building
  <2> QED  BY <2>1, <2>5
<1>5. RecordsOK'
  BY DEF IInv, RecordsOK, RecordOK, OwnRefs
<1>6. rp'.pc = "waiting"
  BY <1>1
<1>7. PassOK' /\ Newcomers' /\ StrayPods' /\ StrayClaims'
  BY <1>6 DEF PassOK, Newcomers, StrayPods, StrayClaims, Listing, Sweeps, PurgeLabels, Stopping
<1> QED  BY <1>2, <1>3, <1>4, <1>5, <1>7 DEF IInv

\* Nothing is being built where it is quiet.
LEMMA QuietFacts ==
    ASSUME NEW i, Quiet(i)
    PROVE  rp.pc = "waiting" /\ \A c \in Callers : call[c].pc \in Building => Id(c) # i
BY DEF Quiet, At, Building

\* One limit of one session, pod or claim passes: none that is being built.
LEMMA SomeTimePassesStep ==
    ASSUME IInv, SomeTimePasses
    PROVE  IInv'
<1>1. /\ UNCHANGED <<stock, active, call, rp, budget, clusterVars>>
      /\ store \in [Ids -> Record] /\ oldPods \subseteq Ids /\ oldClaims \subseteq Ids
  BY Types DEF SomeTimePasses, IInv
<1>2. CASE \E i \in Ids : \E limit \in Limits(store[i]) :
             /\ Quiet(i)
             /\ store' = [store EXCEPT ![i] = Past(@, {limit})]
             /\ UNCHANGED ages
  <2>0. PICK i \in Ids : \E limit \in Limits(store[i]) :
                           /\ Quiet(i)
                           /\ store' = [store EXCEPT ![i] = Past(store[i], {limit})]
                           /\ UNCHANGED <<oldPods, oldClaims>>
    BY <1>2 DEF ages
  <2>1. PICK limits : /\ Quiet(i)
                      /\ store' = [store EXCEPT ![i] = Past(store[i], limits)]
                      /\ UNCHANGED <<oldPods, oldClaims>>
    BY <2>0
  <2>2. PICK s : s = Past(store[i], limits)
    OBVIOUS
  <2>3. /\ s \in Record /\ s.state = store[i].state
        /\ s.pod = store[i].pod /\ s.pvc = store[i].pvc
    BY <1>1, <2>2, PastFacts
  <2>4. store' = [store EXCEPT ![i] = s]
    BY <2>1, <2>2
  <2>5. store' \in [Ids -> Record]
        /\ \A j \in Ids : /\ store'[j].state = store[j].state
                          /\ store'[j].pod = store[j].pod /\ store'[j].pvc = store[j].pvc
    BY <1>1, <2>3, <2>4
  <2> QED  BY <1>1, <2>1, <2>5, QuietFacts, TimeKeeps
<1>3. CASE \E i \in Ids :
             /\ Quiet(i) /\ PodExists(i)
             /\ oldPods' = oldPods \cup {i}
             /\ UNCHANGED <<store, oldClaims>>
  <2>1. PICK i \in Ids : /\ Quiet(i) /\ oldPods' = oldPods \cup {i}
                         /\ UNCHANGED <<store, oldClaims>>
    BY <1>3
  <2> QED  BY <1>1, <2>1, QuietFacts, TimeKeeps
<1>4. CASE \E i \in Ids :
             /\ Quiet(i) /\ pvcs[i] # "none"
             /\ oldClaims' = oldClaims \cup {i}
             /\ UNCHANGED <<store, oldPods>>
  <2>1. PICK i \in Ids : /\ Quiet(i) /\ oldClaims' = oldClaims \cup {i}
                         /\ UNCHANGED <<store, oldPods>>
    BY <1>4
  <2> QED  BY <1>1, <2>1, QuietFacts, TimeKeeps
<1> QED  BY <1>2, <1>3, <1>4 DEF SomeTimePasses

\* The cluster and the pool leave what is alive and bound under a session id as
\* it is.
LEMMA WorldKeeps ==
    ASSUME IInv, UNCHANGED <<store, ages, active, call, rp, budget>>, stock' \subseteq PoolKeys,
           ClusterTypeOK', \A j \in Ids : PodAlive(j) => PodAlive(j)',
           \A j \in Ids : pvcs[j] = "bound" => pvcs'[j] = "bound"
    PROVE  IInv'
<1>1. UNCHANGED <<store, oldPods, oldClaims, active, call, rp, restarts, faults>>
  BY DEF ages, budget
<1>2. TypeOK'
  BY <1>1, Types, TypesAfter DEF IInv, ClusterTypeOK
<1>3. Counted'
  BY <1>1, CountsKept DEF IInv
<1>4. CallsOK' /\ RecordsOK' /\ PassOK'
  BY <1>1 DEF IInv, CallsOK, CallOK, RecordsOK, RecordOK, PassOK, OwnRefs, Tracked
<1>5. PICK q \in Passing : q = rp
  BY Types DEF IInv
<1>6. Newcomers'
  BY <1>1 DEF IInv, Newcomers, Newcomer, Listing, Sweeps, Id
<1>7. \A j \in Ids : StrayPod(j) => StrayPod(j)'
  BY <1>1 DEF StrayPod, Id
<1>8. \A j \in Ids : StrayClaim(j) => StrayClaim(j)'
  BY <1>1 DEF StrayClaim, Id
<1>9. q.todo \subseteq Ids /\ (q.pc \in PurgeLabels => q.cur \in Ids)
  BY <1>5 DEF Passing, IInv, PassOK
<1>10. StrayPods'
  <2>1. Sweeps("sweep_pods") => q.todo \cap q.known = {} /\ \A j \in q.todo : StrayPod(j)'
    BY <1>5, <1>7, <1>9 DEF IInv, StrayPods
  <2>2. q.pc = "purge_pod" /\ q.then = "sweep_pods"
          => q.cur \notin q.known /\ StrayPod(q.cur)'
    BY <1>5, <1>7, <1>9 DEF IInv, StrayPods, PurgeLabels
  <2>3. Sweeps("sweep_pods")' <=> Sweeps("sweep_pods")
    BY <1>1 DEF Sweeps
  <2> QED  BY <1>1, <1>5, <2>1, <2>2, <2>3 DEF StrayPods
<1>11. StrayClaims'
  <2>1. Sweeps("sweep_claims") => \A j \in q.todo : StrayClaim(j)'
    BY <1>5, <1>8, <1>9 DEF IInv, StrayClaims
  <2>2. q.pc \in PurgeLabels /\ q.then = "sweep_claims" => StrayClaim(q.cur)'
    BY <1>5, <1>8, <1>9 DEF IInv, StrayClaims
  <2>3. Sweeps("sweep_claims")' <=> Sweeps("sweep_claims")
    BY <1>1 DEF Sweeps
  <2> QED  BY <1>1, <1>5, <2>1, <2>2, <2>3 DEF StrayClaims
<1> QED  BY <1>2, <1>3, <1>4, <1>6, <1>10, <1>11 DEF IInv

\* All limits pass: nothing is being built.
LEMMA MuchTimePassesStep ==
    ASSUME IInv, MuchTimePasses
    PROVE  IInv'
<1>1. /\ UNCHANGED <<stock, active, call, rp, budget, clusterVars>>
      /\ store \in [Ids -> Record] /\ oldPods' \subseteq Ids /\ oldClaims' \subseteq Ids
      /\ \A i \in Ids : Quiet(i)
      /\ store' = [i \in Ids |-> Past(store[i], Limits(store[i]))]
  BY Types DEF MuchTimePasses, IInv
<1>2. ASSUME NEW j \in Ids
      PROVE  /\ store'[j] \in Record /\ store'[j].state = store[j].state
             /\ store'[j].pod = store[j].pod /\ store'[j].pvc = store[j].pvc
  <2>1. store[j] \in Record /\ store'[j] = Past(store[j], Limits(store[j]))
    BY <1>1
  <2> QED  BY <2>1, PastFacts
<1>3. store' \in [Ids -> Record]
  BY <1>1, <1>2
<1>4. \A c \in Callers : call[c].pc \notin Building
  <2>1. ASSUME NEW c \in Callers, call[c].pc \in Building PROVE FALSE
    <3>1. Id(c) \in Ids
      BY <2>1, CallFacts DEF Building
    <3> QED  BY <1>1, <2>1, <3>1, QuietFacts
  <2> QED  BY <2>1
<1>5. CASE rp.pc = "waiting"
  BY <1>1, <1>2, <1>3, <1>4, <1>5, TimeKeeps
<1>6. CASE Ids = {}
  <2>1. UNCHANGED <<oldPods, oldClaims, store>>
    BY <1>1, <1>6, Types DEF IInv
  <2>2. ClusterTypeOK' /\ stock' \subseteq PoolKeys /\ UNCHANGED <<store, ages>>
    BY <1>1, <2>1, Types DEF IInv, ClusterTypeOK, clusterVars, ages
  <2> QED  BY <1>1, <1>6, <2>2, WorldKeeps
<1>7. CASE \E i \in Ids : TRUE
  BY <1>1, <1>5, <1>7, QuietFacts
<1> QED  BY <1>5, <1>6, <1>7

\* The pool fills under its own names.
LEMMA PoolRefillsStep ==
    ASSUME IInv, NEW k \in PoolKeys, PoolRefills(k)
    PROVE  IInv'
<1>1. /\ pods' = [pods EXCEPT ![k] = [phase |-> "ready", claim |-> k]]
      /\ pvcs' = [pvcs EXCEPT ![k] = "bound"]
      /\ secrets' = [secrets EXCEPT ![k] = TRUE]
      /\ UNCHANGED <<store, ages, active, call, rp, budget>> /\ stock' = stock \cup {k}
  BY DEF PoolRefills
<1>2. /\ pods \in [Keys -> [phase : PodPhases, claim : Keys \cup {None}]]
      /\ pvcs \in [Keys -> ClaimPhases] /\ secrets \in [Keys -> BOOLEAN]
      /\ stock \subseteq PoolKeys /\ k \in Keys
  BY Types, KeyFacts DEF IInv
<1>3. [phase |-> "ready", claim |-> k] \in [phase : PodPhases, claim : Keys \cup {None}]
  BY <1>2 DEF PodPhases
<1>4. ClusterTypeOK' /\ stock' \subseteq PoolKeys
  BY <1>1, <1>2, <1>3 DEF ClusterTypeOK, ClaimPhases
<1>5. \A j \in Ids : pods'[j] = pods[j] /\ pvcs'[j] = pvcs[j]
  BY <1>1, <1>2, KeyFacts
<1>6. \A j \in Ids : PodAlive(j) => PodAlive(j)'
  BY <1>5 DEF PodAlive
<1> QED  BY <1>1, <1>4, <1>5, <1>6, WorldKeeps

\* What the cluster ends was being deleted already.
LEMMA ClusterActsStep ==
    ASSUME IInv, ClusterActs
    PROVE  IInv'
<1>1. /\ UNCHANGED <<store, ages, active, call, rp, budget>> /\ stock' \subseteq PoolKeys
      /\ pods \in [Keys -> [phase : PodPhases, claim : Keys \cup {None}]]
      /\ pvcs \in [Keys -> ClaimPhases] /\ secrets \in [Keys -> BOOLEAN] /\ Ids \subseteq Keys
  BY Types, KeyFacts DEF ClusterActs, IInv
<1>2. PICK k \in Keys : PodBecomesReady(k) \/ PodTerminates(k) \/ ClaimIsReleased(k)
  BY DEF ClusterActs, ClusterStep
<1>3. CASE PodBecomesReady(k)
  <2>1. [pods[k] EXCEPT !.phase = "ready"] \in [phase : PodPhases, claim : Keys \cup {None}]
        /\ [pods[k] EXCEPT !.phase = "ready"].phase = "ready"
    BY <1>1 DEF PodPhases
  <2>2. pods' = [pods EXCEPT ![k] = [pods[k] EXCEPT !.phase = "ready"]]
        /\ UNCHANGED <<pvcs, secrets>>
    BY <1>3 DEF PodBecomesReady
  <2>3. ClusterTypeOK' /\ \A j \in Ids : PodAlive(j) => PodAlive(j)'
    BY <1>1, <2>1, <2>2 DEF ClusterTypeOK, PodAlive
  <2> QED  BY <1>1, <2>2, <2>3, WorldKeeps
<1>4. CASE PodTerminates(k)
  <2>1. NoPod \in [phase : PodPhases, claim : Keys \cup {None}]
    BY DEF NoPod, PodPhases
  <2>2. pods' = [pods EXCEPT ![k] = NoPod] /\ UNCHANGED <<pvcs, secrets>>
        /\ pods[k].phase = "terminating"
    BY <1>4 DEF PodTerminates
  <2>3. ClusterTypeOK' /\ \A j \in Ids : PodAlive(j) => PodAlive(j)'
    BY <1>1, <2>1, <2>2 DEF ClusterTypeOK, PodAlive
  <2> QED  BY <1>1, <2>2, <2>3, WorldKeeps
<1>5. CASE ClaimIsReleased(k)
  <2>1. pvcs' = [pvcs EXCEPT ![k] = "none"] /\ UNCHANGED <<pods, secrets>>
        /\ pvcs[k] = "terminating"
    BY <1>5 DEF ClaimIsReleased
  <2>2. ClusterTypeOK' /\ \A j \in Ids : pvcs[j] = "bound" => pvcs'[j] = "bound"
    BY <1>1, <2>1 DEF ClusterTypeOK, ClaimPhases
  <2>3. \A j \in Ids : PodAlive(j) => PodAlive(j)'
    BY <2>1 DEF PodAlive
  <2> QED  BY <1>1, <2>2, <2>3, WorldKeeps
<1> QED  BY <1>2, <1>3, <1>4, <1>5

\* With nothing in memory, nothing is in flight: so it is at the beginning ...
LEMMA InitIInv ==
    ASSUME Init
    PROVE  IInv
<1>1. \A c \in Callers : call[c] = NoCall /\ call[c].pc = "idle"
  BY DEF Init, NoCall
<1>2. Counted
  <2> SUFFICES ASSUME NEW i \in Ids PROVE active[i] = Cardinality(InFlight(i))
    BY DEF Counted
  <2>1. InFlight(i) = {} /\ active[i] = 0
    BY <1>1 DEF InFlight, Init
  <2> QED  BY <2>1, FS_EmptySet
<1>3. active \in [Ids -> 0 .. Cardinality(Callers)]
  <2>1. DOMAIN active = Ids /\ active = [i \in Ids |-> active[i]]
    BY DEF Init
  <2> QED  BY <1>2, <2>1, CountsTyped
<1>4. NoPod \in [phase : PodPhases, claim : Keys \cup {None}]
  BY DEF NoPod, PodPhases
<1>5. TypeOK
  BY <1>3, <1>4, NothingYet, ReaperAssumption, Types
     DEF Init, EmptyCluster, ClaimPhases, ReaperAssumption
<1>6. CallsOK /\ RecordsOK
  BY <1>1, NothingYet
     DEF Init, CallsOK, CallOK, RecordsOK, RecordOK, NoCall, Building, Resuming
<1>7. rp.pc = "waiting"
  BY DEF Init, Waiting
<1>8. PassOK /\ Newcomers /\ StrayPods /\ StrayClaims
  BY <1>7 DEF PassOK, Newcomers, StrayPods, StrayClaims, Listing, Sweeps, PurgeLabels, Stopping
<1> QED  BY <1>2, <1>5, <1>6, <1>8 DEF IInv

\* ... and after a restart.
LEMMA RestartStep ==
    ASSUME IInv, Restart
    PROVE  IInv'
<1>1. \A c \in Callers : call'[c] = NoCall /\ call'[c].pc = "idle"
  BY DEF Restart, NoCall
<1>2. \A i \in Ids : InFlight(i)' = {} /\ active'[i] = 0
  BY <1>1 DEF InFlight, Restart
<1>3. Counted'
  BY <1>2, FS_EmptySet DEF Counted
<1>4. active' \in [Ids -> 0 .. Cardinality(Callers)]
  <2>1. 0 \in 0 .. Cardinality(Callers)
    BY CountsAreSmall
  <2> QED  BY <2>1 DEF Restart
<1>5. restarts' \in 0 .. MaxRestarts
  BY Types, ReaperAssumption DEF IInv, Restart, ReaperAssumption
<1>6. UNCHANGED <<oldPods, oldClaims, faults, pods, pvcs, secrets>>
  BY DEF Restart, ages, clusterVars
<1>7. TypeOK'
  BY <1>4, <1>5, <1>6, NothingYet, Types, TypesAfter DEF IInv, Restart
<1>8. CallsOK' /\ RecordsOK'
  BY <1>1, NothingYet
     DEF Restart, CallsOK, CallOK, RecordsOK, RecordOK, OwnRefs, NoCall, Building, Resuming
<1>9. rp'.pc = "waiting"
  BY DEF Restart, Waiting
<1>10. PassOK' /\ Newcomers' /\ StrayPods' /\ StrayClaims'
  BY <1>9 DEF PassOK, Newcomers, StrayPods, StrayClaims, Listing, Sweeps, PurgeLabels, Stopping
<1> QED  BY <1>3, <1>7, <1>8, <1>10 DEF IInv

-----------------------------------------------------------------------------
(* The theorems.                                                           *)

\* A step that changes nothing keeps everything.
LEMMA Stutter ==
    ASSUME IInv, UNCHANGED vars
    PROVE  IInv'
<1>1. /\ UNCHANGED <<store, ages, active, call, rp, budget>> /\ UNCHANGED clusterVars
      /\ stock' \subseteq PoolKeys
  BY Types DEF vars, ages, budget, clusterVars, IInv
<1>2. /\ ClusterTypeOK' /\ \A j \in Ids : PodAlive(j) => PodAlive(j)'
      /\ \A j \in Ids : pvcs[j] = "bound" => pvcs'[j] = "bound"
  BY <1>1, Types DEF IInv, ClusterTypeOK, clusterVars, PodAlive
<1> QED  BY <1>1, <1>2, WorldKeeps

\* Every step keeps the invariant, one case per action.
LEMMA StepIInv ==
    ASSUME IInv, [Next]_vars
    PROVE  IInv'
<1>1. ASSUME NEW c \in Callers, CallStep(c) PROVE IInv'
  <2>1. CASE Create(c) \/ PodCreate(c) \/ Persist(c) \/ WaitReady(c)
    BY <2>1, CreateStep, PodCreateStep, PersistStep, WaitReadyStep
  <2>2. CASE Resume(c) \/ ResumeWait(c) \/ BeginActivity(c) \/ EndActivity(c)
    BY <2>2, ResumeStep, ResumeWaitStep, BeginActivityStep, EndActivityStep
  <2> QED  BY <1>1, <2>1, <2>2 DEF CallStep
<1>2. ASSUME NEW c \in Callers, NEW i \in Ids, EnsureGet(c, i) PROVE IInv'
  BY <1>2, EnsureGetStep
<1>3. CASE ReaperStep
  BY <1>3, ReaperKeeps
<1>4. CASE \E k \in PoolKeys : PoolRefills(k)
  BY <1>4, PoolRefillsStep
<1>5. CASE SomeTimePasses \/ MuchTimePasses
  BY <1>5, SomeTimePassesStep, MuchTimePassesStep
<1>6. CASE Restart \/ ClusterActs
  BY <1>6, RestartStep, ClusterActsStep
<1>7. CASE UNCHANGED vars
  BY <1>7, Stutter
<1> QED  BY <1>1, <1>2, <1>3, <1>4, <1>5, <1>6, <1>7 DEF Next

\* The invariant holds in every state that can be reached.
THEOREM Invariance == Spec => []IInv
<1>1. Init => IInv
  BY InitIInv
<1>2. IInv /\ [Next]_vars => IInv'
  BY StepIInv
<1> QED  BY <1>1, <1>2, PTL DEF Spec

\* The reaper, the calls and their counts are well-typed; the count of active
\* calls of a session never exceeds the number of goroutines that serve calls.
THEOREM TypeCorrect == Spec => []TypeOK
<1>1. IInv => TypeOK
  BY DEF IInv
<1> QED  BY <1>1, Invariance, PTL

\* What is about to be deleted as an orphan is used by nobody: a pod that a session
\* or a creation refers to has its session's id or is a warm one, and a stray is
\* neither.
LEMMA StraysAreUnused ==
    ASSUME IInv
    PROVE  SweepSparesSandboxes
<1>1. \A j \in Ids : OwnRefs(store[j], j)
  BY DEF IInv, RecordsOK, RecordOK
<1>2. \A c \in Callers : call[c].pc \in Building =>
         Id(c) \in Ids /\ OwnRefs(call[c].sess, Id(c))
  BY DEF IInv, CallsOK, CallOK, Building, Id
<1>3. rp.pc \in PurgeLabels => rp.cur \in Ids
  BY DEF IInv, PassOK
<1>4. ASSUME rp.pc = "purge_pod", rp.then # "mark_dead", rp.cur \in UsedPods
      PROVE  FALSE
  <2>1. PICK k \in Ids : k = rp.cur /\ k \notin PoolKeys /\ k # None
    BY <1>3, <1>4, KeyFacts DEF PurgeLabels
  <2>2. rp.then \in {"sweep_pods", "sweep_claims"}
    BY <1>4, Types DEF IInv, PassOK, PurgeLabels, Passing
  <2>3. store[k].pod # k
    BY <1>4, <2>1, <2>2 DEF IInv, StrayPods, StrayClaims, StrayPod, StrayClaim, PurgeLabels
  <2>4. ASSUME NEW c \in Callers, call[c].pc = "persist", Id(c) = k
        PROVE  call[c].sess.pod # k
    <3>1. call[c].sess.pod = call[c].sess.pvc
      BY <2>4 DEF IInv, CallsOK, CallOK, Building
    <3>2. CASE rp.then = "sweep_pods"
      BY <1>4, <2>1, <2>4, <3>2 DEF IInv, StrayPods, StrayPod
    <3>3. CASE rp.then = "sweep_claims"
      BY <1>4, <2>1, <2>4, <3>1, <3>3
         DEF IInv, StrayClaims, StrayClaim, Building, PurgeLabels
    <3> QED  BY <2>2, <3>2, <3>3
  <2>5. ASSUME NEW i \in Ids, store[i].pod = k PROVE FALSE
    BY <1>1, <2>1, <2>3, <2>5 DEF OwnRefs
  <2>6. ASSUME NEW c \in Callers, call[c].pc = "persist", call[c].sess.pod = k PROVE FALSE
    <3>1. OwnRefs(call[c].sess, Id(c))
      BY <1>2, <2>6 DEF Building
    <3> QED  BY <2>1, <2>4, <2>6, <3>1 DEF OwnRefs
  <2> QED  BY <1>4, <2>1, <2>5, <2>6 DEF UsedPods, At
<1>5. ASSUME rp.pc = "purge_claim", rp.then = "sweep_claims", rp.cur \in UsedClaims
      PROVE  FALSE
  <2>1. PICK k \in Ids : k = rp.cur /\ k \notin PoolKeys /\ k # None
    BY <1>3, <1>5, KeyFacts DEF PurgeLabels
  <2>2. StrayClaim(k)
    BY <1>5, <2>1 DEF IInv, StrayClaims, PurgeLabels
  <2>3. ASSUME NEW i \in Ids, store[i].pvc = k PROVE FALSE
    BY <1>1, <2>1, <2>2, <2>3 DEF OwnRefs, StrayClaim
  <2>4. ASSUME NEW c \in Callers, call[c].pc \in {"pod_create", "persist"},
               call[c].sess.pvc = k
        PROVE  FALSE
    <3>1. OwnRefs(call[c].sess, Id(c))
      BY <1>2, <2>4 DEF Building
    <3> QED  BY <2>1, <2>2, <2>4, <3>1 DEF OwnRefs, StrayClaim, Building
  <2> QED  BY <1>5, <2>1, <2>3, <2>4 DEF UsedClaims, At
<1> QED  BY <1>4, <1>5 DEF SweepSparesSandboxes

\* The sweep of orphans spares every sandbox that is in use, whatever calls do
\* between its three lists and its deletions.
THEOREM SweepIsSafe == Spec => []SweepSparesSandboxes
<1>1. IInv => SweepSparesSandboxes
  BY StraysAreUnused
<1> QED  BY <1>1, Invariance, PTL
=============================================================================
