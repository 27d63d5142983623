------------------------------- MODULE Cluster -------------------------------
(***************************************************************************)
(* The Kubernetes objects behind the sandboxes and what the cluster does   *)
(* with them on its own.  A sandbox provisioned under SessionID k owns     *)
(* three objects whose names all derive from k: the pod "sbx-k", the       *)
(* workspace PersistentVolumeClaim "pvc-k" and the CA Secret "ca-k"; the   *)
(* model therefore indexes every kind of object by that key.  A resumed    *)
(* warm-pool session is the one case where a pod mounts a claim of another *)
(* key, which is why a pod records the claim it mounts.                    *)
(*                                                                         *)
(* The operators with a prime are the effects of one API request of        *)
(* internal/runtime/kubernetes.go.  PodBecomesReady, PodTerminates and     *)
(* ClaimIsReleased are steps of the cluster's own controllers.             *)
(***************************************************************************)
EXTENDS Naturals, FiniteSets

CONSTANTS
    Keys,   \* the SessionIDs that objects are named after
    None    \* no name: the empty string of the Go code

ASSUME NoneIsNoKey == None \notin Keys

VARIABLES
    pods,     \* pods[k]: phase of "sbx-k" and the key of the claim it mounts
    pvcs,     \* pvcs[k]: phase of "pvc-k"
    secrets   \* secrets[k]: whether "ca-k" exists

clusterVars == <<pods, pvcs, secrets>>

PodPhases == {"none", "starting", "ready", "terminating"}
ClaimPhases == {"none", "bound", "terminating"}
NoPod == [phase |-> "none", claim |-> None]

\* Every object is in one of its phases, and a pod mounts a known claim or none.
ClusterTypeOK ==
    /\ pods \in [Keys -> [phase : PodPhases, claim : Keys \cup {None}]]
    /\ pvcs \in [Keys -> ClaimPhases]
    /\ secrets \in [Keys -> BOOLEAN]

EmptyCluster ==
    /\ pods = [k \in Keys |-> NoPod]
    /\ pvcs = [k \in Keys |-> "none"]
    /\ secrets = [k \in Keys |-> FALSE]

-----------------------------------------------------------------------------
(* What the objects of a key look like.                                    *)

PodExists(k) == pods[k].phase # "none"
PodAlive(k) == pods[k].phase \in {"starting", "ready"}
Mounted(k) == \E l \in Keys : pods[l].claim = k
Leftovers(k) == PodExists(k) \/ Mounted(k) \/ pvcs[k] # "none" \/ secrets[k]

\* Objects nobody has asked Kubernetes to delete yet.
Retained(k) == PodAlive(k) \/ pvcs[k] = "bound" \/ secrets[k]

-----------------------------------------------------------------------------
(* Effects of the API requests.  Deleting what does not exist changes      *)
(* nothing: the runtime treats NotFound as success.                        *)

CreateClaim(k) ==
    /\ pvcs' = [pvcs EXCEPT ![k] = "bound"]
    /\ UNCHANGED <<pods, secrets>>

CreateSecretObject(k) ==
    /\ secrets' = [secrets EXCEPT ![k] = TRUE]
    /\ UNCHANGED <<pods, pvcs>>

CreatePodMounting(k, claim) ==
    /\ pods' = [pods EXCEPT ![k] = [phase |-> "starting", claim |-> claim]]
    /\ UNCHANGED <<pvcs, secrets>>

DeletePod(k) ==
    /\ pods' = IF PodExists(k) THEN [pods EXCEPT ![k].phase = "terminating"]
                               ELSE pods
    /\ UNCHANGED <<pvcs, secrets>>

DeleteSecret(k) ==
    /\ secrets' = [secrets EXCEPT ![k] = FALSE]
    /\ UNCHANGED <<pods, pvcs>>

DeleteClaim(k) ==
    /\ pvcs' = [pvcs EXCEPT ![k] = IF pvcs[k] = "none" THEN "none"
                                                       ELSE "terminating"]
    /\ UNCHANGED <<pods, secrets>>

-----------------------------------------------------------------------------
(* The cluster's own steps.  A pod starts only once its volumes are there; *)
(* the pvc-protection finalizer keeps a deleted claim until no pod object  *)
(* mounts it any more.                                                     *)

PodBecomesReady(k) ==
    /\ pods[k].phase = "starting"
    /\ pods[k].claim \in Keys
    /\ pvcs[pods[k].claim] = "bound"
    /\ secrets[k]
    /\ pods' = [pods EXCEPT ![k].phase = "ready"]
    /\ UNCHANGED <<pvcs, secrets>>

PodTerminates(k) ==
    /\ pods[k].phase = "terminating"
    /\ pods' = [pods EXCEPT ![k] = NoPod]
    /\ UNCHANGED <<pvcs, secrets>>

ClaimIsReleased(k) ==
    /\ pvcs[k] = "terminating"
    /\ ~ Mounted(k)
    /\ pvcs' = [pvcs EXCEPT ![k] = "none"]
    /\ UNCHANGED <<pods, secrets>>

ClusterStep ==
    \E k \in Keys : PodBecomesReady(k) \/ PodTerminates(k) \/ ClaimIsReleased(k)
=============================================================================
