---------------------------- MODULE KubeCluster ----------------------------
(***************************************************************************)
(* The Kubernetes side: the Deployments owned by one                        *)
(* TemporalWorkerDeployment, one per build ID, the informer cache the       *)
(* controller lists them from, and the Deployment controller and kubelet,   *)
(* which bring the pods to the wanted number (external: modelled from what  *)
(* internal/k8s and internal/controller read and write).                    *)
(***************************************************************************)
EXTENDS Vocabulary

CONSTANTS
  Templates,    \* pod templates, standing for their hash; Nil is "no hash"
  Connections   \* TemporalConnection specs, standing for their hash

VARIABLES
  deploys,      \* [Builds -> Deployment or Nil]: the API server's objects
  cache         \* the controller's informer cache of them

kubeVars == <<deploys, cache>>

\* replicas is .spec.replicas, pods .status.replicas (the pods that run),
\* available the Available condition, conn and tmpl the hash annotations.
Deployment ==
  [replicas : Nat, pods : Nat, available : BOOLEAN,
   conn : Connections, tmpl : Templates \cup {Nil}]

KubeTypeOK ==
  /\ deploys \in [Builds -> Deployment \cup {Nil}]
  /\ cache \in [Builds -> Deployment \cup {Nil}]

KubeInit ==
  /\ deploys = [b \in Builds |-> Nil]
  /\ cache = deploys

\* internal/k8s/deployments.go GetDeploymentState: List through the cache.
GetDeploymentState == IF "lag" \in Env THEN cache ELSE deploys

HasPods(b) == deploys[b] # Nil /\ deploys[b].pods > 0

----------------------------------------------------------------------------
(* Calls of the controller.  Each is the successful call; Refused (module   *)
(* WorkerController) says when the API server rejects it.                   *)

NewDeployment(spec, conn) ==
  [replicas |-> spec.replicas, pods |-> 0, available |-> FALSE,
   conn |-> conn, tmpl |-> spec.tmpl]

KubeCreate(b, spec, conn) ==
  /\ deploys[b] = Nil
  /\ deploys' = [deploys EXCEPT ![b] = NewDeployment(spec, conn)]
  /\ UNCHANGED cache

KubeDelete(b) ==
  /\ deploys[b] # Nil
  /\ deploys' = [deploys EXCEPT ![b] = Nil]
  /\ UNCHANGED cache

\* The scale subresource carries no resource version: last writer wins.
KubeScale(b, n) ==
  /\ deploys[b] # Nil
  /\ deploys' = [deploys EXCEPT ![b].replicas = n]
  /\ UNCHANGED cache

\* The whole object with the resource version of the copy that was read.
KubeUpdate(b, old, new) ==
  /\ deploys[b] = old
  /\ deploys' = [deploys EXCEPT ![b] = new]
  /\ UNCHANGED cache

----------------------------------------------------------------------------
(* The cluster *)

\* All the pods of the wanted scale run (or the surplus ones are gone).
PodsSettle(b) ==
  /\ deploys[b] # Nil
  /\ deploys[b].pods # deploys[b].replicas \/ ~deploys[b].available
  /\ deploys' = [deploys EXCEPT ![b].pods = deploys[b].replicas, ![b].available = TRUE]
  /\ UNCHANGED cache

\* The Deployment controller notices that pods are missing.  Until it does,
\* the Available condition is the one of the previous scale.
PodsMissed(b) ==
  /\ deploys[b] # Nil
  /\ deploys[b].pods < deploys[b].replicas /\ deploys[b].available
  /\ deploys' = [deploys EXCEPT ![b].available = FALSE]
  /\ UNCHANGED cache

\* The pods crash or are evicted.
PodsFail(b) ==
  /\ "podfail" \in Env
  /\ HasPods(b)
  /\ deploys' = [deploys EXCEPT ![b].pods = 0, ![b].available = FALSE]
  /\ UNCHANGED cache

\* A watch event brings the cache up to date on one Deployment.
CacheSync(b) ==
  /\ "lag" \in Env
  /\ cache[b] # deploys[b]
  /\ cache' = [cache EXCEPT ![b] = deploys[b]]
  /\ UNCHANGED deploys
=============================================================================
