--------------------------- MODULE PodConnection ----------------------------
(***************************************************************************)
(* What of a TemporalConnection the pods of a Deployment carry: its host in *)
(* TEMPORAL_ADDRESS, its certificate as a volume, its API key as a          *)
(* variable, and the hash annotation that says which connection they were   *)
(* last brought up to (internal/k8s/deployments.go, internal/planner).      *)
(*                                                                         *)
(* A connection is [host, mtls, apiKey]: the last two are the names of      *)
(* Secrets, empty without the reference, and never both set.  Strings are   *)
(* sequences, because the hash puts two of them together without a          *)
(* separator.                                                               *)
(***************************************************************************)
EXTENDS Sequences

ComputeConnectionSpecHash_HostOnly(tc) == tc.host

\* SHA-256 is taken to be injective.
ComputeConnectionSpecHash(tc) ==
  tc.host \o (IF tc.mtls # <<>> THEN tc.mtls ELSE tc.apiKey)

\* The pods of a new Deployment, and of one that is rebuilt because the pod
\* template changed under a custom build ID.
ApplyControllerPodSpecModifications(tc) ==
  [host |-> tc.host, mtls |-> tc.mtls, apiKey |-> tc.apiKey,
   hash |-> ComputeConnectionSpecHash(tc)]

\* Only a volume that is there is pointed to the Secret.  The API key is left
\* alone, and so is what a change of the auth mode would add or remove.
updateDeploymentWithConnection(pod, tc) ==
  [pod EXCEPT
     !.hash = ComputeConnectionSpecHash(tc),
     !.host = tc.host,
     !.mtls = IF tc.mtls # <<>> /\ @ # <<>> THEN tc.mtls ELSE @]

checkAndUpdateDeploymentConnectionSpec(pod, tc) ==
  IF ComputeConnectionSpecHash(tc) # pod.hash
  THEN updateDeploymentWithConnection(pod, tc) ELSE pod
=============================================================================
