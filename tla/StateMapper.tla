---------------------------- MODULE StateMapper ----------------------------
(***************************************************************************)
(* internal/controller/state_mapper.go: from the Deployments listed in      *)
(* Kubernetes and the state read from Temporal to the status of the         *)
(* TemporalWorkerDeployment, which is all the planner sees of both.         *)
(*                                                                         *)
(* k8s is the map of Deployments by build ID, ts the Temporal state (see    *)
(* TemporalServer), each with Nil where the map has no entry.               *)
(***************************************************************************)
EXTENDS Planner

\* internal/k8s/deployments.go: the Available condition of the Deployment.
IsDeploymentHealthy(d) == d.available

\* What the Temporal state says of a version; NotRegistered if nothing.
StatusOf(ts, b) ==
  IF ts.versions[b] = Nil THEN "NotRegistered" ELSE ts.versions[b].status

mapCurrentWorkerDeploymentVersionByBuildID(k8s, ts) ==
  IF ts.current = Nil THEN Nil
  ELSE [build |-> ts.current, deployed |-> k8s[ts.current] # Nil]

\* The ramp is only that of the target; another ramping version has none.
mapTargetWorkerDeploymentVersionByBuildID(k8s, ts, b) ==
  LET known   == ts.versions[b] # Nil
      ramping == ts.ramping = b
  IN  [build    |-> b,
       deployed |-> k8s[b] # Nil,
       healthy  |-> k8s[b] # Nil /\ IsDeploymentHealthy(k8s[b]),
       status   |-> StatusOf(ts, b),
       pct      |-> IF ramping THEN ts.pct ELSE Nil,
       rampAge  |-> IF ramping THEN ts.rampAge ELSE Nil,
       tqs      |-> IF known THEN ts.versions[b].tqs ELSE {},
       tests    |-> IF known THEN ts.versions[b].tests ELSE [q \in TaskQueues |-> Nil]]

\* A Deployment is listed as deprecated when it is neither current nor target.
mapDeprecatedWorkerDeploymentVersionByBuildID(k8s, ts, b) ==
  [deployed   |-> k8s[b] # Nil,
   status     |-> StatusOf(ts, b),
   drainedAge |-> IF ts.versions[b] = Nil THEN Nil ELSE ts.versions[b].drainedAge,
   eligible   |-> /\ ts.versions[b] # Nil
                  /\ ts.versions[b].status = "Drained"
                  /\ ts.versions[b].noPollers]

mapToStatus(k8s, ts, targetBuildID) ==
  [token      |-> ts.token,
   lastMod    |-> ts.lastMod,
   current    |-> mapCurrentWorkerDeploymentVersionByBuildID(k8s, ts),
   target     |-> mapTargetWorkerDeploymentVersionByBuildID(k8s, ts, targetBuildID),
   deprecated |-> [b \in Builds |->
                     IF k8s[b] = Nil \/ b = ts.current \/ b = targetBuildID
                     THEN Nil
                     ELSE mapDeprecatedWorkerDeploymentVersionByBuildID(k8s, ts, b)]]
=============================================================================
