------------------------------ MODULE Planner ------------------------------
(***************************************************************************)
(* internal/planner/planner.go: the pure function from what the controller *)
(* observed (Kubernetes Deployments, status, Temporal state, spec) to the   *)
(* plan it then executes, and the validation of the rollout strategy of    *)
(* api/v1alpha1/temporalworker_webhook.go that runs before it.             *)
(*                                                                         *)
(* Data.  A build ID is a member of Builds; a missing pointer, map entry   *)
(* or empty string is Nil.  A map keyed by build ID is a total function    *)
(* whose value is Nil where the map has no entry.  A point in time is the  *)
(* age it has when it is read (time.Since).                                *)
(*                                                                         *)
(* A definition X_Y before a definition X is X with a plausible bug Y: the  *)
(* properties are checked to notice it.  Nothing else uses it.             *)
(***************************************************************************)
EXTENDS Vocabulary, Integers

CONSTANTS
  MinPause,       \* shortest pauseDuration the validation accepts (30s)
  MaxIneligible   \* MaxDeploymentVersionsIneligibleForDeletion

\* Any number that the environment variable of the controller holds.
ASSUME LimitAssumption == MaxIneligible \in Int

VersionStatuses ==
  {"NotRegistered", "Inactive", "Ramping", "Current", "Draining", "Drained"}

\* The builds that have an entry in a map.
Keys(f) == {b \in Builds : f[b] # Nil}

----------------------------------------------------------------------------
(* api/v1alpha1/temporalworker_webhook.go *)

\* Progressive needs steps, each longer than the minimal pause and each with
\* a larger percentage than the one before (the first one larger than 0).
validateRolloutStrategy(spec) ==
  spec.strategy = "Progressive" =>
    /\ spec.steps # <<>>
    /\ \A i \in 1 .. Len(spec.steps) :
         /\ spec.steps[i].pause >= MinPause
         /\ spec.steps[i].ramp > (IF i = 1 THEN 0 ELSE spec.steps[i - 1].ramp)

----------------------------------------------------------------------------
(* Deployments: delete, scale, create, update *)

\* `version.DrainedSince.Time` of a nil DrainedSince: getDeleteDeployments and
\* getScaleDeployments panic on a Drained version whose drain time is unknown.
DrainTimePanic(k8s, status) ==
  \E b \in Keys(status.deprecated) :
    /\ status.deprecated[b].deployed /\ k8s[b] # Nil
    /\ status.deprecated[b].status = "Drained"
    /\ status.deprecated[b].drainedAge = Nil

\* The delays of the sunset strategy have passed since the drainage ended: the
\* one before the scale-down, and the sum of both before the deletion.
ScaledownDelayOver_AtDelay(version, spec) == version.drainedAge >= spec.scaledownDelay
ScaledownDelayOver(version, spec) == version.drainedAge > spec.scaledownDelay
DeleteDelayOver(version, spec) ==
  version.drainedAge > spec.deleteDelay + spec.scaledownDelay

\* Temporal, which knows the Worker Deployment, does not know the version.
Forgotten_OrNotFound(version, foundDeploymentInTemporal) ==
  version.status = "NotRegistered"
Forgotten(version, foundDeploymentInTemporal) ==
  version.status = "NotRegistered" /\ foundDeploymentInTemporal

getDeleteDeployments(k8s, status, spec, foundDeploymentInTemporal) ==
  {b \in Keys(status.deprecated) :
     LET version == status.deprecated[b] IN
     /\ version.deployed
     /\ k8s[b] # Nil
     /\ \/ /\ version.status = "Drained"
           /\ DeleteDelayOver(version, spec)
           /\ k8s[b].replicas = 0
        \/ /\ Forgotten(version, foundDeploymentInTemporal)
           /\ status.target.build # b}

\* Deployments to bring to spec.replicas: current, target, and the deprecated
\* versions that are still routed to.
ScaleUps(k8s, status, spec) ==
  {b \in Keys(k8s) :
     /\ k8s[b].replicas # spec.replicas
     /\ \/ /\ status.current # Nil
           /\ status.current.build = b /\ status.current.deployed
        \/ /\ status.target.build = b /\ status.target.deployed
           /\ status.current = Nil \/ status.current.build # b
        \/ /\ status.deprecated[b] # Nil
           /\ status.deprecated[b].deployed
           /\ \/ status.deprecated[b].status \in {"Ramping", "Current"}
              \/ /\ status.deprecated[b].status = "Inactive"
                 /\ status.target.build = b}

\* Deployments to bring to 0: deprecated versions that were never routed to,
\* and drained ones once the scale-down delay has passed.
ScaleDowns(k8s, status, spec) ==
  {b \in Keys(k8s) \cap Keys(status.deprecated) :
     LET version == status.deprecated[b] IN
     /\ version.deployed
     /\ k8s[b].replicas # 0
     /\ \/ version.status = "Inactive" /\ status.target.build # b
        \/ version.status = "Drained" /\ ScaledownDelayOver(version, spec)}

\* The set of <<build, replicas>> the plan scales.
getScaleDeployments(k8s, status, spec) ==
  {<<b, spec.replicas>> : b \in ScaleUps(k8s, status, spec)}
    \cup {<<b, 0>> : b \in ScaleDowns(k8s, status, spec)}

shouldCreateDeployment_OneMore(status, maxVersionsIneligibleForDeletion) ==
  /\ ~status.target.deployed
  /\ Cardinality({b \in Keys(status.deprecated) : ~status.deprecated[b].eligible})
       <= maxVersionsIneligibleForDeletion

shouldCreateDeployment(status, maxVersionsIneligibleForDeletion) ==
  /\ ~status.target.deployed
  /\ Cardinality({b \in Keys(status.deprecated) : ~status.deprecated[b].eligible})
       < maxVersionsIneligibleForDeletion

\* Rolling update of a Deployment whose build ID the user fixed while the pod
\* template changed; a Deployment without a stored hash (tmpl = Nil) is left.
PodTemplateDrift(b, k8s, spec) ==
  /\ k8s[b] # Nil
  /\ spec.custom
  /\ k8s[b].tmpl # Nil
  /\ k8s[b].tmpl # spec.tmpl

updateDeploymentWithPodTemplateSpec(d, spec, conn) ==
  [d EXCEPT !.tmpl = spec.tmpl, !.conn = conn, !.replicas = spec.replicas]

ConnectionDrift(b, k8s, conn) == k8s[b] # Nil /\ k8s[b].conn # conn

updateDeploymentWithConnection_NoHash(d, conn) == d
updateDeploymentWithConnection(d, conn) == [d EXCEPT !.conn = conn]

\* The set of <<build, object as read, object to write>> the plan updates.
getUpdateDeployments(k8s, status, spec, conn) ==
  LET target   == status.target.build
      pods     == {b \in {target} : PodTemplateDrift(b, k8s, spec)}
      versions == {target} \cup Keys(status.deprecated)
                    \cup (IF status.current = Nil THEN {} ELSE {status.current.build})
      conns    == {b \in versions \ pods : ConnectionDrift(b, k8s, conn)}
  IN  {<<b, k8s[b], updateDeploymentWithPodTemplateSpec(k8s[b], spec, conn)>> : b \in pods}
        \cup {<<b, k8s[b], updateDeploymentWithConnection(k8s[b], conn)>> : b \in conns}

----------------------------------------------------------------------------
(* Gate workflows and the version config *)

IsCurrent(status) ==
  status.current # Nil /\ status.current.build = status.target.build

\* Task queues of the target on which a gate workflow has to be started.
getTestWorkflows(status, spec) ==
  IF ~spec.gate \/ IsCurrent(status) \/ status.target.status = "NotRegistered"
  THEN {}
  ELSE {q \in status.target.tqs : status.target.tests[q] = Nil}

GatePassed_NoCount(status) ==
  /\ status.target.tqs # {}
  /\ \A q \in TaskQueues : status.target.tests[q] \in {Nil, "Completed"}

\* Every known task queue of the target has a gate workflow that completed.
GatePassed(status) ==
  LET started == {q \in TaskQueues : status.target.tests[q] # Nil} IN
  /\ status.target.tqs # {}
  /\ Cardinality(started) >= Cardinality(status.target.tqs)
  /\ \A q \in started : status.target.tests[q] = "Completed"

\* The step in force: the last one before the first whose percentage is larger
\* than the actual one (1 if that is the first, or if there is no ramp yet).
getCurrentStepIndex(steps, pct) ==
  LET reached == {i \in 1 .. Len(steps) : \A j \in 1 .. i : steps[j].ramp <= pct}
  IN  IF pct = Nil \/ reached = {} THEN 1 ELSE Cardinality(reached)

\* The ramp has been at this step for longer than the step's pause.
PauseOver_AtPause(rampAge, pause) == rampAge # Nil /\ rampAge >= pause
PauseOver(rampAge, pause) == rampAge # Nil /\ rampAge > pause

\* vcfg is the config under construction, already naming the target build.
handleProgressiveRollout(steps, rampAge, pct, vcfg) ==
  IF steps = <<>> THEN Nil
  ELSE LET i == getCurrentStepIndex(steps, pct) IN
    IF pct = Nil \/ pct # steps[i].ramp
    THEN [vcfg EXCEPT !.pct = steps[i].ramp]
    ELSE IF ~PauseOver(rampAge, steps[i].pause) THEN Nil
    ELSE IF i < Len(steps) THEN [vcfg EXCEPT !.pct = steps[i + 1].ramp]
    ELSE [vcfg EXCEPT !.setCurrent = TRUE]

\* The target is current, but some other version still ramps.
RampLeft_Never(ts) == FALSE
RampLeft(ts) == ts.ramping # Nil

\* The change of the routing config to make now, or Nil.
getVersionConfigDiff(status, ts, spec, strategy) ==
  LET target == status.target
      vcfg   == [setCurrent |-> FALSE, build |-> target.build, pct |-> 0,
                 token |-> status.token]
  IN
  IF \/ strategy = "Manual"
     \/ ~target.healthy
     \/ target.status = "NotRegistered"
     \/ spec.gate /\ ~GatePassed(status)
  THEN Nil
  ELSE IF /\ status.current = Nil
          /\ target.status = "Inactive"
          /\ ~ts.versions[target.build].unversioned
  THEN [vcfg EXCEPT !.setCurrent = TRUE]
  ELSE IF IsCurrent(status)
  THEN IF RampLeft(ts) THEN [vcfg EXCEPT !.build = Nil] ELSE Nil
  ELSE IF strategy = "AllAtOnce"
  THEN [vcfg EXCEPT !.setCurrent = TRUE]
  ELSE handleProgressiveRollout(spec.steps, target.rampAge, target.pct, vcfg)

\* The plan.  stamp says whether a version config comes with a metadata update,
\* and whether it is addressed to a version or, for a removed ramp, to no
\* build ID at all.  `strategy` is the rollout strategy in force, which the caller
\* forces to Manual while somebody else owns the routing config.
GeneratePlan(k8s, status, spec, ts, conn, strategy) ==
  LET found == Keys(ts.versions) # {}
      vcfg  == getVersionConfigDiff(status, ts, spec, strategy)
  IN  [create   |-> shouldCreateDeployment(status, MaxIneligible),
       deletes  |-> getDeleteDeployments(k8s, status, spec, found),
       scales   |-> getScaleDeployments(k8s, status, spec),
       updates  |-> getUpdateDeployments(k8s, status, spec, conn),
       starts   |-> getTestWorkflows(status, spec),
       vcfg     |-> vcfg,
       stamp    |-> IF vcfg = Nil THEN "none" ELSE IF vcfg.build = Nil THEN "unset" ELSE "version",
       unignore |-> IF ts.ignore /\ vcfg # Nil
                    THEN {ts.ramping, ts.current} \ {Nil}
                    ELSE {}]
=============================================================================
