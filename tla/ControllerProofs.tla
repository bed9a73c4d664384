-------------------------- MODULE ControllerProofs --------------------------
(***************************************************************************)
(* Proofs about WorkerController, for all builds, task queues, specs,       *)
(* environments and bounds: the type invariant, and that the controller     *)
(* never overwrites a routing config that it has not seen.                  *)
(***************************************************************************)
EXTENDS ControllerProperties, TLAPS, FiniteSetTheorems

----------------------------------------------------------------------------
(* The planner *)

\* getCurrentStepIndex names one of the steps, whatever the actual percentage.
LEMMA StepIndexType ==
  ASSUME NEW steps \in Seq(StepType), steps # <<>>, NEW pct \in Nat \cup {Nil}
  PROVE  getCurrentStepIndex(steps, pct) \in 1 .. Len(steps)
<1> DEFINE n == Len(steps)
           reached == {i \in 1 .. n : \A j \in 1 .. i : steps[j].ramp <= pct}
<1>1. n \in Nat /\ n >= 1
  <2>1. n \in Nat
    OBVIOUS
  <2>2. n # 0
    OBVIOUS
  <2> QED
    BY <2>1, <2>2
<1>2. IsFiniteSet(1 .. n) /\ Cardinality(1 .. n) = n
  BY <1>1, FS_Interval
<1>3. /\ IsFiniteSet(reached)
      /\ Cardinality(reached) <= n
  <2>1. reached \subseteq 1 .. n
    OBVIOUS
  <2> HIDE DEF reached, n
  <2> QED
    BY <1>2, <2>1, FS_Subset
<1>4. reached # {} => Cardinality(reached) \in Nat /\ Cardinality(reached) # 0
  <2> HIDE DEF reached, n
  <2> QED
    BY <1>3, FS_EmptySet, FS_CardinalityType
<1>5. getCurrentStepIndex(steps, pct)
        = IF pct = Nil \/ reached = {} THEN 1 ELSE Cardinality(reached)
  BY DEF getCurrentStepIndex
<1> HIDE DEF reached, n
<1>6. getCurrentStepIndex(steps, pct) \in 1 .. n
  BY <1>1, <1>3, <1>4, <1>5
<1> QED
  BY <1>6 DEF n

\* handleProgressiveRollout returns nil or a config with the token it was given.
LEMMA ProgressiveType ==
  ASSUME NEW steps \in Seq(StepType), NEW age, NEW pct \in Nat \cup {Nil},
         NEW vcfg \in VersionConfig
  PROVE  LET r == handleProgressiveRollout(steps, age, pct, vcfg)
         IN  r # Nil => r \in VersionConfig /\ r.token = vcfg.token
<1> DEFINE i == getCurrentStepIndex(steps, pct)
<1>1. CASE steps = <<>>
  BY <1>1 DEF handleProgressiveRollout
<1>2. CASE steps # <<>>
  <2>1. i \in 1 .. Len(steps)
    BY <1>2, StepIndexType
  <2>2. \A k \in 1 .. Len(steps) : steps[k].ramp \in Nat
    <3>1. \A k \in 1 .. Len(steps) : steps[k] \in StepType
      OBVIOUS
    <3>2. \A s \in StepType : s.ramp \in Nat
      BY DEF StepType
    <3> QED
      BY <3>1, <3>2
  <2>3. i < Len(steps) => i + 1 \in 1 .. Len(steps)
    BY <2>1
  <2>4. \A p \in Nat : /\ [vcfg EXCEPT !.pct = p] \in VersionConfig
                       /\ [vcfg EXCEPT !.pct = p].token = vcfg.token
    BY DEF VersionConfig
  <2>5. /\ [vcfg EXCEPT !.setCurrent = TRUE] \in VersionConfig
        /\ [vcfg EXCEPT !.setCurrent = TRUE].token = vcfg.token
    BY DEF VersionConfig
  <2> HIDE DEF i
  <2> QED
    BY <1>2, <2>1, <2>2, <2>3, <2>4, <2>5 DEF handleProgressiveRollout, i
<1> QED
  BY <1>1, <1>2

\* getVersionConfigDiff returns nil or a config that carries the conflict token
\* of the status it was computed from.
LEMMA VersionConfigType ==
  ASSUME NEW st, NEW tstate, NEW spec, NEW strategy,
         st.target.build \in Builds, st.target.pct \in Nat \cup {Nil},
         st.token \in Nat \cup {Nil}, spec.steps \in Seq(StepType)
  PROVE  LET r == getVersionConfigDiff(st, tstate, spec, strategy)
         IN  r # Nil => r \in VersionConfig /\ r.token = st.token
<1> DEFINE vcfg == [setCurrent |-> FALSE, build |-> st.target.build, pct |-> 0,
                    token |-> st.token]
           progress == handleProgressiveRollout(spec.steps, st.target.rampAge,
                                                st.target.pct, vcfg)
<1>1. vcfg \in VersionConfig /\ vcfg.token = st.token
  BY DEF VersionConfig
<1>2. /\ [vcfg EXCEPT !.setCurrent = TRUE] \in VersionConfig
      /\ [vcfg EXCEPT !.setCurrent = TRUE].token = st.token
  BY DEF VersionConfig
<1>3. /\ [vcfg EXCEPT !.build = Nil] \in VersionConfig
      /\ [vcfg EXCEPT !.build = Nil].token = st.token
  BY DEF VersionConfig
<1>4. progress # Nil => progress \in VersionConfig /\ progress.token = st.token
  <2> HIDE DEF vcfg
  <2> QED
    BY <1>1, ProgressiveType
<1>5. getVersionConfigDiff(st, tstate, spec, strategy)
        \in {Nil, [vcfg EXCEPT !.setCurrent = TRUE], [vcfg EXCEPT !.build = Nil], progress}
  <2> DEFINE first == [vcfg EXCEPT !.setCurrent = TRUE]
             unset == [vcfg EXCEPT !.build = Nil]
  <2>1. getVersionConfigDiff(st, tstate, spec, strategy) = Nil
        \/ getVersionConfigDiff(st, tstate, spec, strategy) = first
        \/ getVersionConfigDiff(st, tstate, spec, strategy) = unset
        \/ getVersionConfigDiff(st, tstate, spec, strategy) = progress
    BY Zenon DEF getVersionConfigDiff
  <2> QED
    BY <2>1
<1> HIDE DEF vcfg, progress
<1> QED
  BY <1>2, <1>3, <1>4, <1>5

----------------------------------------------------------------------------
(* The status and the plan *)

\* What mapToStatus says of the target.
LEMMA StatusTarget ==
  ASSUME NEW d \in [Builds -> Deployment \cup {Nil}], NEW tstate \in TemporalState,
         NEW b \in Builds
  PROVE  LET st == mapToStatus(d, tstate, b)
         IN  /\ st.token = tstate.token
             /\ st.target.build = b
             /\ st.target.pct \in Nat \cup {Nil}
             /\ st.target.tqs \subseteq TaskQueues
<1>1. tstate.pct \in Nat /\ tstate.versions \in [Builds -> VersionInfo \cup {Nil}]
  BY DEF TemporalState
<1>2. tstate.versions[b] # Nil => tstate.versions[b].tqs \subseteq TaskQueues
  <2>1. \A v \in VersionInfo : v.tqs \subseteq TaskQueues
    BY DEF VersionInfo
  <2> QED
    BY <1>1, <2>1
<1> QED
  BY <1>1, <1>2 DEF mapToStatus, mapTargetWorkerDeploymentVersionByBuildID

\* mapToStatus lists as current what Temporal says is current.
LEMMA StatusCurrent ==
  ASSUME NEW d, NEW tstate \in TemporalState, NEW b,
         mapToStatus(d, tstate, b).current # Nil
  PROVE  mapToStatus(d, tstate, b).current.build \in Builds
<1>1. tstate.current \in Builds \cup {Nil}
  BY DEF TemporalState
<1> QED
  BY <1>1 DEF mapToStatus, mapCurrentWorkerDeploymentVersionByBuildID

\* getUpdateDeployments pairs Deployments as listed with Deployments to
\* write.
LEMMA UpdatesType ==
  ASSUME NEW d \in [Builds -> Deployment \cup {Nil}], NEW st, NEW spec \in SpecType,
         NEW conn \in Connections, st.target.build \in Builds,
         st.current # Nil => st.current.build \in Builds
  PROVE  getUpdateDeployments(d, st, spec, conn) \subseteq Builds \X Deployment \X Deployment
<1>1. \A x \in Deployment :
        /\ updateDeploymentWithConnection(x, conn) \in Deployment
        /\ updateDeploymentWithPodTemplateSpec(x, spec, conn) \in Deployment
  BY DEF Deployment, SpecType, updateDeploymentWithConnection,
         updateDeploymentWithPodTemplateSpec
<1> DEFINE target   == st.target.build
           pods     == {b \in {target} : PodTemplateDrift(b, d, spec)}
           versions == {target} \cup Keys(st.deprecated)
                         \cup (IF st.current = Nil THEN {} ELSE {st.current.build})
           conns    == {b \in versions \ pods : ConnectionDrift(b, d, conn)}
<1>2. /\ \A b \in pods : b \in Builds /\ d[b] \in Deployment
      /\ \A b \in conns : b \in Builds /\ d[b] \in Deployment
  BY DEF PodTemplateDrift, ConnectionDrift, Keys
<1>3. getUpdateDeployments(d, st, spec, conn)
        = {<<b, d[b], updateDeploymentWithPodTemplateSpec(d[b], spec, conn)>> : b \in pods}
            \cup {<<b, d[b], updateDeploymentWithConnection(d[b], conn)>> : b \in conns}
  BY DEF getUpdateDeployments
<1> HIDE DEF pods, conns
<1> QED
  BY <1>1, <1>2, <1>3

\* GeneratePlan yields a plan, whose version config carries the conflict token
\* of the Temporal state that was read.
LEMMA GeneratePlanType ==
  ASSUME NEW d \in [Builds -> Deployment \cup {Nil}],
         NEW d2 \in [Builds -> Deployment \cup {Nil}],
         NEW tstate \in TemporalState, NEW spec \in SpecType,
         NEW conn \in Connections, NEW strategy
  PROVE  LET p == GeneratePlan(d2, mapToStatus(d, tstate, spec.build), spec, tstate, conn, strategy)
         IN  /\ p \in Plan
             /\ p.vcfg # Nil => p.vcfg.token = tstate.token
<1> DEFINE st == mapToStatus(d, tstate, spec.build)
           p  == GeneratePlan(d2, st, spec, tstate, conn, strategy)
<1>1. /\ spec.build \in Builds /\ spec.steps \in Seq(StepType) /\ spec.replicas \in Nat
  BY DEF SpecType
<1>2. /\ st.token = tstate.token /\ st.target.build = spec.build
      /\ st.target.pct \in Nat \cup {Nil} /\ st.target.tqs \subseteq TaskQueues
  BY <1>1, StatusTarget
<1>3. st.current # Nil => st.current.build \in Builds
  BY StatusCurrent
<1>4. tstate.token \in Nat \cup {Nil} /\ {tstate.ramping, tstate.current} \ {Nil} \subseteq Builds
  BY DEF TemporalState
<1> HIDE DEF st
<1>5. p.create \in BOOLEAN
  BY DEF GeneratePlan, shouldCreateDeployment
<1>6. p.deletes \subseteq Builds
  BY DEF GeneratePlan, getDeleteDeployments, Keys
<1>7. p.scales \subseteq Builds \X Nat
  <2>1. ScaleUps(d2, st, spec) \subseteq Builds /\ ScaleDowns(d2, st, spec) \subseteq Builds
    BY DEF ScaleUps, ScaleDowns, Keys
  <2> QED
    BY <1>1, <2>1 DEF GeneratePlan, getScaleDeployments
<1>8. p.updates \subseteq Builds \X Deployment \X Deployment
  BY <1>1, <1>2, <1>3, UpdatesType DEF GeneratePlan
<1>9. p.starts \subseteq TaskQueues
  BY <1>2 DEF GeneratePlan, getTestWorkflows
<1>10. /\ p.vcfg \in VersionConfig \cup {Nil}
       /\ p.vcfg # Nil => p.vcfg.token = tstate.token
  <2>1. p.vcfg = getVersionConfigDiff(st, tstate, spec, strategy)
    BY DEF GeneratePlan
  <2> HIDE DEF p
  <2> QED
    BY <1>1, <1>2, <1>4, <2>1, VersionConfigType
<1>11. p.stamp \in {"none", "version", "unset"}
  BY DEF GeneratePlan
<1>12. p.unignore \subseteq Builds
  BY <1>4 DEF GeneratePlan
<1>13. p = [create |-> p.create, deletes |-> p.deletes, scales |-> p.scales,
            updates |-> p.updates, starts |-> p.starts, vcfg |-> p.vcfg,
            stamp |-> p.stamp, unignore |-> p.unignore]
  BY DEF GeneratePlan
<1>14. p \in Plan
  <2> HIDE DEF p
  <2> QED
    BY <1>5, <1>6, <1>7, <1>8, <1>9, <1>10, <1>11, <1>12, <1>13 DEF Plan
<1> QED
  BY <1>10, <1>14 DEF st

\* A target that Temporal does not know is not routed to.
LEMMA UnknownIsNotRouted ==
  ASSUME NEW d, NEW d2, NEW tstate, NEW spec, NEW conn, NEW strategy,
         tstate.versions[spec.build] = Nil
  PROVE  GeneratePlan(d2, mapToStatus(d, tstate, spec.build), spec, tstate, conn, strategy).vcfg
           = Nil
<1> DEFINE st == mapToStatus(d, tstate, spec.build)
<1>1. st.target.status = "NotRegistered"
  BY DEF mapToStatus, mapTargetWorkerDeploymentVersionByBuildID, StatusOf
<1> HIDE DEF st
<1>2. getVersionConfigDiff(st, tstate, spec, strategy) = Nil
  BY <1>1 DEF getVersionConfigDiff
<1> QED
  BY <1>2 DEF GeneratePlan, st

----------------------------------------------------------------------------
(* The state read from Temporal *)

\* GetWorkerDeploymentState returns a Temporal state that agrees with the
\* routing config at that moment.
LEMMA DescribeType ==
  ASSUME ServerTypeOK, NEW spec, NEW d, NEW undescribed, NEW gone, NEW polled,
         NEW unversioned \in BOOLEAN
  PROVE  LET r == GetWorkerDeploymentState(spec, d, undescribed, gone, polled, unversioned)
         IN  /\ r \in TemporalState
             /\ r.token = routing.token
             /\ r.current = routing.current /\ r.ramping = routing.ramping
             /\ r.pct = routing.pct
<1> DEFINE r == GetWorkerDeploymentState(spec, d, undescribed, gone, polled, unversioned)
<1>1. routing \in RoutingConfig /\ vers \in [Builds -> Version]
  BY DEF ServerTypeOK
<1>2. /\ routing.current \in Builds \cup {Nil} /\ routing.ramping \in Builds \cup {Nil}
      /\ routing.pct \in Nat /\ routing.rampAge \in Nat /\ routing.token \in Nat
      /\ routing.lastMod \in Identities \cup {Nil}
  BY <1>1 DEF RoutingConfig
<1>3. \A b \in Builds : vers[b].age \in Nat
  <2>1. \A b \in Builds : vers[b] \in Version
    BY <1>1
  <2>2. \A v \in Version : v.age \in Nat
    BY DEF Version
  <2> QED
    BY <2>1, <2>2
<1>4. r.versions \in [Builds -> VersionInfo \cup {Nil}]
  <2>1. \A b \in Builds : r.versions[b] # Nil => r.versions[b] \in VersionInfo
    <3> SUFFICES ASSUME NEW b \in Builds, r.versions[b] # Nil
                 PROVE  r.versions[b] \in VersionInfo
      OBVIOUS
    <3>1. VersionStatus(b) \in VersionStatuses /\ "NotRegistered" \in VersionStatuses
      BY DEF VersionStatus, VersionStatuses
    <3>2. [q \in TaskQueues |-> Nil] \in [TaskQueues -> WorkflowStatuses \cup {Nil}]
      OBVIOUS
    <3> QED
      BY <1>3, <3>1, <3>2 DEF GetWorkerDeploymentState, VersionInfo
  <2>2. r.versions = [b \in Builds |-> r.versions[b]]
    BY DEF GetWorkerDeploymentState
  <2> HIDE DEF r
  <2> QED
    BY <2>1, <2>2
<1>5. /\ r.current = routing.current /\ r.ramping = routing.ramping
      /\ r.pct = routing.pct /\ r.token = routing.token /\ r.lastMod = routing.lastMod
      /\ r.rampAge \in Nat \cup {Nil}
  BY <1>2 DEF GetWorkerDeploymentState
<1>6. r.ignore \in BOOLEAN
  BY DEF GetWorkerDeploymentState, ModifiedByOther
<1>7. r = [current |-> r.current, ramping |-> r.ramping, pct |-> r.pct,
           rampAge |-> r.rampAge, token |-> r.token, lastMod |-> r.lastMod,
           ignore |-> r.ignore, versions |-> r.versions]
  BY DEF GetWorkerDeploymentState
<1>8. r \in TemporalState
  <2> HIDE DEF r
  <2> QED
    BY <1>2, <1>4, <1>5, <1>6, <1>7 DEF TemporalState
<1> QED
  BY <1>5, <1>8

\* What Describe yields when it finds no Worker Deployment carries no token.
LEMMA EmptyStateType ==
  /\ EmptyState \in TemporalState /\ EmptyState.token = Nil
  /\ \A b \in Builds : EmptyState.versions[b] = Nil
BY DEF EmptyState, TemporalState

\* GetTestWorkflowStatus only adds to the entry of the target.
LEMMA TestWorkflowType ==
  ASSUME ServerTypeOK, NEW tstate \in TemporalState, NEW b \in Builds,
         tstate.versions[b] # Nil, NEW tqs \in SUBSET TaskQueues, NEW ok \in BOOLEAN
  PROVE  LET r == GetTestWorkflowStatus(tstate, b, tqs, ok)
         IN  /\ r \in TemporalState
             /\ r.token = tstate.token /\ r.current = tstate.current
             /\ r.ramping = tstate.ramping /\ r.pct = tstate.pct
<1> DEFINE tests == [q \in TaskQueues |-> IF ok /\ q \in tqs THEN gates[b][q] ELSE Nil]
           info  == [tstate.versions[b] EXCEPT !.tqs = tqs, !.tests = tests]
           r     == GetTestWorkflowStatus(tstate, b, tqs, ok)
<1>1. tests \in [TaskQueues -> WorkflowStatuses \cup {Nil}]
  BY DEF ServerTypeOK
<1>2. tstate.versions \in [Builds -> VersionInfo \cup {Nil}]
  BY DEF TemporalState
<1>3. info \in VersionInfo
  <2>1. tstate.versions[b] \in VersionInfo
    BY <1>2
  <2> HIDE DEF tests
  <2> QED
    BY <1>1, <2>1 DEF VersionInfo
<1>4. r = [tstate EXCEPT !.versions = [tstate.versions EXCEPT ![b] = info]]
  BY DEF GetTestWorkflowStatus
<1> HIDE DEF info, r
<1>5. [tstate.versions EXCEPT ![b] = info] \in [Builds -> VersionInfo \cup {Nil}]
  BY <1>2, <1>3
<1> QED
  BY <1>4, <1>5 DEF TemporalState, r

\* The clock ages the timestamps of a state that was read and nothing else.
LEMMA AgeStateType ==
  ASSUME NEW tstate \in TemporalState
  PROVE  /\ AgeState(tstate) \in TemporalState
         /\ AgeState(tstate).token = tstate.token
         /\ AgeState(tstate).current = tstate.current
         /\ AgeState(tstate).ramping = tstate.ramping
         /\ AgeState(tstate).pct = tstate.pct
         /\ \A b \in Builds : tstate.versions[b] = Nil => AgeState(tstate).versions[b] = Nil
<1> DEFINE aged == [b \in Builds |->
        IF tstate.versions[b] = Nil THEN Nil
        ELSE [tstate.versions[b] EXCEPT !.drainedAge = IF @ = Nil THEN Nil ELSE Older(@)]]
           rampAge == IF tstate.rampAge = Nil THEN Nil ELSE Older(tstate.rampAge)
<1>1. \A n \in Nat : Older(n) \in Nat
  BY DEF Older
<1>2. rampAge \in Nat \cup {Nil}
  BY <1>1 DEF TemporalState
<1>3. aged \in [Builds -> VersionInfo \cup {Nil}]
  <2>1. \A b \in Builds : tstate.versions[b] # Nil => tstate.versions[b] \in VersionInfo
    BY DEF TemporalState
  <2>2. \A v \in VersionInfo :
          [v EXCEPT !.drainedAge = IF @ = Nil THEN Nil ELSE Older(@)] \in VersionInfo
    BY <1>1 DEF VersionInfo
  <2> QED
    BY <2>1, <2>2
<1>4. AgeState(tstate) = [tstate EXCEPT !.rampAge = rampAge, !.versions = aged]
  BY DEF AgeState
<1>5. \A b \in Builds : tstate.versions[b] = Nil => aged[b] = Nil
  OBVIOUS
<1> HIDE DEF aged, rampAge
<1> QED
  BY <1>2, <1>3, <1>4, <1>5 DEF TemporalState

----------------------------------------------------------------------------
(* The server's and the cluster's own steps *)

\* A change of the routing config is well typed and increments the conflict
\* token.
LEMMA RoutingType ==
  ASSUME ServerTypeOK, NEW c \in Builds \cup {Nil}, NEW r \in Builds \cup {Nil},
         NEW pct \in Nat, NEW who \in Identities, NewRouting(c, r, pct, who)
  PROVE  /\ ServerTypeOK'
         /\ routing'.token = routing.token + 1
<1>1. routing \in RoutingConfig /\ vers \in [Builds -> Version]
  BY DEF ServerTypeOK
<1>2. routing.token \in Nat /\ routing.rampAge \in Nat
  BY <1>1 DEF RoutingConfig
<1>3. routing' \in RoutingConfig /\ routing'.token = routing.token + 1
  <2> DEFINE rampAge == IF r = routing.ramping /\ pct = routing.pct
                        THEN routing.rampAge ELSE 0
  <2>1. rampAge \in Nat
    BY <1>2
  <2>2. routing' = [current |-> c, ramping |-> r, pct |-> pct, rampAge |-> rampAge,
                    token |-> routing.token + 1, lastMod |-> who]
    BY DEF NewRouting
  <2> HIDE DEF rampAge
  <2> QED
    BY <1>2, <2>1, <2>2 DEF RoutingConfig
<1>4. vers' \in [Builds -> Version]
  <2>1. \A v \in Version : /\ [v EXCEPT !.drain = "None", !.age = 0] \in Version
                            /\ [v EXCEPT !.drain = "Draining", !.age = 0] \in Version
    BY DEF Version
  <2> QED
    BY <1>1, <2>1 DEF NewRouting
<1> QED
  BY <1>3, <1>4 DEF NewRouting, ServerTypeOK

\* SetCurrentVersion is such a change.
LEMMA SetCurrentType ==
  ASSUME ServerTypeOK, NEW b \in Builds \cup {Nil}, NEW who \in Identities,
         SetCurrentVersion(b, who)
  PROVE  ServerTypeOK' /\ routing'.token = routing.token + 1
<1>1. routing.ramping \in Builds \cup {Nil} /\ routing.pct \in Nat
  BY DEF ServerTypeOK, RoutingConfig
<1> QED
  BY <1>1, RoutingType DEF SetCurrentVersion

\* SetRampingVersion is such a change.
LEMMA SetRampingType ==
  ASSUME ServerTypeOK, NEW b \in Builds \cup {Nil}, NEW pct, NEW who \in Identities,
         SetRampingVersion(b, pct, who)
  PROVE  ServerTypeOK' /\ routing'.token = routing.token + 1
<1>1. routing.current \in Builds \cup {Nil} /\ pct \in Nat
  BY DEF ServerTypeOK, RoutingConfig, SetRampingVersion
<1> QED
  BY <1>1, RoutingType DEF SetRampingVersion

\* A change of one version's record leaves the server well typed.
LEMMA VersionChangeType ==
  ASSUME ServerTypeOK, NEW b \in Builds, NEW v \in Version,
         vers' = [vers EXCEPT ![b] = v], UNCHANGED <<routing, gates>>
  PROVE  ServerTypeOK'
BY DEF ServerTypeOK

\* UpdateVersionMetadata leaves the routing config alone.
LEMMA SetIgnoreType ==
  ASSUME ServerTypeOK, NEW b \in Builds, NEW value \in BOOLEAN,
         SetIgnoreLastModifier(b, value)
  PROVE  ServerTypeOK' /\ routing' = routing
<1>1. vers[b] \in Version
  BY DEF ServerTypeOK
<1>2. [vers[b] EXCEPT !.ignore = value] \in Version
  BY <1>1 DEF Version
<1>3. vers' = [vers EXCEPT ![b] = [vers[b] EXCEPT !.ignore = value]]
  BY DEF SetIgnoreLastModifier
<1> QED
  BY <1>2, <1>3, VersionChangeType DEF SetIgnoreLastModifier

\* No step of the server's own touches what the conflict token protects.
LEMMA ServerStepType ==
  ASSUME ServerTypeOK, NEW b \in Builds,
         \/ \E qs \in SUBSET TaskQueues : WorkersPoll(b, qs)
         \/ WorkflowStarts(b) \/ WorkflowsClose(b) \/ DrainageEnds(b)
         \/ ServerDeletes(b)
  PROVE  /\ ServerTypeOK'
         /\ routing'.token = routing.token /\ routing'.current = routing.current
         /\ routing'.ramping = routing.ramping /\ routing'.pct = routing.pct
<1>0. vers[b] \in Version /\ vers \in [Builds -> Version] /\ routing \in RoutingConfig
  BY DEF ServerTypeOK
<1>1. ASSUME NEW qs \in SUBSET TaskQueues, WorkersPoll(b, qs)
      PROVE  ServerTypeOK' /\ routing' = routing
  <2>1. [vers[b] EXCEPT !.tqs = vers[b].tqs \cup qs] \in Version
    BY <1>0 DEF Version
  <2>2. vers' = [vers EXCEPT ![b] = [vers[b] EXCEPT !.tqs = vers[b].tqs \cup qs]]
    BY <1>1 DEF WorkersPoll
  <2> QED
    BY <1>1, <2>1, <2>2, VersionChangeType DEF WorkersPoll
<1>2. ASSUME WorkflowStarts(b) \/ WorkflowsClose(b)
      PROVE  ServerTypeOK' /\ routing' = routing
  <2>1. \A x \in BOOLEAN : [vers[b] EXCEPT !.pinned = x] \in Version
    BY <1>0 DEF Version
  <2>2. \E x \in BOOLEAN : vers' = [vers EXCEPT ![b] = [vers[b] EXCEPT !.pinned = x]]
    BY <1>2 DEF WorkflowStarts, WorkflowsClose
  <2> QED
    BY <1>2, <2>1, <2>2, VersionChangeType DEF WorkflowStarts, WorkflowsClose
<1>3. ASSUME DrainageEnds(b)
      PROVE  ServerTypeOK' /\ routing' = routing
  <2>1. [vers[b] EXCEPT !.drain = "Drained", !.age = 0] \in Version
    BY <1>0 DEF Version
  <2>2. vers' = [vers EXCEPT ![b] = [vers[b] EXCEPT !.drain = "Drained", !.age = 0]]
    BY <1>0, <1>3 DEF DrainageEnds
  <2> QED
    BY <1>3, <2>1, <2>2, VersionChangeType DEF DrainageEnds
<1>4. ASSUME ServerDeletes(b)
      PROVE  /\ ServerTypeOK'
             /\ routing'.token = routing.token /\ routing'.current = routing.current
             /\ routing'.ramping = routing.ramping /\ routing'.pct = routing.pct
  <2>1. [vers[b] EXCEPT !.tqs = {}, !.drain = "None", !.age = 0, !.ignore = FALSE] \in Version
    BY <1>0 DEF Version
  <2>2. vers' = [vers EXCEPT ![b] = [vers[b] EXCEPT !.tqs = {}, !.drain = "None", !.age = 0,
                                                   !.ignore = FALSE]]
    BY <1>0, <1>4 DEF ServerDeletes
  <2>3. vers' \in [Builds -> Version]
    BY <1>0, <2>1, <2>2
  <2>4. routing' = [routing EXCEPT !.lastMod = ServerDeletion]
    BY <1>4 DEF ServerDeletes
  <2>5. /\ routing' \in RoutingConfig
        /\ routing'.token = routing.token /\ routing'.current = routing.current
        /\ routing'.ramping = routing.ramping /\ routing'.pct = routing.pct
    BY <1>0, <2>4 DEF RoutingConfig, Identities
  <2> QED
    BY <1>4, <2>3, <2>5 DEF ServerTypeOK, ServerDeletes
<1> QED
  BY <1>1, <1>2, <1>3, <1>4

\* The clock leaves what the conflict token protects alone.
LEMMA TimeType ==
  ASSUME ServerTypeOK, TimePasses
  PROVE  /\ ServerTypeOK'
         /\ routing'.token = routing.token /\ routing'.current = routing.current
         /\ routing'.ramping = routing.ramping /\ routing'.pct = routing.pct
<1>1. \A n \in Nat : Older(n) \in Nat
  BY DEF Older
<1>2. routing \in RoutingConfig /\ vers \in [Builds -> Version]
  BY DEF ServerTypeOK
<1>3. /\ routing' \in RoutingConfig
      /\ routing'.token = routing.token /\ routing'.current = routing.current
      /\ routing'.ramping = routing.ramping /\ routing'.pct = routing.pct
  BY <1>1, <1>2 DEF TimePasses, RoutingConfig
<1>4. \A v \in Version : [v EXCEPT !.age = Older(@)] \in Version
  BY <1>1 DEF Version
<1>5. vers' \in [Builds -> Version]
  BY <1>2, <1>4 DEF TimePasses
<1> QED
  BY <1>3, <1>5 DEF TimePasses, ServerTypeOK

\* Gate workflows start and close without a change of the routing config.
LEMMA GateType ==
  ASSUME ServerTypeOK, NEW b \in Builds, NEW q \in TaskQueues,
         \/ StartGate(b, q)
         \/ \E result \in {"Completed", "Failed"} : GateCloses(b, q, result)
  PROVE  ServerTypeOK' /\ routing' = routing
<1>1. gates \in [Builds -> [TaskQueues -> WorkflowStatuses \cup {Nil}]]
  BY DEF ServerTypeOK
<1>2. \A x \in WorkflowStatuses :
        [gates EXCEPT ![b][q] = x] \in [Builds -> [TaskQueues -> WorkflowStatuses \cup {Nil}]]
  BY <1>1
<1>3. \E x \in WorkflowStatuses : gates' = [gates EXCEPT ![b][q] = x]
  BY DEF StartGate, GateCloses, WorkflowStatuses
<1>4. UNCHANGED <<routing, vers>>
  BY DEF StartGate, GateCloses
<1> QED
  BY <1>2, <1>3, <1>4 DEF ServerTypeOK

\* The steps of the cluster keep it well typed.
LEMMA ClusterType ==
  ASSUME KubeTypeOK, NEW b \in Builds,
         PodsSettle(b) \/ PodsMissed(b) \/ PodsFail(b) \/ CacheSync(b)
  PROVE  KubeTypeOK'
<1>1. deploys \in [Builds -> Deployment \cup {Nil}] /\ cache \in [Builds -> Deployment \cup {Nil}]
  BY DEF KubeTypeOK
<1>2. CASE CacheSync(b)
  BY <1>1, <1>2 DEF CacheSync, KubeTypeOK
<1>3. CASE PodsSettle(b) \/ PodsMissed(b) \/ PodsFail(b)
  <2>1. deploys[b] \in Deployment
    BY <1>1, <1>3 DEF PodsSettle, PodsMissed, PodsFail, HasPods
  <2>2. \A n \in Nat, a \in BOOLEAN :
          [deploys[b] EXCEPT !.pods = n, !.available = a] \in Deployment
    BY <2>1 DEF Deployment
  <2>3. [deploys[b] EXCEPT !.available = FALSE] \in Deployment /\ deploys[b].replicas \in Nat
    BY <2>1 DEF Deployment
  <2>4. \E d \in Deployment : deploys' = [deploys EXCEPT ![b] = d]
    <3>1. CASE PodsSettle(b)
      BY <1>1, <2>2, <2>3, <3>1 DEF PodsSettle
    <3>2. CASE PodsMissed(b)
      BY <1>1, <2>3, <3>2 DEF PodsMissed
    <3>3. CASE PodsFail(b)
      BY <1>1, <2>2, <3>3 DEF PodsFail
    <3> QED
      BY <1>3, <3>1, <3>2, <3>3
  <2> QED
    BY <1>1, <1>3, <2>4 DEF PodsSettle, PodsMissed, PodsFail, KubeTypeOK
<1> QED
  BY <1>2, <1>3

----------------------------------------------------------------------------
(* Type correctness *)

\* Every spec of the users is one.
LEMMA SpecFields ==
  ASSUME NEW spec \in Specs
  PROVE  spec \in SpecType /\ spec.build \in Builds
BY SpecsAssumption DEF SpecType

\* The initial states are well typed.
LEMMA InitType == Init => TypeOK
<1> SUFFICES ASSUME Init PROVE TypeOK
  OBVIOUS
<1>1. KubeTypeOK
  BY DEF Init, KubeInit, KubeTypeOK
<1>2. ServerTypeOK
  <2>1. routing \in RoutingConfig
    BY DEF Init, ServerInit, RoutingConfig
  <2>2. [tqs |-> {}, drain |-> "None", age |-> 0, ignore |-> FALSE, pinned |-> FALSE]
          \in Version
    BY DEF Version
  <2>3. vers \in [Builds -> Version]
    BY <2>2 DEF Init, ServerInit
  <2> QED
    BY <2>1, <2>3 DEF Init, ServerInit, ServerTypeOK
<1>3. UserTypeOK
  BY BoundsAssumption DEF Init, UserTypeOK
<1>4. RecTypeOK
  BY DEF Init, RecTypeOK
<1> QED
  BY <1>1, <1>2, <1>3, <1>4 DEF TypeOK

\* A failing call only uses up the faults.
LEMMA FaultType ==
  ASSUME UserTypeOK, NEW kind, Fault(kind)
  PROVE  UserTypeOK'
<1>1. faults # Nil => faults \in Nat /\ faults - 1 \in Nat
  BY DEF UserTypeOK, Fault
<1> QED
  BY <1>1 DEF UserTypeOK, Fault

\* A Reconcile that returned has no locals.
LEMMA ReturnType == Return => RecTypeOK'
BY DEF Return, RecTypeOK

\* What a step leaves alone stays well typed.
LEMMA UnchangedType ==
  /\ KubeTypeOK /\ UNCHANGED kubeVars => KubeTypeOK'
  /\ ServerTypeOK /\ UNCHANGED serverVars => ServerTypeOK'
  /\ UserTypeOK /\ UNCHANGED userVars => UserTypeOK'
  /\ RecTypeOK /\ UNCHANGED recVars => RecTypeOK'
<1>1. KubeTypeOK /\ UNCHANGED kubeVars => KubeTypeOK'
  BY DEF KubeTypeOK, kubeVars
<1>2. ServerTypeOK /\ UNCHANGED serverVars => ServerTypeOK'
  BY DEF ServerTypeOK, serverVars
<1>3. UserTypeOK /\ UNCHANGED userVars => UserTypeOK'
  BY DEF UserTypeOK, userVars
<1>4. RecTypeOK /\ UNCHANGED recVars => RecTypeOK'
  BY DEF RecTypeOK, recVars
<1> QED
  BY <1>1, <1>2, <1>3, <1>4

\* Reading the resources and the Temporal state preserves the types.
LEMMA ReadType ==
  ASSUME TypeOK,
         \/ Reconcile \/ DescribeNotFound \/ DescribeFound \/ DescribeDegraded
         \/ \E b \in Builds : DescribeGone(b)
  PROVE  TypeOK'
<1> USE DEF TypeOK
<1>1. CASE Reconcile
  <2>1. GetDeploymentState \in [Builds -> Deployment \cup {Nil}]
    BY DEF GetDeploymentState, KubeTypeOK
  <2>2. RecTypeOK'
    BY <1>1, <2>1 DEF Reconcile, RecTypeOK, UserTypeOK
  <2> QED
    BY <1>1, <2>2, UnchangedType DEF Reconcile
<1>2. CASE DescribeNotFound
  <2>1. RecTypeOK'
    BY <1>2, EmptyStateType DEF DescribeNotFound, RecTypeOK
  <2>2. UserTypeOK'
    BY <1>2, FaultType, UnchangedType DEF DescribeNotFound
  <2> QED
    BY <1>2, <2>1, <2>2, UnchangedType DEF DescribeNotFound
<1>3. ASSUME NEW undescribed, NEW gone, NEW unversioned \in BOOLEAN,
             DescribeWith(undescribed, gone, unversioned)
      PROVE  KubeTypeOK' /\ RecTypeOK'
  <2>1. ts' \in TemporalState
    BY <1>3, DescribeType DEF DescribeWith
  <2>2. RecTypeOK'
    BY <1>3, <2>1 DEF DescribeWith, RecTypeOK
  <2> QED
    BY <1>3, <2>2, UnchangedType DEF DescribeWith
<1>4. CASE DescribeFound
  BY <1>3, <1>4, UnchangedType DEF DescribeFound
<1>5. CASE DescribeDegraded
  <2>1. KubeTypeOK' /\ RecTypeOK'
    BY <1>3, <1>5 DEF DescribeDegraded
  <2> QED
    BY <1>5, <2>1, FaultType, UnchangedType DEF DescribeDegraded
<1>6. ASSUME NEW b \in Builds, DescribeGone(b)
      PROVE  TypeOK'
  <2>1. KubeTypeOK' /\ RecTypeOK'
    BY <1>3, <1>6 DEF DescribeGone
  <2>2. ServerTypeOK'
    BY <1>6, ServerStepType DEF DescribeGone
  <2> QED
    BY <1>6, <2>1, <2>2, UnchangedType DEF DescribeGone
<1> QED
  BY <1>1, <1>2, <1>4, <1>5, <1>6

\* Writing the status and planning preserve the types.
LEMMA PlanningType ==
  ASSUME TypeOK, generateStatus \/ generateStatusDegraded \/ generatePlan
  PROVE  TypeOK'
<1> USE DEF TypeOK
<1>1. pc # "idle" => w \in SpecType /\ w.build \in Builds /\ wconn \in Connections
  BY SpecFields DEF RecTypeOK
<1>2. \A b \in Builds : vers[b].tqs \in SUBSET TaskQueues
  <2>1. \A v \in Version : v.tqs \in SUBSET TaskQueues
    BY DEF Version
  <2> QED
    BY <2>1 DEF ServerTypeOK
<1>3. CASE generateStatus
  <2>1. ts' \in TemporalState
    <3>1. ts \in TemporalState
      BY <1>3 DEF generateStatus, RecTypeOK
    <3>2. CASE ReadsGates
      BY <1>1, <1>2, <1>3, <3>1, <3>2, TestWorkflowType DEF generateStatus, ReadsGates
    <3>3. CASE ~ReadsGates
      BY <1>3, <3>1, <3>3 DEF generateStatus
    <3> QED
      BY <3>2, <3>3
  <2>2. RecTypeOK'
    BY <1>3, <2>1 DEF generateStatus, RecTypeOK
  <2> QED
    BY <1>3, <2>2, UnchangedType DEF generateStatus
<1>4. CASE generateStatusDegraded
  <2>1. ts' \in TemporalState
    <3>1. ts \in TemporalState
      BY <1>4 DEF generateStatusDegraded, RecTypeOK
    <3>2. PICK tqs \in SUBSET vers[w.build].tqs :
            ts' = GetTestWorkflowStatus(ts, w.build, tqs, FALSE)
      BY <1>4 DEF generateStatusDegraded
    <3>3. w.build \in Builds /\ ts.versions[w.build] # Nil
      BY <1>1, <1>4 DEF generateStatusDegraded, ReadsGates
    <3>4. tqs \in SUBSET TaskQueues
      BY <1>2, <3>3
    <3> QED
      BY <3>1, <3>2, <3>3, <3>4, TestWorkflowType
  <2>2. RecTypeOK'
    BY <1>4, <2>1 DEF generateStatusDegraded, RecTypeOK
  <2> QED
    BY <1>4, <2>2, FaultType, UnchangedType DEF generateStatusDegraded
<1>5. CASE generatePlan
  <2>1. GetDeploymentState \in [Builds -> Deployment \cup {Nil}]
    BY DEF GetDeploymentState, KubeTypeOK
  <2>2. k8s \in [Builds -> Deployment \cup {Nil}] /\ ts \in TemporalState
    BY <1>5 DEF generatePlan, RecTypeOK
  <2>3. w \in SpecType /\ wconn \in Connections
    BY <1>1, <1>5 DEF generatePlan
  <2>4. plan' \in Plan
    BY <1>5, <2>1, <2>2, <2>3, GeneratePlanType DEF generatePlan, status
  <2>5. RecTypeOK'
    BY <1>5, <2>4 DEF generatePlan, RecTypeOK
  <2> QED
    BY <1>5, <2>5, UnchangedType DEF generatePlan
<1> QED
  BY <1>3, <1>4, <1>5

\* What is left of a plan is a plan.
LEMMA PlanLeft ==
  ASSUME NEW p \in Plan
  PROVE  /\ [p EXCEPT !.create = FALSE] \in Plan
         /\ \A x : [p EXCEPT !.deletes = @ \ {x}] \in Plan
         /\ \A x : [p EXCEPT !.scales = @ \ {x}] \in Plan
         /\ \A x : [p EXCEPT !.updates = @ \ {x}] \in Plan
         /\ \A x : [p EXCEPT !.starts = @ \ {x}] \in Plan
         /\ [p EXCEPT !.vcfg = Nil] \in Plan
         /\ [p EXCEPT !.stamp = "none"] \in Plan
         /\ \A x : [p EXCEPT !.unignore = @ \ {x}] \in Plan
<1>1. \A x : p.deletes \ {x} \subseteq Builds /\ p.unignore \ {x} \subseteq Builds
  BY DEF Plan
<1>2. \A x : /\ p.scales \ {x} \subseteq Builds \X Nat
             /\ p.updates \ {x} \subseteq Builds \X Deployment \X Deployment
             /\ p.starts \ {x} \subseteq TaskQueues
  BY DEF Plan
<1>3. /\ [p EXCEPT !.create = FALSE] \in Plan
      /\ [p EXCEPT !.vcfg = Nil] \in Plan
      /\ [p EXCEPT !.stamp = "none"] \in Plan
  BY DEF Plan
<1>4. \A x : [p EXCEPT !.deletes = @ \ {x}] \in Plan
  BY <1>1 DEF Plan
<1>5. \A x : [p EXCEPT !.scales = @ \ {x}] \in Plan
  BY <1>2 DEF Plan
<1>6. \A x : [p EXCEPT !.updates = @ \ {x}] \in Plan
  BY <1>2 DEF Plan
<1>7. \A x : [p EXCEPT !.starts = @ \ {x}] \in Plan
  BY <1>2 DEF Plan
<1>8. \A x : [p EXCEPT !.unignore = @ \ {x}] \in Plan
  BY <1>1 DEF Plan
<1> QED
  BY <1>3, <1>4, <1>5, <1>6, <1>7, <1>8

\* The calls on Deployments keep the cluster well typed.
LEMMA KubeCallType ==
  ASSUME KubeTypeOK, NEW b \in Builds,
         \/ \E spec \in SpecType, conn \in Connections : KubeCreate(b, spec, conn)
         \/ KubeDelete(b)
         \/ \E n \in Nat : KubeScale(b, n)
         \/ \E old, new \in Deployment : KubeUpdate(b, old, new)
  PROVE  KubeTypeOK'
<1>1. deploys \in [Builds -> Deployment \cup {Nil}] /\ cache \in [Builds -> Deployment \cup {Nil}]
  BY DEF KubeTypeOK
<1>2. UNCHANGED cache /\ \E d \in Deployment \cup {Nil} : deploys' = [deploys EXCEPT ![b] = d]
  <2>1. ASSUME NEW spec \in SpecType, NEW conn \in Connections, KubeCreate(b, spec, conn)
        PROVE  \E d \in Deployment \cup {Nil} : deploys' = [deploys EXCEPT ![b] = d]
    <3>1. NewDeployment(spec, conn) \in Deployment
      BY DEF NewDeployment, Deployment, SpecType
    <3> QED
      BY <2>1, <3>1 DEF KubeCreate
  <2>2. CASE KubeDelete(b)
    BY <2>2 DEF KubeDelete
  <2>3. ASSUME NEW n \in Nat, KubeScale(b, n)
        PROVE  \E d \in Deployment \cup {Nil} : deploys' = [deploys EXCEPT ![b] = d]
    <3>1. deploys[b] \in Deployment
      BY <1>1, <2>3 DEF KubeScale
    <3>2. [deploys[b] EXCEPT !.replicas = n] \in Deployment
      BY <3>1 DEF Deployment
    <3>3. deploys' = [deploys EXCEPT ![b] = [deploys[b] EXCEPT !.replicas = n]]
      BY <2>3 DEF KubeScale
    <3> QED
      BY <3>2, <3>3
  <2>4. ASSUME NEW old \in Deployment, NEW new \in Deployment, KubeUpdate(b, old, new)
        PROVE  \E d \in Deployment \cup {Nil} : deploys' = [deploys EXCEPT ![b] = d]
    BY <2>4 DEF KubeUpdate
  <2>5. UNCHANGED cache
    BY DEF KubeCreate, KubeDelete, KubeScale, KubeUpdate
  <2> QED
    BY <2>1, <2>2, <2>3, <2>4, <2>5
<1> QED
  BY <1>1, <1>2 DEF KubeTypeOK

\* A step of executePlan leaves the rest of Reconcile's state alone.
LEMMA ExecType ==
  ASSUME TypeOK, pc = "exec", UNCHANGED execVars, plan' \in Plan
  PROVE  RecTypeOK' /\ (UNCHANGED owner => UserTypeOK')
<1>1. RecTypeOK'
  BY DEF TypeOK, RecTypeOK, execVars
<1>2. UNCHANGED owner => UserTypeOK'
  BY DEF TypeOK, UserTypeOK, execVars
<1> QED
  BY <1>1, <1>2

\* Each call of executePlan preserves the types.
LEMMA ExecuteType ==
  ASSUME TypeOK,
         \/ ExecCreate \/ ExecScale \/ ExecUpdate \/ ExecStartGate
         \/ ExecVersionConfig \/ ExecStamp \/ ExecDone
         \/ \E b \in Builds : ExecDelete(b) \/ ExecRemoveIgnore(b)
  PROVE  TypeOK'
<1>0. /\ pc = "exec" /\ plan \in Plan
      /\ w \in SpecType /\ w.build \in Builds /\ wconn \in Connections
  <2>1. pc = "exec"
    BY DEF ExecCreate, ExecScale, ExecUpdate, ExecStartGate, ExecVersionConfig, ExecStamp,
           ExecDone, ExecDelete, ExecRemoveIgnore, AtCreate, AtDelete, AtScale, AtUpdate,
           AtStart, AtConfig, AtStamp, AtRemove, AtEnd
  <2> QED
    BY <2>1, SpecFields DEF TypeOK, RecTypeOK
<1>1. CASE ExecCreate
  <2>1. plan' \in Plan
    BY <1>0, <1>1, PlanLeft DEF ExecCreate
  <2>2. KubeTypeOK'
    BY <1>0, <1>1, KubeCallType DEF ExecCreate, TypeOK
  <2> QED
    BY <1>0, <1>1, <2>1, <2>2, ExecType, UnchangedType DEF ExecCreate, TypeOK
<1>2. ASSUME NEW b \in Builds, ExecDelete(b)
      PROVE  TypeOK'
  <2>1. plan' \in Plan
    BY <1>0, <1>2, PlanLeft DEF ExecDelete
  <2>2. KubeTypeOK'
    BY <1>2, KubeCallType DEF ExecDelete, TypeOK
  <2> QED
    BY <1>0, <1>2, <2>1, <2>2, ExecType, UnchangedType DEF ExecDelete, TypeOK
<1>3. CASE ExecScale
  <2>1. PICK s \in plan.scales : /\ KubeScale(s[1], s[2])
                                 /\ plan' = [plan EXCEPT !.scales = @ \ {s}]
    BY <1>3 DEF ExecScale
  <2>2. s[1] \in Builds /\ s[2] \in Nat
    BY <1>0 DEF Plan
  <2>3. plan' \in Plan
    BY <1>0, <2>1, PlanLeft
  <2>4. KubeTypeOK'
    BY <2>1, <2>2, KubeCallType DEF TypeOK
  <2> QED
    BY <1>0, <1>3, <2>3, <2>4, ExecType, UnchangedType DEF ExecScale, TypeOK
<1>4. CASE ExecUpdate
  <2>1. PICK u \in plan.updates : /\ KubeUpdate(u[1], u[2], u[3])
                                  /\ plan' = [plan EXCEPT !.updates = @ \ {u}]
    BY <1>4 DEF ExecUpdate
  <2>2. u[1] \in Builds /\ u[2] \in Deployment /\ u[3] \in Deployment
    BY <1>0 DEF Plan
  <2>3. plan' \in Plan
    BY <1>0, <2>1, PlanLeft
  <2>4. KubeTypeOK'
    BY <2>1, <2>2, KubeCallType DEF TypeOK
  <2> QED
    BY <1>0, <1>4, <2>3, <2>4, ExecType, UnchangedType DEF ExecUpdate, TypeOK
<1>5. CASE ExecStartGate
  <2>1. PICK q \in plan.starts : /\ StartGate(w.build, q)
                                 /\ plan' = [plan EXCEPT !.starts = @ \ {q}]
    BY <1>5 DEF ExecStartGate
  <2>2. q \in TaskQueues
    BY <1>0 DEF Plan
  <2>3. plan' \in Plan
    BY <1>0, <2>1, PlanLeft
  <2>4. ServerTypeOK'
    BY <1>0, <2>1, <2>2, GateType DEF TypeOK
  <2> QED
    BY <1>0, <1>5, <2>3, <2>4, ExecType, UnchangedType DEF ExecStartGate, TypeOK
<1>6. CASE ExecVersionConfig
  <2>1. plan' \in Plan
    BY <1>0, <1>6, PlanLeft DEF ExecVersionConfig
  <2>2. plan.vcfg.build \in Builds \cup {Nil}
    BY <1>0, <1>6 DEF ExecVersionConfig, Plan, VersionConfig
  <2>3. ServerTypeOK'
    BY <1>6, <2>2, SetCurrentType, SetRampingType DEF ExecVersionConfig, TypeOK, Identities
  <2>4. UserTypeOK'
    BY <1>6 DEF ExecVersionConfig, execVars, TypeOK, UserTypeOK
  <2> QED
    BY <1>0, <1>6, <2>1, <2>3, <2>4, ExecType, UnchangedType DEF ExecVersionConfig, TypeOK
<1>7. CASE ExecStamp
  <2>1. plan' \in Plan
    BY <1>0, <1>7, PlanLeft DEF ExecStamp
  <2> QED
    BY <1>0, <1>7, <2>1, ExecType, UnchangedType DEF ExecStamp, TypeOK
<1>8. ASSUME NEW b \in Builds, ExecRemoveIgnore(b)
      PROVE  TypeOK'
  <2>1. plan' \in Plan
    BY <1>0, <1>8, PlanLeft DEF ExecRemoveIgnore
  <2>2. ServerTypeOK'
    BY <1>8, SetIgnoreType DEF ExecRemoveIgnore, TypeOK
  <2> QED
    BY <1>0, <1>8, <2>1, <2>2, ExecType, UnchangedType DEF ExecRemoveIgnore, TypeOK
<1>9. CASE ExecDone
  BY <1>9, ReturnType, UnchangedType DEF ExecDone, TypeOK
<1> QED
  BY <1>1, <1>2, <1>3, <1>4, <1>5, <1>6, <1>7, <1>8, <1>9

\* Every step of Reconcile preserves the types.
LEMMA ReconcileType == TypeOK /\ ReconcileStep => TypeOK'
<1> SUFFICES ASSUME TypeOK, ReconcileStep PROVE TypeOK'
  OBVIOUS
<1>1. CASE GiveUp
  BY <1>1, ReturnType, UnchangedType DEF GiveUp, TypeOK
<1>2. CASE Abort
  BY <1>2, ReturnType, FaultType, UnchangedType DEF Abort, TypeOK
<1> QED
  BY <1>1, <1>2, ReadType, PlanningType, ExecuteType DEF ReconcileStep

\* Edits and changes by people preserve the types.
LEMMA UserType == TypeOK /\ UserStep => TypeOK'
<1> SUFFICES ASSUME TypeOK, UserStep PROVE TypeOK'
  OBVIOUS
<1> USE DEF TypeOK
<1>1. CASE EditSpec \/ EditConnection
  <2>1. UserTypeOK'
    BY <1>1 DEF EditSpec, EditConnection, UserTypeOK
  <2> QED
    BY <1>1, <2>1, UnchangedType DEF EditSpec, EditConnection
<1>2. HumanChange => UserTypeOK' /\ KubeTypeOK' /\ RecTypeOK'
  <2>1. HumanChange => UserTypeOK'
    BY DEF HumanChange, UserTypeOK
  <2> QED
    BY <2>1, UnchangedType DEF HumanChange
<1>3. CASE HumanRemovesRamp
  BY <1>2, <1>3, SetRampingType DEF HumanRemovesRamp, Identities
<1>4. ASSUME NEW b \in Builds \cup {Nil}, HumanSetsCurrent(b)
      PROVE  TypeOK'
  BY <1>2, <1>4, SetCurrentType DEF HumanSetsCurrent, Identities
<1>5. ASSUME NEW b \in Builds, HumanSetsRamp(b)
      PROVE  TypeOK'
  BY <1>2, <1>5, SetRampingType DEF HumanSetsRamp, Identities
<1>6. ASSUME NEW b \in Builds, HumanHandsBack(b)
      PROVE  TypeOK'
  <2>1. UserTypeOK'
    BY <1>6 DEF HumanHandsBack, UserTypeOK
  <2> QED
    BY <1>6, <2>1, SetIgnoreType, UnchangedType DEF HumanHandsBack
<1> QED
  BY <1>1, <1>3, <1>4, <1>5, <1>6 DEF UserStep

\* The steps of the cluster, the server and the clock preserve the types.
LEMMA EnvType == TypeOK /\ EnvStep => TypeOK'
<1> SUFFICES ASSUME TypeOK, EnvStep PROVE TypeOK'
  OBVIOUS
<1> USE DEF TypeOK
<1>1. CASE Tick
  <2>1. RecTypeOK'
    <3>1. pc \in {"status", "plan"} => ts \in TemporalState
      BY DEF RecTypeOK
    <3> QED
      BY <1>1, <3>1, AgeStateType DEF Tick, RecTypeOK
  <2> QED
    BY <1>1, <2>1, TimeType, UnchangedType DEF Tick
<1>2. ASSUME NEW b \in Builds, ClusterStep(b)
      PROVE  TypeOK'
  BY <1>2, ClusterType, UnchangedType DEF ClusterStep
<1>3. ASSUME NEW b \in Builds, WorkersRegister(b)
      PROVE  TypeOK'
  <2>1. PICK qs \in SUBSET TaskQueues : WorkersPoll(b, qs)
    BY <1>3 DEF WorkersRegister
  <2> QED
    BY <1>3, <2>1, ServerStepType, UnchangedType DEF WorkersRegister
<1>4. ASSUME NEW b \in Builds, WorkflowStep(b)
      PROVE  TypeOK'
  BY <1>4, ServerStepType, UnchangedType DEF WorkflowStep
<1>5. ASSUME NEW b \in Builds, ServerDeletesVersion(b)
      PROVE  TypeOK'
  BY <1>5, ServerStepType, UnchangedType DEF ServerDeletesVersion
<1>6. ASSUME NEW b \in Builds, NEW q \in TaskQueues, GateStep(b, q)
      PROVE  TypeOK'
  <2>1. ServerTypeOK'
    BY <1>6, GateType DEF GateStep
  <2> QED
    BY <1>6, <2>1, UnchangedType DEF GateStep
<1> QED
  BY <1>1, <1>2, <1>3, <1>4, <1>5, <1>6 DEF EnvStep

\* Every reachable state is well typed; in particular Reconcile's plan, state
\* and Deployment list exist in the phases that read them, whatever the
\* builds, specs, task queues and faults.
THEOREM TypeCorrect == Spec => []TypeOK
<1>1. Init => TypeOK
  BY InitType
<1>2. TypeOK /\ [Next]_vars => TypeOK'
  <2>1. TypeOK /\ UNCHANGED vars => TypeOK'
    BY UnchangedType DEF vars, TypeOK
  <2> QED
    BY <2>1, ReconcileType, UserType, EnvType DEF Next
<1> QED
  BY <1>1, <1>2, PTL DEF Spec

----------------------------------------------------------------------------
(* The conflict token *)

\* The routing config moves on only with its token.
RoutingKept ==
  /\ routing'.token = routing.token /\ routing'.current = routing.current
  /\ routing'.ramping = routing.ramping /\ routing'.pct = routing.pct

\* Reconcile's copy keeps what the token vouches for.
StateKept ==
  /\ ts'.token = ts.token /\ ts'.current = ts.current
  /\ ts'.ramping = ts.ramping /\ ts'.pct = ts.pct
  /\ (\A b \in Builds : ts.versions[b] = Nil) => \A b \in Builds : ts'.versions[b] = Nil

\* A step that leaves Reconcile alone preserves TokenInv, whether it leaves
\* the routing config alone or changes it and its token.
LEMMA TokenOthers ==
  ASSUME TypeOK, TokenInv, UNCHANGED <<pc, plan, ts>>,
         RoutingKept \/ routing'.token = routing.token + 1
  PROVE  TokenInv'
<1>1. pc \in {"status", "plan", "exec"} => ts.token \in Nat \cup {Nil}
  BY DEF TypeOK, RecTypeOK, TemporalState
<1>2. routing.token \in Nat
  BY DEF TypeOK, ServerTypeOK, RoutingConfig
<1> QED
  BY <1>1, <1>2, NilAssumption DEF TokenInv, RoutingKept

\* A Reconcile that returned holds no token.
LEMMA TokenReturn == Return => TokenInv'
BY DEF Return, TokenInv

\* Describe reads the token together with the routing config it vouches for.
LEMMA TokenReading ==
  ASSUME TypeOK, TokenInv,
         \/ Reconcile \/ DescribeNotFound \/ DescribeFound \/ DescribeDegraded
         \/ \E b \in Builds : DescribeGone(b)
  PROVE  TokenInv'
<1>0. routing.token \in Nat
  BY DEF TypeOK, ServerTypeOK, RoutingConfig
<1>1. CASE Reconcile
  <2>1. pc' = "describe"
    BY <1>1 DEF Reconcile
  <2> QED
    BY <2>1 DEF TokenInv
<1>2. CASE DescribeNotFound
  <2>1. pc' = "status" /\ ts'.token = Nil /\ \A b \in Builds : ts'.versions[b] = Nil
    BY <1>2, EmptyStateType DEF DescribeNotFound
  <2> QED
    BY <2>1 DEF TokenInv
<1>3. ASSUME NEW undescribed, NEW gone, NEW unversioned \in BOOLEAN,
             DescribeWith(undescribed, gone, unversioned), RoutingKept
      PROVE  TokenInv'
  <2>1. /\ ts'.token = routing.token /\ ts'.current = routing.current
        /\ ts'.ramping = routing.ramping /\ ts'.pct = routing.pct
    BY <1>3, DescribeType DEF DescribeWith, TypeOK
  <2>2. pc' = "status"
    BY <1>3 DEF DescribeWith
  <2> QED
    BY <1>0, <1>3, <2>1, <2>2, NilAssumption DEF TokenInv, RoutingKept
<1>4. CASE DescribeFound
  BY <1>3, <1>4 DEF DescribeFound, serverVars, RoutingKept
<1>5. CASE DescribeDegraded
  BY <1>3, <1>5 DEF DescribeDegraded, serverVars, RoutingKept
<1>6. ASSUME NEW b \in Builds, DescribeGone(b)
      PROVE  TokenInv'
  <2>1. RoutingKept
    BY <1>6, ServerStepType DEF DescribeGone, TypeOK, RoutingKept
  <2> QED
    BY <1>3, <1>6, <2>1 DEF DescribeGone
<1> QED
  BY <1>1, <1>2, <1>4, <1>5, <1>6

\* Completing or ageing the state that was read preserves TokenInv.
LEMMA TokenStateKept ==
  ASSUME TokenInv, StateKept, RoutingKept, pc \in {"status", "plan"}, pc' # "exec"
  PROVE  TokenInv'
BY DEF TokenInv, StateKept, RoutingKept

\* The plan carries the token of the state it was made from.
LEMMA TokenPlanning ==
  ASSUME TypeOK, TokenInv, generateStatus \/ generateStatusDegraded \/ generatePlan
  PROVE  TokenInv'
<1>1. w \in SpecType /\ w.build \in Builds /\ wconn \in Connections
  BY SpecFields DEF TypeOK, RecTypeOK, generateStatus, generateStatusDegraded, generatePlan
<1>2. ts \in TemporalState
  BY DEF TypeOK, RecTypeOK, generateStatus, generateStatusDegraded, generatePlan
<1>3. RoutingKept
  BY DEF generateStatus, generateStatusDegraded, generatePlan, serverVars, RoutingKept
<1>4. vers[w.build].tqs \in SUBSET TaskQueues
  <2>1. vers[w.build] \in Version
    BY <1>1 DEF TypeOK, ServerTypeOK
  <2> QED
    BY <2>1 DEF Version
<1>5. CASE generateStatus
  <2>1. StateKept
    <3>1. CASE ReadsGates
      <4>1. ts' = GetTestWorkflowStatus(ts, w.build, vers[w.build].tqs, TRUE)
        BY <1>5, <3>1 DEF generateStatus
      <4>2. ts.versions[w.build] # Nil
        BY <3>1 DEF ReadsGates
      <4> QED
        BY <1>1, <1>2, <1>4, <4>1, <4>2, TestWorkflowType DEF StateKept, TypeOK
    <3>2. CASE ~ReadsGates
      BY <1>5, <3>2 DEF generateStatus, StateKept
    <3> QED
      BY <3>1, <3>2
  <2> QED
    BY <1>3, <1>5, <2>1, TokenStateKept DEF generateStatus
<1>6. CASE generateStatusDegraded
  <2>1. PICK tqs \in SUBSET vers[w.build].tqs :
          ts' = GetTestWorkflowStatus(ts, w.build, tqs, FALSE)
    BY <1>6 DEF generateStatusDegraded
  <2>2. tqs \in SUBSET TaskQueues /\ ts.versions[w.build] # Nil
    BY <1>4, <1>6 DEF generateStatusDegraded, ReadsGates
  <2>3. StateKept
    BY <1>1, <1>2, <2>1, <2>2, TestWorkflowType DEF StateKept, TypeOK
  <2> QED
    BY <1>3, <1>6, <2>3, TokenStateKept DEF generateStatusDegraded
<1>7. CASE generatePlan
  <2>1. GetDeploymentState \in [Builds -> Deployment \cup {Nil}]
    BY DEF GetDeploymentState, TypeOK, KubeTypeOK
  <2>2. k8s \in [Builds -> Deployment \cup {Nil}]
    BY <1>7 DEF generatePlan, TypeOK, RecTypeOK
  <2>3. plan'.vcfg # Nil => plan'.vcfg.token = ts.token
    BY <1>1, <1>2, <1>7, <2>1, <2>2, GeneratePlanType DEF generatePlan, status
  <2>4. ts' = ts /\ pc = "plan" /\ pc' = "exec"
    BY <1>7 DEF generatePlan
  <2>5. ts.token = Nil => plan'.vcfg = Nil
    <3>1. ts.token = Nil => ts.versions[w.build] = Nil
      BY <1>1, <2>4 DEF TokenInv
    <3> QED
      BY <1>7, <3>1, UnknownIsNotRouted DEF generatePlan, status
  <2> QED
    BY <1>3, <2>3, <2>4, <2>5 DEF TokenInv, RoutingKept
<1> QED
  BY <1>5, <1>6, <1>7

\* After its own change of the routing config the token of Reconcile is
\* spent; its other calls change neither.
LEMMA TokenExecuting ==
  ASSUME TypeOK, TokenInv,
         \/ ExecCreate \/ ExecScale \/ ExecUpdate \/ ExecStartGate
         \/ ExecVersionConfig \/ ExecStamp
         \/ \E b \in Builds : ExecDelete(b) \/ ExecRemoveIgnore(b)
  PROVE  TokenInv'
<1>1. /\ pc = "exec" /\ plan \in Plan /\ w.build \in Builds
  <2>1. pc = "exec"
    BY DEF ExecCreate, ExecScale, ExecUpdate, ExecStartGate, ExecVersionConfig, ExecStamp,
           ExecDelete, ExecRemoveIgnore, AtCreate, AtDelete, AtScale, AtUpdate,
           AtStart, AtConfig, AtStamp, AtRemove
  <2> QED
    BY <2>1, SpecFields DEF TypeOK, RecTypeOK
<1>2. UNCHANGED <<pc, ts>>
  BY DEF ExecCreate, ExecScale, ExecUpdate, ExecStartGate, ExecVersionConfig, ExecStamp,
         ExecDelete, ExecRemoveIgnore, execVars
<1>3. ts.token \in Nat \cup {Nil} /\ routing.token \in Nat
  BY <1>1 DEF TypeOK, RecTypeOK, TemporalState, ServerTypeOK, RoutingConfig
<1>4. CASE ExecVersionConfig
  <2>1. plan'.vcfg = Nil
    BY <1>1, <1>4 DEF ExecVersionConfig, Plan
  <2>2. plan.vcfg.build \in Builds \cup {Nil}
    BY <1>1, <1>4 DEF ExecVersionConfig, Plan, VersionConfig
  <2>3. routing'.token = routing.token + 1
    BY <1>4, <2>2, SetCurrentType, SetRampingType DEF ExecVersionConfig, TypeOK, Identities
  <2> QED
    BY <1>1, <1>2, <1>3, <2>1, <2>3, NilAssumption DEF TokenInv
<1>5. CASE ~ExecVersionConfig
  <2>1. plan'.vcfg = plan.vcfg
    BY <1>1, <1>5 DEF ExecCreate, ExecScale, ExecUpdate, ExecStartGate, ExecStamp,
                      ExecDelete, ExecRemoveIgnore, Plan
  <2>2. routing' = routing
    BY <1>5 DEF ExecCreate, ExecScale, ExecUpdate, ExecStartGate, ExecStamp, ExecDelete,
                ExecRemoveIgnore, StartGate, SetIgnoreLastModifier, serverVars
  <2> QED
    BY <1>1, <1>2, <2>1, <2>2 DEF TokenInv
<1> QED
  BY <1>4, <1>5

\* What people do to the routing config invalidates the token.
LEMMA TokenUser == TypeOK /\ TokenInv /\ UserStep => TokenInv'
<1> SUFFICES ASSUME TypeOK, TokenInv, UserStep PROVE TokenInv'
  OBVIOUS
<1>1. UNCHANGED <<pc, plan, ts>>
  BY DEF UserStep, EditSpec, EditConnection, HumanRemovesRamp, HumanSetsCurrent,
         HumanSetsRamp, HumanHandsBack, HumanChange, recVars
<1>2. RoutingKept \/ routing'.token = routing.token + 1
  <2>1. CASE EditSpec \/ EditConnection
    BY <2>1 DEF EditSpec, EditConnection, serverVars, RoutingKept
  <2>2. CASE HumanRemovesRamp
    BY <2>2, SetRampingType DEF HumanRemovesRamp, Identities, TypeOK
  <2>3. ASSUME NEW b \in Builds \cup {Nil}, HumanSetsCurrent(b)
        PROVE  RoutingKept \/ routing'.token = routing.token + 1
    BY <2>3, SetCurrentType DEF HumanSetsCurrent, Identities, TypeOK
  <2>4. ASSUME NEW b \in Builds, HumanSetsRamp(b)
        PROVE  RoutingKept \/ routing'.token = routing.token + 1
    BY <2>4, SetRampingType DEF HumanSetsRamp, Identities, TypeOK
  <2>5. ASSUME NEW b \in Builds, HumanHandsBack(b)
        PROVE  RoutingKept \/ routing'.token = routing.token + 1
    BY <2>5 DEF HumanHandsBack, SetIgnoreLastModifier, RoutingKept
  <2> QED
    BY <2>1, <2>2, <2>3, <2>4, <2>5 DEF UserStep
<1> QED
  BY <1>1, <1>2, TokenOthers

\* The cluster, the server and the clock leave the token valid.
LEMMA TokenEnv == TypeOK /\ TokenInv /\ EnvStep => TokenInv'
<1> SUFFICES ASSUME TypeOK, TokenInv, EnvStep PROVE TokenInv'
  OBVIOUS
<1>1. CASE Tick
  <2>1. RoutingKept
    BY <1>1, TimeType DEF Tick, TypeOK, RoutingKept
  <2>2. CASE pc \in {"status", "plan"}
    <3>1. StateKept
      BY <1>1, <2>2, AgeStateType DEF Tick, TypeOK, RecTypeOK, StateKept
    <3> QED
      BY <1>1, <2>1, <2>2, <3>1, TokenStateKept DEF Tick
  <2>3. CASE pc \notin {"status", "plan"}
    BY <1>1, <2>1, <2>3, TokenOthers DEF Tick
  <2> QED
    BY <2>2, <2>3
<1>2. ASSUME NEW b \in Builds,
             \/ ClusterStep(b) \/ WorkersRegister(b) \/ WorkflowStep(b)
             \/ ServerDeletesVersion(b)
             \/ \E q \in TaskQueues : GateStep(b, q)
      PROVE  TokenInv'
  <2>1. UNCHANGED <<pc, plan, ts>>
    BY <1>2 DEF ClusterStep, WorkersRegister, WorkflowStep, ServerDeletesVersion, GateStep,
                recVars
  <2>2. RoutingKept
    BY <1>2 DEF ClusterStep, WorkersRegister, WorkflowStep, ServerDeletesVersion, GateStep,
                WorkersPoll, WorkflowStarts, WorkflowsClose, DrainageEnds, GateCloses,
                ServerDeletes, serverVars, RoutingKept, TypeOK, ServerTypeOK, RoutingConfig
  <2> QED
    BY <2>1, <2>2, TokenOthers
<1> QED
  BY <1>1, <1>2 DEF EnvStep

\* The conflict token that Reconcile holds vouches for the routing config it
\* read, through every interleaving of people, the server and failures.
THEOREM TokenInvariant == Spec => []TokenInv
<1>1. Init => TokenInv
  BY DEF Init, TokenInv
<1>2. TypeOK /\ TokenInv /\ [Next]_vars => TokenInv'
  <2> SUFFICES ASSUME TypeOK, TokenInv, [Next]_vars PROVE TokenInv'
    OBVIOUS
  <2>1. CASE UNCHANGED vars
    BY <2>1, TokenOthers DEF vars, recVars, serverVars, RoutingKept
  <2>2. CASE ReconcileStep
    BY <2>2, TokenReturn, TokenReading, TokenPlanning, TokenExecuting
       DEF ReconcileStep, ExecDone, GiveUp, Abort
  <2> QED
    BY <2>1, <2>2, TokenUser, TokenEnv DEF Next
<1> QED
  BY <1>1, <1>2, TypeCorrect, PTL DEF Spec

\* Only SetCurrentVersion and SetRampingVersion of executePlan make the
\* controller the last modifier of a new routing config.
LEMMA OnlyExecRoutes ==
  ASSUME TypeOK, [Next]_vars, ControllerRoutes
  PROVE  ExecVersionConfig
<1>1. CASE UNCHANGED vars
  BY <1>1 DEF vars, serverVars, ControllerRoutes
<1>2. CASE ReconcileStep
  <2>1. ASSUME NEW b \in Builds, ServerDeletes(b)
        PROVE  FALSE
    BY <2>1 DEF ServerDeletes, ControllerRoutes, TypeOK, ServerTypeOK, RoutingConfig
  <2> QED
    BY <1>2, <2>1 DEF ReconcileStep, Reconcile, DescribeNotFound, DescribeFound,
         DescribeDegraded, DescribeGone, generateStatus, generateStatusDegraded,
         generatePlan, ExecCreate, ExecScale, ExecUpdate, ExecStartGate, ExecStamp,
         ExecDone, ExecDelete, ExecRemoveIgnore, GiveUp, Abort, StartGate,
         SetIgnoreLastModifier, serverVars, ControllerRoutes
<1>3. CASE UserStep
  <2>1. ASSUME NEW c, NEW r, NEW pct, NewRouting(c, r, pct, Human)
        PROVE  FALSE
    <3> DEFINE rampAge == IF r = routing.ramping /\ pct = routing.pct
                          THEN routing.rampAge ELSE 0
    <3>1. routing' = [current |-> c, ramping |-> r, pct |-> pct, rampAge |-> rampAge,
                      token |-> routing.token + 1, lastMod |-> Human]
      BY <2>1 DEF NewRouting
    <3> HIDE DEF rampAge
    <3> QED
      BY <3>1 DEF ControllerRoutes, Human, Controller
  <2> QED
    BY <1>3, <2>1 DEF UserStep, EditSpec, EditConnection, HumanRemovesRamp,
         HumanSetsCurrent, HumanSetsRamp, HumanHandsBack, SetCurrentVersion,
         SetRampingVersion, SetIgnoreLastModifier, serverVars, ControllerRoutes
<1>4. CASE EnvStep
  <2>1. CASE Tick
    BY <2>1, TimeType DEF Tick, TypeOK, ControllerRoutes
  <2>2. ASSUME NEW b \in Builds, ServerDeletesVersion(b)
        PROVE  FALSE
    BY <2>2, ServerStepType DEF ServerDeletesVersion, TypeOK, ControllerRoutes
  <2> QED
    BY <1>4, <2>1, <2>2 DEF EnvStep, ClusterStep, WorkersRegister, WorkflowStep, GateStep,
         WorkersPoll, WorkflowStarts, WorkflowsClose, DrainageEnds, GateCloses,
         serverVars, ControllerRoutes
<1> QED
  BY <1>1, <1>2, <1>3, <1>4 DEF Next

\* The server accepts the controller's change only while the routing config is
\* what Reconcile read.
LEMMA AcceptedIsSeen ==
  ASSUME TypeOK, TokenInv, ExecVersionConfig
  PROVE  /\ pc = "exec" /\ ts.token # Nil
         /\ routing.current = ts.current
         /\ routing.ramping = ts.ramping
         /\ routing.pct = ts.pct
<1>1. pc = "exec" /\ plan.vcfg # Nil /\ plan.vcfg.token \in {routing.token, Nil}
  BY DEF ExecVersionConfig, ConflictTokenValid, AtConfig, AtStart, AtUpdate, AtScale, AtDelete
<1> QED
  BY <1>1 DEF TokenInv

\* The controller never overwrites a routing config that it has not seen: in
\* every behaviour, what SetCurrentVersion or SetRampingVersion replaces is what
\* Reconcile planned from.
THEOREM NoUpdateIsLost == Spec => NoLostUpdate
<1>1. TypeOK /\ TokenInv /\ [Next]_vars =>
        [ControllerRoutes => /\ routing.current = ts.current
                             /\ routing.ramping = ts.ramping
                             /\ routing.pct = ts.pct]_vars
  <2> SUFFICES ASSUME TypeOK, TokenInv, [Next]_vars, ControllerRoutes
               PROVE  /\ routing.current = ts.current
                      /\ routing.ramping = ts.ramping
                      /\ routing.pct = ts.pct
    OBVIOUS
  <2>1. ExecVersionConfig
    BY OnlyExecRoutes
  <2> QED
    BY <2>1, AcceptedIsSeen
<1> QED
  BY <1>1, TypeCorrect, TokenInvariant, PTL DEF Spec, NoLostUpdate
=============================================================================
