-------------------------- MODULE WorkerController --------------------------
(***************************************************************************)
(* The reconciler of one TemporalWorkerDeployment (internal/controller),    *)
(* composed with the Kubernetes cluster and the Temporal server it reads    *)
(* and changes, the user who edits the resource and the people who change   *)
(* the routing config behind the controller's back.                         *)
(*                                                                         *)
(* controller-runtime runs at most one Reconcile per object, so that the    *)
(* controller is one sequential process; everything else interleaves with   *)
(* its calls.  pc is where it is:                                           *)
(*    idle -> describe -> status -> plan -> exec -> idle                    *)
(* Env names what the environment does, so that a run says which            *)
(* difficulties its properties survive:                                     *)
(*   abort         any call fails, times out, or the controller crashes     *)
(*   lag           the informer cache of Deployments is behind              *)
(*   transient     Describe answers NotFound for an existing deployment     *)
(*   describe      DescribeVersion and DescribeWorkflowExecution fail       *)
(*   serverdelete  the server deletes drained versions                      *)
(*   unversioned   unversioned workers poll the task queues                 *)
(*   latequeue     the task queues of a version register over time          *)
(*   handback      a person sets the ignore-last-modifier metadata          *)
(*   podfail, traffic, gatefail   pods crash, workflows start, gates fail   *)
(***************************************************************************)
EXTENDS KubeCluster, TemporalServer, StateMapper

CONSTANTS
  Specs,        \* the specs users apply (see SpecType)
  MaxEdits,     \* how often the spec or the connection is edited
  MaxHuman,     \* how often a person changes the routing config
  HumanPcts,    \* the ramp percentages a person sets
  MaxFaults     \* how many calls fail (abort, transient, describe); Nil: any

VARIABLES
  twd,          \* spec of the TemporalWorkerDeployment
  connection,   \* spec of its TemporalConnection
  edits,        \* edits left
  humans,       \* changes by people left
  faults,       \* failing calls left, or Nil
  owner,        \* whose change the routing config holds (history variable)
  pc,           \* where Reconcile is
  w, wconn,     \* the spec and the connection Reconcile read
  k8s,          \* the Deployments of its first List
  ts,           \* the Temporal state it read
  plan          \* what is left to execute of its plan

userVars == <<twd, connection, edits, humans, faults, owner>>
recVars  == <<pc, w, wconn, k8s, ts, plan>>
vars     == <<kubeVars, serverVars, userVars, recVars>>

\* A rollout step and the part of TemporalWorkerDeploymentSpec that matters;
\* custom tells whether the build ID was set by the user.
StepType == [ramp : Nat, pause : Nat]
SpecType ==
  [build : Builds, custom : BOOLEAN, tmpl : Templates, replicas : Nat,
   strategy : {"Manual", "AllAtOnce", "Progressive"}, gate : BOOLEAN,
   steps : Seq(StepType), scaledownDelay : Nat, deleteDelay : Nat]

ASSUME SpecsAssumption == Specs \subseteq SpecType
ASSUME BoundsAssumption ==
  /\ MaxEdits \in Nat /\ MaxHuman \in Nat /\ MaxFaults \in Nat \cup {Nil}
  /\ HumanPcts \subseteq 0 .. 100

Init ==
  /\ KubeInit
  /\ ServerInit
  /\ twd \in Specs
  /\ connection \in Connections
  /\ edits = MaxEdits
  /\ humans = MaxHuman
  /\ faults = MaxFaults
  /\ owner = "controller"
  /\ pc = "idle"
  /\ w = Nil /\ wconn = Nil /\ k8s = Nil /\ ts = Nil /\ plan = Nil

----------------------------------------------------------------------------
(* Reconcile: reading and planning *)

\* A call fails that would have succeeded.
Fault(kind) ==
  /\ kind \in Env
  /\ faults # 0
  /\ faults' = IF faults = Nil THEN Nil ELSE faults - 1
  /\ UNCHANGED <<twd, connection, edits, humans, owner>>

Return_KeepsState ==
  /\ pc' = "idle"
  /\ w' = Nil /\ wconn' = Nil /\ k8s' = Nil /\ ts' = ts /\ plan' = Nil

\* Reconcile returns, with a result or an error; it will be called again.
Return ==
  /\ pc' = "idle"
  /\ w' = Nil /\ wconn' = Nil /\ k8s' = Nil /\ ts' = Nil /\ plan' = Nil

\* Get the resource and the connection, list the Deployments.  An invalid
\* spec makes Reconcile return at once.
Reconcile ==
  /\ pc = "idle"
  /\ validateRolloutStrategy(twd)
  /\ w' = twd
  /\ wconn' = connection
  /\ k8s' = GetDeploymentState
  /\ pc' = "describe"
  /\ UNCHANGED <<ts, plan, kubeVars, serverVars, userVars>>

\* Describe finds no deployment: none is registered, or so it seems.
DescribeNotFound ==
  /\ pc = "describe"
  /\ \/ (\A b \in Builds : ~Registered(b)) /\ UNCHANGED userVars
     \/ (\E b \in Builds : Registered(b)) /\ Fault("transient")
  /\ ts' = EmptyState
  /\ pc' = "status"
  /\ UNCHANGED <<w, wconn, k8s, plan, kubeVars, serverVars>>

DrainedVersions == {b \in Builds : Registered(b) /\ VersionStatus(b) = "Drained"}

DescribePanics == ModifiedByOther /\ IgnoreLastModifierPanic

\* Describe answers; undescribed and gone say how DescribeVersion went.
DescribeWith(undescribed, gone, unversioned) ==
  /\ pc = "describe"
  /\ \E b \in Builds : Registered(b)
  /\ ~DescribePanics
  /\ ts' = GetWorkerDeploymentState(w, k8s, undescribed, gone,
                                    {b \in Builds : HasPods(b)}, unversioned)
  /\ pc' = "status"
  /\ UNCHANGED <<w, wconn, k8s, plan, kubeVars>>

DescribeFound ==
  /\ \E unversioned \in BOOLEAN :
       /\ unversioned => "unversioned" \in Env
       /\ DescribeWith({}, {}, unversioned)
  /\ UNCHANGED <<serverVars, userVars>>

\* DescribeVersion fails until the backoff gives up: no drain time.
DescribeDegraded ==
  /\ \E undescribed \in SUBSET DrainedVersions :
       undescribed # {} /\ DescribeWith(undescribed, {}, FALSE)
  /\ Fault("describe")
  /\ UNCHANGED serverVars

\* The server deletes b after Describe listed it: DescribeVersion finds nothing.
DescribeGone(b) ==
  /\ ~HasPods(b)
  /\ b \in DrainedVersions
  /\ DescribeWith({}, {b}, FALSE)
  /\ ServerDeletes(b)
  /\ UNCHANGED userVars

\* generateStatus reads the gate workflows of a target that is not current...
ReadsGates == w.build # ts.current /\ ts.versions[w.build] # Nil

\* ...and Reconcile writes the status, which fails if the resource changed.
generateStatus ==
  /\ pc = "status"
  /\ w = twd
  /\ ts' = IF ReadsGates
           THEN GetTestWorkflowStatus(ts, w.build, vers[w.build].tqs, TRUE)
           ELSE ts
  /\ pc' = "plan"
  /\ UNCHANGED <<w, wconn, k8s, plan, kubeVars, serverVars, userVars>>

\* An error on the way is logged and the status is what was read so far.
generateStatusDegraded ==
  /\ pc = "status"
  /\ w = twd
  /\ ReadsGates
  /\ Fault("describe")
  /\ \E tqs \in SUBSET vers[w.build].tqs :
       ts' = GetTestWorkflowStatus(ts, w.build, tqs, FALSE)
  /\ pc' = "plan"
  /\ UNCHANGED <<w, wconn, k8s, plan, kubeVars, serverVars>>

status == mapToStatus(k8s, ts, w.build)

rolloutStrategy_IgnoresOthers == w.strategy
rolloutStrategy_NeverResumes ==
  IF ts.lastMod \notin {Controller, ServerDeletion, Nil} THEN "Manual" ELSE w.strategy

\* Manual while the last change is somebody else's who did not hand back.
rolloutStrategy ==
  IF ts.lastMod \notin {Controller, ServerDeletion, Nil} /\ ~ts.ignore
  THEN "Manual"
  ELSE w.strategy

\* With a conflict token that is read again instead of the one of the state.
generatePlan_FreshToken ==
  /\ pc = "plan"
  /\ ~DrainTimePanic(GetDeploymentState, status)
  /\ LET p == GeneratePlan(GetDeploymentState, status, w, ts, wconn, rolloutStrategy)
     IN  plan' = IF p.vcfg = Nil THEN p ELSE [p EXCEPT !.vcfg.token = routing.token]
  /\ k8s' = Nil
  /\ pc' = "exec"
  /\ UNCHANGED <<w, wconn, ts, kubeVars, serverVars, userVars>>

\* The Deployments are listed a second time.
generatePlan ==
  /\ pc = "plan"
  /\ ~DrainTimePanic(GetDeploymentState, status)
  /\ plan' = GeneratePlan(GetDeploymentState, status, w, ts, wconn, rolloutStrategy)
  /\ k8s' = Nil
  /\ pc' = "exec"
  /\ UNCHANGED <<w, wconn, ts, kubeVars, serverVars, userVars>>

----------------------------------------------------------------------------
(* executePlan: one call per step, in the order of the code; within one     *)
(* list the order is that of a Go map.                                      *)

AtCreate  == pc = "exec" /\ plan.create
AtDelete  == pc = "exec" /\ ~plan.create
AtScale   == AtDelete /\ plan.deletes = {}
AtUpdate  == AtScale /\ plan.scales = {}
AtStart   == AtUpdate /\ plan.updates = {}
AtConfig  == AtStart /\ plan.starts = {}
AtStamp   == AtConfig /\ plan.vcfg = Nil
AtRemove  == AtStamp /\ plan.stamp = "none"
AtEnd     == AtRemove /\ plan.unignore = {}

execVars == <<pc, w, wconn, k8s, ts, twd, connection, edits, humans, faults>>

ExecCreate ==
  /\ AtCreate
  /\ KubeCreate(w.build, w, wconn)
  /\ plan' = [plan EXCEPT !.create = FALSE]
  /\ UNCHANGED <<execVars, owner, serverVars>>

ExecDelete(b) ==
  /\ AtDelete
  /\ b \in plan.deletes
  /\ KubeDelete(b)
  /\ plan' = [plan EXCEPT !.deletes = @ \ {b}]
  /\ UNCHANGED <<execVars, owner, serverVars>>

ExecScale ==
  /\ AtScale
  /\ \E s \in plan.scales :
       /\ KubeScale(s[1], s[2])
       /\ plan' = [plan EXCEPT !.scales = @ \ {s}]
  /\ UNCHANGED <<execVars, owner, serverVars>>

ExecUpdate ==
  /\ AtUpdate
  /\ \E u \in plan.updates :
       /\ KubeUpdate(u[1], u[2], u[3])
       /\ plan' = [plan EXCEPT !.updates = @ \ {u}]
  /\ UNCHANGED <<execVars, owner, serverVars>>

ExecStartGate ==
  /\ AtStart
  /\ \E q \in plan.starts :
       /\ StartGate(w.build, q)
       /\ plan' = [plan EXCEPT !.starts = @ \ {q}]
  /\ UNCHANGED <<execVars, owner, kubeVars>>

\* The request carries the token; without one (a status that came from
\* NotFound) the server checks nothing.
ConflictTokenValid_NotSent == TRUE
ConflictTokenValid == plan.vcfg.token \in {routing.token, Nil}

\* The server refuses the change if the routing config is not the one the
\* conflict token was read with.
ExecVersionConfig ==
  /\ AtConfig
  /\ plan.vcfg # Nil
  /\ ConflictTokenValid
  /\ IF plan.vcfg.setCurrent
     THEN SetCurrentVersion(plan.vcfg.build, Controller)
     ELSE SetRampingVersion(plan.vcfg.build, plan.vcfg.pct, Controller)
  /\ plan' = [plan EXCEPT !.vcfg = Nil]
  /\ owner' = "controller"
  /\ UNCHANGED <<execVars, kubeVars>>

\* The controller's identity and version in the metadata of the version:
\* nothing that the controller or the server acts upon.
ExecStamp ==
  /\ AtStamp
  /\ plan.stamp # "none"
  /\ plan' = [plan EXCEPT !.stamp = "none"]
  /\ UNCHANGED <<execVars, owner, kubeVars, serverVars>>

\* The ramping version first, then the current one.
ExecRemoveIgnore(b) ==
  /\ AtRemove
  /\ b \in plan.unignore
  /\ b # ts.ramping => ts.ramping \notin plan.unignore
  /\ SetIgnoreLastModifier(b, FALSE)
  /\ plan' = [plan EXCEPT !.unignore = @ \ {b}]
  /\ UNCHANGED <<execVars, owner, kubeVars>>

ExecDone ==
  /\ AtEnd
  /\ Return
  /\ UNCHANGED <<kubeVars, serverVars, userVars>>

\* The next call of the plan is refused: AlreadyExists, NotFound, Conflict or
\* FailedPrecondition.  The metadata update after a ramp was removed names no
\* build ID, which the server may refuse.
Refused ==
  \/ AtCreate /\ deploys[w.build] # Nil
  \/ AtDelete /\ \E b \in plan.deletes : deploys[b] = Nil
  \/ AtScale  /\ \E s \in plan.scales : deploys[s[1]] = Nil
  \/ AtUpdate /\ \E u \in plan.updates : deploys[u[1]] # u[2]
  \/ AtStart  /\ \E q \in plan.starts : gates[w.build][q] # Nil
  \/ AtConfig /\ plan.vcfg # Nil
       /\ \/ ~ConflictTokenValid
          \/ plan.vcfg.build # Nil /\ ~Registered(plan.vcfg.build)
          \/ plan.vcfg.pct > 100
  \/ AtStamp  /\ plan.stamp = "unset"
  \/ AtRemove /\ \E b \in plan.unignore : ~Registered(b)

\* Reconcile gives up with what it has done so far: a panic that
\* controller-runtime recovers, a conflict on the status, a refused call...
GiveUp ==
  /\ \/ pc = "describe" /\ DescribePanics
     \/ pc = "status" /\ w # twd
     \/ pc = "plan" /\ DrainTimePanic(GetDeploymentState, status)
     \/ Refused
  /\ Return
  /\ UNCHANGED <<kubeVars, serverVars, userVars>>

\* ...or any error, timeout or crash.
Abort ==
  /\ pc # "idle"
  /\ Fault("abort")
  /\ Return
  /\ UNCHANGED <<kubeVars, serverVars>>

----------------------------------------------------------------------------
(* Users, the cluster and the server *)

EditSpec ==
  /\ edits > 0
  /\ twd' \in Specs \ {twd}
  /\ edits' = edits - 1
  /\ UNCHANGED <<connection, humans, faults, owner, kubeVars, serverVars, recVars>>

EditConnection ==
  /\ edits > 0
  /\ connection' \in Connections \ {connection}
  /\ edits' = edits - 1
  /\ UNCHANGED <<twd, humans, faults, owner, kubeVars, serverVars, recVars>>

\* A person changes the routing config; until it is handed back, it is theirs.
HumanChange ==
  /\ humans > 0
  /\ humans' = humans - 1
  /\ owner' = IF owner = "handed" THEN "handed" ELSE Human
  /\ UNCHANGED <<twd, connection, edits, faults, kubeVars, recVars>>

HumanSetsCurrent(b) == HumanChange /\ SetCurrentVersion(b, Human)

HumanSetsRamp(b) ==
  /\ HumanChange
  /\ \E pct \in HumanPcts :
       <<b, pct>> # <<routing.ramping, routing.pct>> /\ SetRampingVersion(b, pct, Human)

HumanRemovesRamp == HumanChange /\ SetRampingVersion(Nil, 0, Human)

\* docs/ownership.md: set the metadata on the current (or ramping) version.
HumanHandsBack(b) ==
  /\ "handback" \in Env
  /\ humans > 0
  /\ Routed(b) /\ ~vers[b].ignore
  /\ SetIgnoreLastModifier(b, TRUE)
  /\ humans' = humans - 1
  /\ owner' = "handed"
  /\ UNCHANGED <<twd, connection, edits, faults, kubeVars, recVars>>

ClusterStep(b) ==
  /\ PodsSettle(b) \/ PodsMissed(b) \/ PodsFail(b) \/ CacheSync(b)
  /\ UNCHANGED <<serverVars, userVars, recVars>>

\* Only running pods poll, and finish gate workflows.
WorkersRegister(b) ==
  /\ HasPods(b)
  /\ \E qs \in (IF "latequeue" \in Env THEN SUBSET TaskQueues ELSE {TaskQueues}) :
       WorkersPoll(b, qs)
  /\ UNCHANGED <<kubeVars, userVars, recVars>>

GateStep(b, q) ==
  /\ \E result \in {"Completed", "Failed"} :
       GateCloses(b, q, result) /\ (result = "Completed" => HasPods(b))
  /\ UNCHANGED <<kubeVars, userVars, recVars>>

WorkflowStep(b) ==
  /\ WorkflowStarts(b) \/ (HasPods(b) /\ WorkflowsClose(b)) \/ DrainageEnds(b)
  /\ UNCHANGED <<kubeVars, userVars, recVars>>

ServerDeletesVersion(b) ==
  /\ ~HasPods(b)
  /\ ServerDeletes(b)
  /\ UNCHANGED <<kubeVars, userVars, recVars>>

\* Also the ages in the state Reconcile has read grow until it has planned.
Tick ==
  /\ TimePasses
  /\ ts' = IF pc \in {"status", "plan"} THEN AgeState(ts) ELSE ts
  /\ UNCHANGED <<kubeVars, userVars, pc, w, wconn, k8s, plan>>

----------------------------------------------------------------------------
ReconcileStep ==
  \/ Reconcile
  \/ DescribeNotFound \/ DescribeFound \/ DescribeDegraded
  \/ generateStatus \/ generateStatusDegraded
  \/ generatePlan
  \/ ExecCreate \/ ExecScale \/ ExecUpdate \/ ExecStartGate
  \/ ExecVersionConfig \/ ExecStamp \/ ExecDone
  \/ \E b \in Builds : DescribeGone(b) \/ ExecDelete(b) \/ ExecRemoveIgnore(b)
  \/ GiveUp \/ Abort

UserStep ==
  \/ EditSpec \/ EditConnection \/ HumanRemovesRamp
  \/ \E b \in Builds \cup {Nil} : HumanSetsCurrent(b)
  \/ \E b \in Builds : HumanSetsRamp(b) \/ HumanHandsBack(b)

EnvStep ==
  \/ Tick
  \/ \E b \in Builds :
       \/ ClusterStep(b) \/ WorkersRegister(b) \/ WorkflowStep(b)
       \/ ServerDeletesVersion(b)
       \/ \E q \in TaskQueues : GateStep(b, q)

Next == ReconcileStep \/ UserStep \/ EnvStep

Spec == Init /\ [][Next]_vars

----------------------------------------------------------------------------
(* Fairness *)

\* controller-runtime calls Reconcile again after every return (a requeue
\* after 10 seconds, with backoff after an error).  A run that checks progress
\* bounds the faults: errors, crashes and wrong answers do not go on for ever.
ControllerFairness == WF_vars(ReconcileStep)

\* Pods start and poll, workflows close, drainage ends, time passes and watch
\* events arrive.  Nobody has to edit anything, and nothing has to fail.
EnvFairness ==
  /\ WF_vars(Tick)
  /\ \A b \in Builds :
       /\ WF_vars(PodsSettle(b) /\ UNCHANGED <<serverVars, userVars, recVars>>)
       /\ WF_vars(CacheSync(b) /\ UNCHANGED <<serverVars, userVars, recVars>>)
       /\ WF_vars(WorkersRegister(b))
       /\ WF_vars(HasPods(b) /\ WorkflowsClose(b) /\ UNCHANGED <<kubeVars, userVars, recVars>>)
       /\ WF_vars(DrainageEnds(b) /\ UNCHANGED <<kubeVars, userVars, recVars>>)
       /\ \A q \in TaskQueues : WF_vars(GateStep(b, q))

FairSpec == Spec /\ ControllerFairness /\ EnvFairness
=============================================================================
