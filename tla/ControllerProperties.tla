------------------------ MODULE ControllerProperties ------------------------
(***************************************************************************)
(* What makes the controller correct: properties of WorkerController.       *)
(***************************************************************************)
EXTENDS WorkerController

VersionInfo ==
  [status : VersionStatuses, drainedAge : Nat \cup {Nil}, noPollers : BOOLEAN,
   unversioned : BOOLEAN, tqs : SUBSET TaskQueues,
   tests : [TaskQueues -> WorkflowStatuses \cup {Nil}]]

TemporalState ==
  [current : Builds \cup {Nil}, ramping : Builds \cup {Nil}, pct : Nat,
   rampAge : Nat \cup {Nil}, token : Nat \cup {Nil},
   lastMod : Identities \cup {Nil}, ignore : BOOLEAN,
   versions : [Builds -> VersionInfo \cup {Nil}]]

\* An entry of the status.
DeprecatedVersion ==
  [deployed : BOOLEAN, status : VersionStatuses, drainedAge : Nat \cup {Nil}, eligible : BOOLEAN]

VersionConfig ==
  [setCurrent : BOOLEAN, build : Builds \cup {Nil}, pct : Nat, token : Nat \cup {Nil}]

Plan ==
  [create : BOOLEAN, deletes : SUBSET Builds, scales : SUBSET (Builds \X Nat),
   updates : SUBSET (Builds \X Deployment \X Deployment),
   starts : SUBSET TaskQueues, vcfg : VersionConfig \cup {Nil},
   stamp : {"none", "version", "unset"}, unignore : SUBSET Builds]

\* Nil is none of the records and strings it stands in for.
ASSUME NilIsNoRecord ==
  /\ Nil \notin Deployment /\ Nil \notin VersionInfo /\ Nil \notin VersionConfig
  /\ Nil \notin [build : Builds, deployed : BOOLEAN] /\ Nil \notin DeprecatedVersion
  /\ Nil \notin WorkflowStatuses /\ Nil \notin Identities

UserTypeOK ==
  /\ twd \in Specs /\ connection \in Connections
  /\ edits \in Nat /\ humans \in Nat /\ faults \in Nat \cup {Nil}
  /\ owner \in {"controller", Human, "handed"}

RecTypeOK ==
  /\ pc \in {"idle", "describe", "status", "plan", "exec"}
  /\ IF pc = "idle" THEN w = Nil /\ wconn = Nil
     ELSE w \in Specs /\ wconn \in Connections
  /\ IF pc \in {"idle", "exec"} THEN k8s = Nil
     ELSE k8s \in [Builds -> Deployment \cup {Nil}]
  /\ IF pc \in {"idle", "describe"} THEN ts = Nil ELSE ts \in TemporalState
  /\ IF pc = "exec" THEN plan \in Plan ELSE plan = Nil

\* The type invariant.  The locals of Reconcile exist exactly in the phases
\* that use them.
TypeOK == KubeTypeOK /\ ServerTypeOK /\ UserTypeOK /\ RecTypeOK

----------------------------------------------------------------------------
(* Running work *)

\* README.md: "ensures running workflows are never disrupted".  A version that
\* new executions are routed to, or that an open workflow is pinned to, has a
\* Deployment that is not scaled to zero, whatever Reconcile is in the middle
\* of (getDeleteDeployments, getScaleDeployments, executePlan).
VersionsInUseHaveWorkers ==
  \A b \in Builds :
    Routed(b) \/ vers[b].pinned => deploys[b] # Nil /\ deploys[b].replicas > 0

\* The controller's own step on the Deployment of b.
ScalesToZero(b) ==
  deploys[b] # Nil /\ deploys'[b] # Nil /\ deploys[b].replicas > 0 /\ deploys'[b].replicas = 0
Deletes(b) == deploys[b] # Nil /\ deploys'[b] = Nil

\* SunsetStrategy: at the moment (not only when it was planned) a drained
\* version is scaled to zero or deleted, the delay for it has passed since it
\* was drained, and it is scaled to zero first; only what never received
\* traffic, or what the server does not know, goes sooner, and the target of
\* the spec in force never goes.  (The code waits for longer than deleteDelay,
\* see DeletedAfterDeleteDelay; docs and code agree that it is the least.)
SunsetRespectsDelays ==
  [][\A b \in Builds :
       /\ ScalesToZero(b) =>
            /\ b # w.build
            /\ vers[b].drain = "Drained" => vers[b].age > w.scaledownDelay
            /\ vers[b].drain # "Draining"
       /\ Deletes(b) =>
            /\ b # w.build
            /\ vers[b].drain = "Drained" =>
                 /\ vers[b].age > w.deleteDelay
                 /\ deploys[b].replicas = 0
            /\ vers[b].drain # "Draining"
            /\ vers[b].drain = "None" => ~Routed(b)]_vars

\* A version that neither gets new executions nor keeps open ones and, if it had
\* some, has been so for longer than the delay.
Unused(b) == ~Routed(b) /\ vers[b].drain # "Draining"
UnusedFor(b, delay) == Unused(b) /\ (vers[b].drain = "Drained" => vers[b].age > delay)

\* GetDeploymentState lists the Deployments twice, from a cache that may be
\* behind, and executePlan acts on both lists call by call.  However old they
\* are, a version that loses its workers is not the target, gets no new
\* executions, has no open ones and has been so for the delay, at that moment.
\* (What a stale list can cost is the order: scaled to zero, then deleted.)
OnlyUnusedLoseWorkers ==
  [][\A b \in Builds :
       /\ ScalesToZero(b) => b # w.build /\ UnusedFor(b, w.scaledownDelay)
       /\ Deletes(b) => b # w.build /\ UnusedFor(b, w.deleteDelay)]_vars

\* docs/concepts.md, "deleteDelay: How long to wait after a version has been
\* Drained before deleting the Kubernetes Deployment", and the same in
\* worker_types.go: a plan deletes every Deployment that is scaled to zero and
\* whose version, as Reconcile read it, has been drained for longer than that.
DeletedAfterDeleteDelay ==
  [][pc = "plan" /\ pc' = "exec" =>
       \A b \in Keys(status.deprecated) :
         /\ status.deprecated[b].status = "Drained"
         /\ status.deprecated[b].drainedAge > w.deleteDelay
         /\ status.deprecated[b].deployed
         /\ GetDeploymentState[b] # Nil /\ GetDeploymentState[b].replicas = 0
         => b \in plan'.deletes]_vars

\* The controller creates the Deployment of b.
Creates(b) == deploys[b] = Nil /\ deploys'[b] # Nil

\* worker_controller.go: "when a Worker Deployment has too many versions
\* ineligible for deletion, the controller will stop deploying new workers":
\* versions that are not drained, counted when the Deployment is created, not
\* when that was planned.
CreationRespectsLimit ==
  [][\A b \in Builds :
       Creates(b) =>
         Cardinality({c \in Builds \ {b, routing.current} :
                        /\ deploys[c] # Nil
                        /\ Registered(c) /\ vers[c].drain # "Drained"}) < MaxIneligible]_vars

----------------------------------------------------------------------------
(* The routing config *)

\* The controller changes the routing config.
ControllerRoutes == routing'.token # routing.token /\ routing'.lastMod = Controller

\* The controller sends (more) new executions to b.
Promotes(b) ==
  /\ ControllerRoutes
  /\ \/ routing'.current = b /\ routing.current # b
     \/ routing'.ramping = b /\ <<routing.ramping, routing.pct>> # <<b, routing'.pct>>

\* ConflictToken: the controller never overwrites a routing config it has not
\* seen.  What it replaces is what it planned from, however long ago it read
\* it and whoever changed the config since.
NoLostUpdate ==
  [][ControllerRoutes =>
       /\ routing.current = ts.current
       /\ routing.ramping = ts.ramping
       /\ routing.pct = ts.pct]_vars

\* Why that is so, as an inductive invariant: the token in the state Reconcile
\* read vouches for what it read (nothing else has been the routing config
\* under that token), a state without a token knows no version, and the version
\* config in its plan carries that token, which is not missing.
TokenInv ==
  /\ pc \in {"status", "plan", "exec"} /\ ts.token # Nil =>
       /\ ts.token <= routing.token
       /\ ts.token = routing.token =>
            /\ ts.current = routing.current
            /\ ts.ramping = routing.ramping
            /\ ts.pct = routing.pct
  /\ pc \in {"status", "plan"} /\ ts.token = Nil =>
       \A b \in Builds : ts.versions[b] = Nil
  /\ pc = "exec" /\ plan.vcfg # Nil => plan.vcfg.token = ts.token /\ ts.token # Nil

\* The routing config as a RoutingRegister: the value, who wrote it, and what
\* Reconcile saw of it, from Describe until it returns.  A state that it read as
\* NotFound is nothing seen.
RoutingValues == (Builds \cup {Nil}) \X (Builds \cup {Nil}) \X Nat
RoutingValue  == <<routing.current, routing.ramping, routing.pct>>
RoutingWriter == IF routing.lastMod = Controller THEN "own" ELSE "other"
RoutingView   == IF pc \in {"status", "plan", "exec"} /\ ts.token # Nil
                 THEN <<ts.current, ts.ramping, ts.pct>> ELSE Nil

Register ==
  INSTANCE RoutingRegister WITH Values <- RoutingValues, value <- RoutingValue,
                                by <- RoutingWriter, view <- RoutingView

\* executePlan, with everything around it, implements the register: whatever
\* people, the server, failures and restarts do between its calls, every write
\* of the controller replaces exactly the value of its last look, and it never
\* writes after a look that failed.
ImplementsRegister == Register!Spec

\* docs/ownership.md: "If another user made a change to the Worker Deployment,
\* the controller will not make any more changes to ensure a human's change is
\* not clobbered", until it is handed back.
NoClobber == [][ControllerRoutes => owner # Human]_vars

\* docs/concepts.md: the gate is a workflow "that must succeed on all task
\* queues in the target Worker Deployment Version before promotion continues".
GateBeforeTraffic ==
  [][\A b \in Builds :
       Promotes(b) /\ w.gate =>
         /\ Registered(b)
         /\ \A q \in vers[b].tqs : gates[b][q] = "Completed"]_vars

\* handleProgressiveRollout: a progressive rollout makes a version current only
\* from the last step and after its pause, and raises the ramp only to the first
\* step, or from one step to the next after the pause of the one it leaves,
\* counted on the ramp as it is at that moment.  The exception is a first
\* version that replaces no current version and no unversioned workers.
RampStepsRespected ==
  [][\A b \in Builds :
       /\ Promotes(b)
       /\ w.strategy = "Progressive"
       /\ \/ routing.current # Nil
          \/ ts.versions[b].status # "Inactive"
          \/ ts.versions[b].unversioned
       =>
         LET steps == w.steps
             Held(i) == /\ routing.ramping = b
                        /\ routing.pct = steps[i].ramp
                        /\ routing.rampAge > steps[i].pause
         IN  IF routing'.current = b
             THEN Held(Len(steps))
             ELSE \/ routing'.pct = steps[1].ramp
                  \/ routing.ramping = b /\ routing'.pct < routing.pct
                  \/ \E i \in 1 .. Len(steps) - 1 :
                       Held(i) /\ routing'.pct = steps[i + 1].ramp]_vars

----------------------------------------------------------------------------
(* Progress *)

\* The Deployment of the target is what the spec and the connection ask for.
TargetUpToDate ==
  LET d == deploys[twd.build] IN
  /\ d # Nil
  /\ d.replicas = twd.replicas /\ d.pods = twd.replicas
  /\ d.conn = connection
  /\ twd.custom => d.tmpl = twd.tmpl

Settled ==
  /\ routing.current = twd.build /\ routing.ramping = Nil
  /\ TargetUpToDate
  /\ \A b \in Builds \ {twd.build} : deploys[b] # Nil => deploys[b].replicas = 0

\* Once the user stops editing, every failure and lost update on the way is
\* repaired: the target is current, alone in the routing config, its Deployment
\* is up to date, and no other version keeps workers.
Converges == <>[]Settled

\* getVersionConfigDiff: "Reset ramp if needed, this would happen if a ramp has
\* been rolled back before completing".  A user who goes back to the current
\* version gets the traffic of the abandoned ramp back: no ramp stays abandoned.
RampAbandoned == routing.current = twd.build /\ routing.ramping # Nil

RollbackResetsRamp == []<>~RampAbandoned

\* docs/ownership.md: after the hand-back on the current version the controller
\* takes over again, or the routing config is what the spec asks for already.
HandBackPending ==
  /\ owner = "handed"
  /\ routing.current # Nil /\ vers[routing.current].ignore
  /\ ~(routing.current = twd.build /\ routing.ramping = Nil)

HandBackResumes == []<>~HandBackPending

\* DeploymentShouldIgnoreLastModifier: "if someone has a non-nil Current
\* Version, but only set the metadata in their Ramping Version, also count
\* that", and docs/ownership.md for a nil current version.
RampHandBackResumes ==
  (owner = "handed" /\ routing.ramping # Nil /\ vers[routing.ramping].ignore)
    ~> \/ owner = "controller"
       \/ routing.ramping = Nil \/ ~vers[routing.ramping].ignore
=============================================================================
