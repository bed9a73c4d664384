# Temporal Worker Controller: a TLA+ verification project

The Temporal Worker Controller is a Kubernetes operator. A user describes a set of
Temporal workers in a `TemporalWorkerDeployment` (TWD); for every new pod template the
controller creates a versioned Deployment, registers the version with Temporal, shifts
new workflow executions to it step by step, and takes old versions down once their
workflows have drained. This directory holds a model of that controller and of the two
systems it drives, the properties that make it correct, the TLC runs that check them on
small instances, and TLAPS proofs of some of them for all instances.

## 1. The system

| part | source | state it keeps | operations |
|---|---|---|---|
| reconciler | `internal/controller/{worker_controller,genstatus,genplan,execplan,util}.go` | none between two calls; within one: the spec and the connection it read, the Deployments it listed, the Temporal state, the plan | `Reconcile`: read, write the status, plan, execute the plan call by call, requeue |
| planner | `internal/planner/planner.go` | none (pure) | `GeneratePlan` and the functions under it |
| state mapper | `internal/controller/state_mapper.go` | none (pure) | `mapToStatus` |
| Temporal reader | `internal/temporal/worker_deployment.go` | none | `GetWorkerDeploymentState`, `GetTestWorkflowStatus`, ownership metadata, poller lookups |
| Deployment reader and builder | `internal/k8s/deployments.go` | none | `GetDeploymentState`, `IsDeploymentHealthy`, construction of Deployments, names, build IDs, hashes |
| validation, defaults | `api/v1alpha1/temporalworker_webhook.go` | none | `validateRolloutStrategy`, `Default` (called by `Reconcile`: the webhook is off by default) |
| client pool | `internal/controller/clientpool/clientpool.go` | map of SDK clients, shared by all Reconciles, under a lock | look up, create, close, expiry |
| watches | `worker_controller.go`: `SetupWithManager`, `findTWDsUsingConnection` | none (the work queue is controller-runtime's) | queue the TWDs that a changed connection, TWD or Deployment concerns |
| names, build IDs | `internal/k8s/deployments.go`, `internal/controller/k8s.io/utils/utils.go` | none (pure) | `ComputeBuildID`, `ComputeVersionedDeploymentName`, `ComputeHash`, cleaning and truncation |
| Kubernetes (external) | used by `execplan.go`, `deployments.go` | Deployments, pods, the informer cache | create, delete, scale, update, and its own controllers |
| Temporal server (external) | used by `worker_deployment.go`, `execplan.go` | routing config with conflict token and last modifier, versions, drainage, metadata, workflows | set current, set ramping, metadata, start workflow, and its own steps |
| people | `docs/ownership.md` | - | edit the TWD and the connection; change the routing config with the CLI; hand it back |

What is hard about it:

* **Interleaving.** controller-runtime runs one `Reconcile` per object at a time, so that
  the controller is sequential, but a `Reconcile` is a dozen remote calls. Between any two of
  them people change the routing config, users edit the TWD, workers register, pods come
  and go, workflows start and close, the server deletes versions.
* **Stale snapshots.** The plan is computed from a Deployment list out of the informer
  cache, a Temporal state, a status built from an earlier list, and a second list.
* **Partial execution.** The plan is executed call by call. Any call may fail, and the
  process may stop anywhere; nothing is persisted but what the calls did.
* **Two sources of truth**, the routing config in Temporal and the Deployments in
  Kubernetes, without a transaction over both.
* **Time.** Ramp pauses and sunset delays are measured against timestamps of the server,
  certificates expire while clients made from them are in use or being made.
* **Sharing.** Up to 100 `Reconcile`s of different TWDs run at once over one map of clients, which
  one of the paths writes without taking the lock.

`PROJECT.json` lists every component, the hazards at the lines where they bite, and the
correspondence of definitions to source lines.

## 2. The modules

| module | models | built on |
|---|---|---|
| `Vocabulary` | builds, task queues, `Nil`, the environment switches | - |
| `Planner` | `planner.go`, and the rollout validation | `Vocabulary` |
| `StateMapper` | `state_mapper.go` | `Planner` |
| `KubeCluster` | Deployments, cache, pods (mostly external) | `Vocabulary` |
| `TemporalServer` | the server (external) and the functions of `worker_deployment.go` that read it | `Vocabulary` |
| `WorkerController` | `Reconcile`, composed with the cluster, the server, users and people | all of the above |
| `ControllerProperties` | types, invariants, action properties, progress | `WorkerController` |
| `MCController` | the specs of the TLC runs | `ControllerProperties` |
| `RoutingRegister` | an abstract specification: what the conflict token promises | - |
| `ClientPool` | `clientpool.go`, Secrets, expiry | - |
| `ReconcileQueue` | watches, work queue, connections, and `Reconcile` up to its client, composed with the pool | `ClientPool` |
| `PoolProperties`, `MCPool` | its properties; values for TLC | `ReconcileQueue` |
| `BuildIDs` | build IDs, names, labels, the short hash | - |
| `GateInput` | validation and resolution of the gate's input | - |
| `PodConnection` | what pods carry of the connection, and how it is updated | - |
| `Inputs` | a user who edits what the three are functions of; their properties | `BuildIDs`, `GateInput`, `PodConnection` |
| `ControllerProofs`, `RegisterProofs` | theorems: types, the conflict token, the register | `ControllerProperties` |
| `RoutingProofs` | theorems: ramps, ownership, gates | `ControllerProofs` |
| `SunsetProofs` | theorems: workers of versions in use, delays, the limit of versions | `RoutingProofs` |
| `PoolProofs`, `ClientProofs` | theorems about the client pool | `PoolProperties` |
| `InputsProofs` | theorems: the input of the gate, the connection of the pods | `Inputs` |
| `BuildIDProofs` | theorems: build IDs and names | `Inputs` |

There are three models. `WorkerController` follows one TWD through everything `Reconcile` does; there a
missing client or a gate input that cannot be resolved is one of the errors of `Abort`. `ReconcileQueue`
follows several TWDs through the part of `Reconcile` that they share, the pool, and abstracts the rest of it
to the location `use`. `Inputs` covers the pure functions whose results the first model takes as
abstract values.

### The composed controller

**State.** `deploys` and `cache` are the Deployments (wanted replicas, running pods, Available
condition, hash annotations) and the controller's view of them. `routing`, `vers` and `gates` are
the server's routing config, versions and gate workflows. `twd` and `connection` are the user's
resources. `pc`, `w`, `wconn`, `k8s`, `ts`, `plan` are the locals of `Reconcile` and the point it
has reached:

    idle --Reconcile--> describe --Describe...--> status --generateStatus--> plan
         --generatePlan--> exec --Exec...--> idle

`Reconcile` reads the resources and lists Deployments; `DescribeFound`, `DescribeNotFound`,
`DescribeDegraded` and `DescribeGone` are the outcomes of `GetWorkerDeploymentState`;
`generateStatus` (or `generateStatusDegraded`) reads the gate workflows and writes the
status; `generatePlan` lists again and plans; each `Exec...` action is one call of
`executePlan`, in the order of the code (`AtCreate`, `AtDelete`, ... say how far it is). `GiveUp` is
every early return the state forces (conflict on the status, refused call, nil
dereference, which controller-runtime recovers), `Abort` every other error, time-out or crash.

**Data.** Build IDs, task queues, pod templates and connections are abstract values; the latter two
stand for their hashes. A point in time is kept as its age, which `Tick` increments up to
`AgeCap`: 3 is above every delay in the specs (1, and 1 + 1 for both sunset delays), so that
`>` at the boundary and above are both reached. Percentages are integers. Secrets, gate
inputs, conditions, events and log output are left out of this model. `owner` is a history variable: whose change
the routing config holds, which no code reads.

**Environment.** `Env` switches difficulties on, so that each run says what its properties
survive (`WorkerController` lists them). `MaxEdits`, `MaxHuman` and `MaxFaults` bound the edits, the
changes by people and the failing calls (`MaxFaults = Nil`: no bound).

Some assumptions about the external systems carry weight. The server increments the conflict token with
each change of current or ramping version and refuses a stale one, but does not check a request
without a token (what a state read as NotFound would lead to); metadata updates and
deletions of versions do not touch it. A task queue has versioned pollers while any version with pods polls it. A version is drained only when no
workflow is pinned to it. Scaling needs no resource version (the body that is sent has none), updating
does. The Deployment condition Available holds at zero replicas and is corrected by the Deployment
controller only some time after a scale-up.

### The register

`RoutingRegister` says, without tokens, versions or plans, what the conflict token is for: several writers share
the routing config, and one of them, the controller, replaces only the value it has looked at. `ImplementsRegister`
maps current version, ramping version and percentage to the value, the identity of the last modifier to the writer, and the state
that `Reconcile` read, from Describe to its return, to the look. A state read as NotFound is no look. The
server's deletion of a version becomes `OtherWrite` with the same value.

### The client pool and the queue

`pc[t]` is where the `Reconcile` of the TWD `t` is:

    idle --Reconcile--> reading --GetEnds--> use --Return--> idle
                          \--> upsert --UpsertClient--> dial --PutBegins--> writing --PutEnds--> use

`reading` and `writing` are the accesses to the map, with a begin and an end, so that overlapping ones are states of the
model. `lock` is the RWMutex; `PutBegins` waits for it unless the client has no credentials, which is what
`fetchClientUsingNoCredentials` does. Where accesses overlap (`Racing`) the write may be lost (`WriteLost`) or the Go
runtime ends the process (`FatalMapRace`: the pool is empty, everything is queued again). `UpsertRefused` and
`DialFails` are the errors, a failing health check, which panics, among them.

A client is the Secret it was made from, the time its certificate is valid for, and whether the Secret still
has that content (`fresh`, history). Time counts down; `Life` ticks to NotAfter of the first certificate, `Buffer` (five
minutes in the code), `DialTime`, the longest a dial with its wait for the lock may take. `DialTime < Buffer` is an
assumption: `Reconcile` has a deadline of five minutes, which `UpsertClient` does not pass on to `Dial` and `CheckHealth`.

The queue is a set. A TWD is reconciled by one worker at a time and stays queued if it changes meanwhile, as
controller-runtime guarantees. What users edit (`conns`, `ref`) reaches the controller late: each kind has an informer cache of its
own (`connCache`, `refCache`), which sees a change some time after it (`ConnectionSeen`, `ReferenceSeen`, in any order) and raises an
event, which is handled some time after that (`HandleConnectionEvent`, `HandleResourceEvent`). `findTWDsUsingConnection` lists the
TWDs from the cache as it is then, and `Reconcile` reads both objects from the caches. Initially the caches may
be behind. `used` is a history variable: the connection that the last `Reconcile` of the TWD began with.

### The pure functions

`BuildIDs` keeps strings, as sequences over the classes that the code tells apart: letters and digits, the dash, dots and
underscores, everything else. Parsing an image reference is reduced to tag, digest and rest, the hash of
the pod template to the number it is taken modulo. `GateInput` keeps whether a reference is set and which
value is found; `PodConnection` the host, the two Secret names and the annotation. `Inputs` reaches
their arguments by edits, one part at a time, so that a counterexample is a sequence of edits.

## 3. What the runs show

States are distinct states.

| run | environment | bounds | properties | result |
|---|---|---|---|---|
| `rollout` | crashes, failing DescribeVersion, transient NotFound, unversioned workers, traffic, deletion by the server | 2 builds, 3 edits; two-step ramp, its steps edited, an invalid spec | `TypeOK`, `VersionsInUseHaveWorkers`, `RampStepsRespected`, `SunsetRespectsDelays` | hold, 971k |
| `ownership` | crashes, transient NotFound, three changes by people | 2 builds, 1 edit | `TokenInv`, `NoLostUpdate`, `NoClobber`, `ImplementsRegister` | hold, 482k |
| `gate` | crashes, failing gates, partial answers, crashing pods | 3 builds, 2 task queues, limit of 1 version, 2 edits | `GateBeforeTraffic`, `CreationRespectsLimit` | hold, 532k |
| `converge` | stale cache, one failing or wrong call | 2 builds, 2 templates, 2 connections, 2 edits, one ramp step | `Converges`, `RollbackResetsRamp`, `OnlyUnusedLoseWorkers` | hold, 320k |
| `handback` | one failing call, hand-back | 2 builds, 1 edit, 3 steps of people: two changes and a hand-back | `HandBackResumes` | holds, 297k |
| `client_pool` | edits of connections, references and Secrets, failing dials, lost writes, expiry, `Close`, late watch events | 2 TWDs, 2 connections, 2 Secrets, 4 connection specs (mTLS, API key, none), 1 change or failure | `TypeOK`, `OnlyUnlockedStoresRace`, `OwnCredentials`, `ClientsPerKeyBounded`, `ConnectionChangeQueued`, `CertificateValid`, `RenewedCertificateUsed` | hold, 339k |
| `inputs` | edits of build ID, image, template, gate, ConfigMap, Secret, connection | 4 characters of text, build IDs of at most 4, 2 hashes | `BuildIDReadBack`, `DistinctTemplates`, `GateInputResolved`, `UpToDatePodsConnect` | hold, 96k |

Two builds are the smallest number with a version to leave and one to reach, and
three edits let a user go there, back and there again; a third build matters only to the version limit.
Two task queues distinguish "all" from "some" in the gate.
In `client_pool`, two TWDs are the fewest whose accesses overlap, and their initial connections (one with
mTLS, one without credentials) already make all pairs of paths meet; the one change moves the third path, the API key, in,
and what is checked there only for two TWDs is proved for any number. `Life = Buffer = 2` and `DialTime = 1` make
a certificate cross the buffer while a client is made from it. In `inputs`, 4 is the smallest length with room for a character,
a separator, another character and one more to truncate, and two hashes are enough to differ. `rollout` and `delete_delay` do not check
for deadlock: with a spec that the validation rejects and no edit left, the controller rightly stops.

The progress runs narrow the initial states. `converge` and `handback` begin with the spec for `b1` (`FirstB1`); the edits then lead
to every other spec, and from `b1` into the ramp of `b2` and back. `client_pool` begins with both TWDs seen as users of the first
connection (`BothSeenWithC1`). The reference of one of them may already be another, which together with the one change of the run lets a
change of the connection and a change of the reference overtake each other.

`RollbackResetsRamp` and `HandBackResumes` say that the abandoned ramp, or the hand-back, is never pending for ever; both stop
being pending also when the user or the person does something else.

Five runs show where the code and what the repository says of it disagree. Each checks
one property, and TLC's counterexample is the evidence:

| run | property | what happens |
|---|---|---|
| `rollback_gate` | `RollbackResetsRamp` | With a gate, going back to the current version in the middle of a ramp never resets the ramp: `getVersionConfigDiff` (planner.go:535) needs task queues that `generateStatus` reads only of a target that is not current. |
| `flag_left_behind` | `NoClobber` | A call fails after SetCurrentVersion and before the ignore-last-modifier metadata is removed (execplan.go:179). The flag stays, and later makes the controller overwrite a person's change. |
| `server_delete` | `NoClobber` | The server deletes a version after a person's change and becomes the last modifier, which the controller is told to ignore (genplan.go:85). |
| `delete_delay` | `DeletedAfterDeleteDelay` | A Deployment that is scaled to zero, of a version that has been drained for longer than `deleteDelay`, is not deleted: the code waits for `DeleteDelay + ScaledownDelay` (planner.go:357, and its comment), where worker_types.go:342, docs/concepts.md:111 and docs/configuration.md:120 count `deleteDelay` alone from the drainage. |
| `ramp_handback` | `RampHandBackResumes` | The metadata on the ramping version is never looked at; without a current version the lookup dereferences nil (worker_deployment.go:363). |

The passing runs leave these circumstances out by their choice of `Env` and specs: `ownership` has no
hand-back and no deletion by the server, `gate` registers all task queues at once, `converge` has no gate. What the
passing properties say of the sunset, `SunsetRespectsDelays` and `OnlyUnusedLoseWorkers`, is what code and docs agree on: nothing is deleted
before `deleteDelay` has passed since the drainage.
More observations are in the hazards without a run of their own:

* A task queue that registers after the gate was read has no gate workflow when its version is promoted
  (put `latequeue` into `Env` of `gate`); those that were read have (`KnownQueuesPassTheGate`).
* A version that was replaced before it received traffic is scaled to zero but never deleted.
* A target that had been scaled to zero is Available, so that the plan that scales it up also makes it current, before a
  worker runs.
* A client made from an API key is never replaced: the callback at clientpool.go:177 returns the key of the
  Secret as it was. Two Kubernetes namespaces that share host, Temporal namespace and Secret name share a client
  (`NamespacesApart` excludes it).
* `updateDeploymentWithConnection` updates the annotation but not `TEMPORAL_API_KEY`, nor what a change between
  mTLS, API key and no credentials would add or remove; the pods keep the old credentials until they are rebuilt.
  The annotation's hash is of host and Secret name without a separator, so that hosts must not be
  prefixes of each other for it to tell connections apart (in `inputs` they are not).
* `docs/configuration.md:244` asks for Secrets of type `kubernetes.io/opaque`; the code compares with
  `corev1.SecretTypeOpaque`, which is `Opaque` and what Kubernetes gives a Secret without a type.

**Fairness.** The progress runs use the fairness of `FairSpec`. Weak fairness of `ReconcileStep`: `Reconcile` requeues itself
after every return, so that a step it can take is eventually taken. Weak fairness of the
environment: pods start, workers poll, workflows and gates close, drainage ends, watch events arrive, time passes.
Nothing makes users or people act. Failing calls are bounded by `MaxFaults` in these
runs, instead of an assumption on how often they succeed; unlimited failures would prevent progress
of any controller. `client_pool` assumes strong fairness of each TWD's `Progress`: its step may be disabled and
enabled again while others hold the lock, and Go's RWMutex does not starve a waiting goroutine; the
work queue serves its objects in order, and timers fire. Watch events arrive and are handled, and time passes, weakly fairly.

**Mutants.** For every property of a passing run a definition `X_Y` next to a definition `X` is that
definition with a plausible bug: the pause, or the delay before the scale-down, compared with `>=`,
deletion on a transient NotFound, a conflict token that is not sent or is read
again, ownership ignored, the gate count dropped, one version too many, an annotation not
updated, a ramp not reset; a map that is never locked, a client stored or looked up under a key without the Secret, the
first client kept, an expiry without the buffer, a watch that maps a connection to the TWD of its own name; separators
not trimmed, the hash truncated away, a Secret not marked as one, a hash of the host alone. Replacing `X` by it violates the property in its run.

## 4. What is proved

Every safety property of the passing runs is a theorem. What they assume of the constants: their types; that
`Nil` is no build, number, record or string it stands in for; that the builds and task queues are finite sets
(`FiniteAssumption`: they are lists of the cluster and of the server); that the limit of versions is an integer
(`LimitAssumption`); that a hash is one of the two alphanumeric characters of the model and a label has room for it, a dash and another
character (`HashAssumption`; the code has hashes of four or ten digits and labels of 63 characters). A theorem that needs more of the surroundings says so as a hypothesis; the table below lists them.

`ControllerProofs` proves, for all builds, task queues, specs, environments and bounds:

* `TypeCorrect`: `Spec => []TypeOK`. One step per action, over lemmas for the planner's results
  (`StepIndexType`: the step index names a step whatever the percentage, because it is the
  cardinality of a prefix of `1 .. Len(steps)`; `ProgressiveType`, `VersionConfigType`, `GeneratePlanType`),
  the state read from Temporal (`DescribeType`, `TestWorkflowType`, `AgeStateType`), the server's changes
  (`RoutingType`, `ServerStepType`, ...) and the calls on Deployments (`KubeCallType`).
* `TokenInvariant`: `Spec => []TokenInv`, with `TypeOK` as the other half of the induction.
* `NoUpdateIsLost`: `Spec => NoLostUpdate`. NoLostUpdate is not inductive: when the controller's call reaches the
  server it needs to know that equal tokens mean equal routing configs. `TokenInv` supplies it: the token in Reconcile's state is
  never ahead of the server's; if they are equal, current version, ramping version and percentage are those
  it read; a state without a token knows no version, so that no plan for the routing config comes of
  it (`UnknownIsNotRouted`); and the plan carries that token. Every change of the routing
  config increments the token (`SetCurrentType`, `SetRampingType`), every other step leaves all
  four fields alone (`ServerStepType`, `TimeType`), and only `ExecVersionConfig` makes the controller the
  last modifier of a new config (`OnlyExecRoutes`).

`RegisterProofs` proves `RegisterRefinement`: `Spec => ImplementsRegister`. The initial states map to those of the
register, and every step maps to one of its steps or a stutter: Describe is `Observe` (`DescribeObserves`), every return
`Forget` (`ReturnForgets`), `ExecVersionConfig` is `OwnWrite`, which needs `TokenInv` at the moment of the call
(`ExecuteImplements`), people and the server are `OtherWrite` (`OthersChange`), all else stutters.

`RoutingProofs` is about what the controller does to the routing config. It rests on three descriptions of a
step by anybody: `RoutingMoves` (what happens to the routing config and its token), `VersionsMove` (what happens to the drainage,
age, task queues and pinned workflows of a version) and `ReconcileMoves` (what happens to Reconcile's own state).

* `RampFollowsSteps`: `Spec => RampStepsRespected`, without a hypothesis. The inductive invariant `RampInv` says that the age of the ramp in
  Reconcile's state is the server's while the tokens agree, and that a planned change of the ramp is one the steps
  allow as the ramp is now, as long as its token is good (`RampAllowed`). What was allowed stays allowed, because
  the ramp only gets older under the same token (`RampHolds`). `StepReached` and `ProgressiveMove` say what
  `getCurrentStepIndex` and `handleProgressiveRollout` return for any number of steps.
* `PeopleAreNotClobbered`: `... => NoClobber`. `OwnerInv` relates the history variable `owner`, the last modifier on
  the server, the one Reconcile read, and the plan: a change is planned only from a state whose last modifier is not a person.
* `KnownQueuesPassTheGate`: `Spec => KnownQueuesGated`, without a hypothesis: every task queue that was read has passed the gate at the moment of
  the promotion, and one was read. `GateInv` follows the gate workflows from the server through `GetTestWorkflowStatus` to the
  plan: what was read as completed is completed, workflows are read only of known task queues, and behind a gate a change is
  planned only when all of these completed. That `GatePassed` compares numbers of workflows and task queues instead
  of the sets needs the finiteness of the task queues (`PassedIsCompleted`).
* `GateComesFirst`: `... => GateBeforeTraffic`. Where the task queues of a version register together, the ones that were read are all (the
  last part of each conjunct of `GateInv`).

`SunsetProofs` is about the workers. `DeploymentsMove` describes a step's effect on the Deployment of a version. The
inductive invariants, each resting on the ones before it and on `TypeOK`, `TokenInv` and `RampInv`:

* `ServerInv`: a version that is routed to is not draining, what is pinned is routed to or draining;
* `TruthInv`: until it executes its plan, what Reconcile read of the versions other than its target holds: one it takes for never used is unused, one
  it takes for drained has been so at least as long as it thinks (`DescribeIsTruthful`, `TruthKept`);
* `TakeInv`: what is left of the plan takes workers only from versions other than the target that are unused and have been so for their
  delays. None of these three looks at the list of Deployments, so that they hold with any cache;
* `ListInv`, with an up-to-date cache: the Deployments in the list are those that exist;
* `PlanInv`, with an up-to-date cache: what is routed to or draining has workers, and the plan routes only to a version that has
  workers or will get them before (`PlanningIsSafe`, `PlanKept`: the order of the calls matters);
* `LimitInv`: while a Deployment is still to be created, fewer than the limit of the others have not drained.

People may interfere: `PeopleRouteToWorkers` says of a step of theirs that it sends executions only to versions
that get some already or still have open ones, or to versions with workers; once a Reconcile under way has read the versions, the latter must
be its target. So people may promote a new version at any time, as the Manual strategy leaves it to them, and go back to an old one
between two Reconciles. The theorems have `[][PeopleRouteToWorkers]_vars` as a hypothesis, for any
number of changes and between any two calls of the controller. A version that is unused and not the target stays unused until the plan is
executed (`UnusedKept`), which is all that the plan relies on.

From the first three follows `StaleCacheSparesWork` (`... => OnlyUnusedLoseWorkers`), from all of them `RunningWorkKeepsWorkers`
(`... => []VersionsInUseHaveWorkers`), `DelaysAreRespected` (`... => SunsetRespectsDelays`, at the moment of the call and not only when
it was planned) and, with `AloneInv` (the token that was read is the server's), `NoVersionTooMany` (`... => CreationRespectsLimit`).

The hypotheses, and why they cannot be dropped:

| theorem | hypothesis | without it |
|---|---|---|
| `PeopleAreNotClobbered` | nobody hands back (`handback`) | run `flag_left_behind` |
| | the server deletes no version (`serverdelete`) | run `server_delete` |
| `GateComesFirst` | the task queues of a version register together (no `latequeue`) | a queue that registers after the gate was read has no workflow |
| `StaleCacheSparesWork`, `RunningWorkKeepsWorkers`, `DelaysAreRespected` | people route only to workers (`PeopleRouteToWorkers`) | a person routes to a version that has no workers, or that a plan under way is about to scale down |
| | every spec asks for replicas | the user asked for no workers |
| the latter two | the cache is up to date (no `lag`) | a target that was scaled to zero still has replicas in the cache, is not scaled up and becomes current; a version that was scaled up since is deleted as one with no replicas |
| `NoVersionTooMany` | nobody else routes (`MaxHuman = 0`), no `lag` | the versions are counted on a list, or for a current version, that is not the one of the moment |
| | the server deletes no version | a version that was eligible for deletion is deleted, registers again and counts |

Apart from the specs without replicas, TLC shows a counterexample for each on the specs of `MCController` (put the name into `Env`, or
set `MaxHuman` to 1 or 2, in `rollout` or `gate`; the deletion under a stale cache takes four edits). With
`Next /\ PeopleRouteToWorkers` as the next-state relation, `rollout` holds with a change by a person, too (2 edits).

`PoolProofs` and `ClientProofs` prove, for any number of TWDs, connections, Secrets and namespaces:

* `PoolTypeCorrect`: `Spec => []TypeOK`, which includes that a `Reconcile` has a request, and a client, exactly where it should.
* `LockedStoresDoNotRace`: `Spec => []OnlyUnlockedStoresRace`. The inductive invariant is `LockInv`: the readers of the lock are
  those who read the map, its writer is the one who writes with the lock, and a writer excludes readers. The
  property alone is not inductive, since it does not mention the lock.
* `CredentialsAreOwn`: `Spec => []OwnCredentials`. The inductive invariant `CredentialsInv` says of every client in the
  map that it fits its key, and of every client being made that it fits the request; under `NamespacesApart` a key determines the
  Kubernetes namespace.
* `ChangesAreQueued`: `Spec => []ConnectionChangeQueued`: a TWD whose connection is not the one it used last is queued, or a change or an event is
  still on its way. This is not inductive, since the last change to arrive may be seen by one cache before the other. The inductive invariant `WatchInv`
  says it of what the caches hold: a TWD that used something else than the caches show is queued, or has an event of its own, or the connection that the
  cache says it refers to has one. It is this one that `findTWDsUsingConnection` over a stale list keeps: a TWD that the list misses has its
  own event, which comes with the list's change.
* `CertificatesAreValid`: `Spec => CertificateValid`. `CertificateInv`: what is left of the certificate of a client being made and
  the time its making has taken add up to at least the buffer.
* `ClientsAreBounded`: `Spec => []ClientsPerKeyBounded`. `BoundInv` counts, for a key that has a usable client, the clients stored and the
  Reconciles that looked before and will still store one: together they stay within the limit of concurrent Reconciles.

`InputsProofs` proves `GateGetsItsInput` (`InputSpec => []GateInputResolved`), with the lemma that the two validations of a gate accept
the same gates, and `PodsConnect` (`InputSpec => []UpToDatePodsConnect`). For the latter `PodInv` remembers the connection that the pods were last
brought up to; `HashTells` says that the hash, two strings without a separator, tells connections apart when the hosts
are equally long, for strings of any length.

`BuildIDProofs` proves, for texts and base names of any length and any limit of the length of a label:

* `HashesTellSpecsApart`: two specs without a custom build ID whose templates have different hashes have different build IDs and
  different Deployment names, whatever their images are. Both end with the digit of the hash: `Suffix` and `Hashed` follow it through
  truncation and cleaning, `NameEnds` into the name.
* `BuildIDsAreReadBack` (`InputSpec => []BuildIDReadBack`) and `TemplatesAreToldApart` (`InputSpec => []DistinctTemplates`). The inductive
  invariant `WorkerOK` says what the user's edits leave the spec as: texts, and a custom build ID that the CRD allows.

There is no induction over strings in these: `ReplaceRuns` is a function of positions (the k-th character that is kept), and that the k-th
exists and the last one is kept follows from counting (`Ranks`, `Replaced`); `Trim` cuts at the least and the greatest position of
a character to keep (`LeastElement`, `GreatestElement`, `Trimmed`).

Only model-checked: the progress properties (`Converges`, `RollbackResetsRamp`, `HandBackResumes`, `RenewedCertificateUsed`);
liveness under fairness is beyond the prover.

## 5. Not modelled

The parsing of image references and the hashing itself; SHA-256, taken to be injective; the handling of PEM and TLS; deletion of
the TWD, after which Kubernetes collects the Deployments; a failing `List` in `findTWDsUsingConnection`; the
defaulting of the spec (`Default`), whose values the specs of the model carry already; conditions, events and logging of
the status; generated deep copies; the process entry point, the demo, the Helm charts and the tests.

## 6. Plan

1. Done: planner, state mapper, cluster, server, reconciler; the type invariant and the conflict token proved.
2. Done: the client pool and the watches, checked and proved; the routing config as an abstract register and the
   refinement, checked and proved; build IDs, gate inputs and the connection of the pods as pure functions.
3. Done: the safety properties proved, with the invariants they need.
4. Done: build IDs and names proved; people who route between the calls, a stale cache and late task queues in the theorems
   instead of excluded from them.
5. Left: `GateBeforeTraffic` from a condition on when task queues register, in place of all at once; which versions keep
   workers under a stale cache (the target may not); the API key as something that changes in `ReconcileQueue`.
