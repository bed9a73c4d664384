--------------------------- MODULE TemporalServer ---------------------------
(***************************************************************************)
(* The Temporal side of one Worker Deployment: its routing config with the  *)
(* conflict token, its versions and their drainage, the gate workflows      *)
(* (external: modelled from how internal/temporal and internal/controller   *)
(* call the SDK), and the two functions of internal/temporal that read it.  *)
(*                                                                         *)
(* Time.  Two points in time matter, the last change of the ramp and the    *)
(* end of a version's drainage.  Both are kept as ages that TimePasses      *)
(* increments up to AgeCap, a bound above every delay of the specs.         *)
(***************************************************************************)
EXTENDS Vocabulary

CONSTANT
  AgeCap        \* ages stop growing here

ASSUME AgeCapAssumption == AgeCap \in Nat

VARIABLES
  routing,      \* the routing config, its conflict token and last modifier
  vers,         \* [Builds -> what the server keeps of the version]
  gates         \* [Builds -> [TaskQueues -> gate workflow status or Nil]]

serverVars == <<routing, vers, gates>>

\* Values of LastModifierIdentity; Nil is the empty string of a new deployment.
Controller     == "controller"                  \* getControllerIdentity()
ServerDeletion == "try-delete-for-add-version"  \* serverDeleteVersionIdentity
Human          == "human"                       \* anybody else
Identities     == {Controller, ServerDeletion, Human}

\* mapWorkflowStatus: the planner tells Completed and not started apart from
\* the rest, so that Canceled, Terminated and TimedOut are Failed here.
WorkflowStatuses == {"Running", "Completed", "Failed"}

RoutingConfig ==
  [current : Builds \cup {Nil}, ramping : Builds \cup {Nil}, pct : Nat,
   rampAge : Nat, token : Nat, lastMod : Identities \cup {Nil}]

\* tqs: task queues that registered (none: the version is not registered);
\* age: time since the drainage ended; ignore: the ignore-last-modifier
\* metadata; pinned: some workflow pinned to the version is open.
Version ==
  [tqs : SUBSET TaskQueues, drain : {"None", "Draining", "Drained"},
   age : Nat, ignore : BOOLEAN, pinned : BOOLEAN]

ServerTypeOK ==
  /\ routing \in RoutingConfig
  /\ vers \in [Builds -> Version]
  /\ gates \in [Builds -> [TaskQueues -> WorkflowStatuses \cup {Nil}]]

ServerInit ==
  /\ routing = [current |-> Nil, ramping |-> Nil, pct |-> 0, rampAge |-> 0,
                token |-> 0, lastMod |-> Nil]
  /\ vers = [b \in Builds |-> [tqs |-> {}, drain |-> "None", age |-> 0,
                               ignore |-> FALSE, pinned |-> FALSE]]
  /\ gates = [b \in Builds |-> [q \in TaskQueues |-> Nil]]

Registered(b) == vers[b].tqs # {}
Routed(b)     == b \in {routing.current, routing.ramping}
Older(age)    == IF age < AgeCap THEN age + 1 ELSE age

----------------------------------------------------------------------------
(* Changes of the routing config.  A version that leaves it starts to drain, *)
(* one that enters it stops draining.                                       *)

NewRouting(current, ramping, pct, who) ==
  /\ routing' = [current |-> current, ramping |-> ramping, pct |-> pct,
                 rampAge |-> IF ramping = routing.ramping /\ pct = routing.pct
                             THEN routing.rampAge ELSE 0,
                 token |-> routing.token + 1, lastMod |-> who]
  /\ vers' = [b \in Builds |->
                IF b \in {current, ramping}
                THEN [vers[b] EXCEPT !.drain = "None", !.age = 0]
                ELSE IF Routed(b)
                THEN [vers[b] EXCEPT !.drain = "Draining", !.age = 0]
                ELSE vers[b]]
  /\ UNCHANGED gates

\* b = Nil routes to unversioned workers.  A ramp of b ends.
SetCurrentVersion(b, who) ==
  /\ b # Nil => Registered(b)
  /\ b # routing.current
  /\ IF routing.ramping = b
     THEN NewRouting(b, Nil, 0, who)
     ELSE NewRouting(b, routing.ramping, routing.pct, who)

\* b = Nil removes the ramp.
SetRampingVersion(b, pct, who) ==
  /\ pct \in 0 .. 100
  /\ b # Nil => Registered(b) /\ b # routing.current
  /\ b = Nil => routing.ramping # Nil /\ pct = 0
  /\ NewRouting(routing.current, b, pct, who)

\* Metadata of a version, kept when the version is known.
SetIgnoreLastModifier(b, value) ==
  /\ Registered(b)
  /\ vers' = [vers EXCEPT ![b].ignore = value]
  /\ UNCHANGED <<routing, gates>>

StartGate(b, q) ==
  /\ gates[b][q] = Nil
  /\ gates' = [gates EXCEPT ![b][q] = "Running"]
  /\ UNCHANGED <<routing, vers>>

----------------------------------------------------------------------------
(* What happens on the server by itself *)

\* Workers of b poll the task queues qs, which registers the version.
WorkersPoll(b, qs) ==
  /\ ~(qs \subseteq vers[b].tqs)
  /\ vers' = [vers EXCEPT ![b].tqs = vers[b].tqs \cup qs]
  /\ UNCHANGED <<routing, gates>>

\* A workflow is pinned to a version that receives new executions.
WorkflowStarts(b) ==
  /\ "traffic" \in Env
  /\ Routed(b) /\ ~vers[b].pinned
  /\ vers' = [vers EXCEPT ![b].pinned = TRUE]
  /\ UNCHANGED <<routing, gates>>

WorkflowsClose(b) ==
  /\ vers[b].pinned
  /\ vers' = [vers EXCEPT ![b].pinned = FALSE]
  /\ UNCHANGED <<routing, gates>>

GateCloses(b, q, result) ==
  /\ gates[b][q] = "Running"
  /\ result = "Failed" => "gatefail" \in Env
  /\ gates' = [gates EXCEPT ![b][q] = result]
  /\ UNCHANGED <<routing, vers>>

DrainageEnds(b) ==
  /\ vers[b].drain = "Draining" /\ ~vers[b].pinned
  /\ vers' = [vers EXCEPT ![b].drain = "Drained", ![b].age = 0]
  /\ UNCHANGED <<routing, gates>>

\* To make room for a new version the server deletes a drained version
\* without pollers, under an identity of its own.
ServerDeletes(b) ==
  /\ "serverdelete" \in Env
  /\ vers[b].drain = "Drained" /\ Registered(b)
  /\ vers' = [vers EXCEPT ![b].tqs = {}, ![b].drain = "None", ![b].age = 0,
                          ![b].ignore = FALSE]
  /\ routing' = [routing EXCEPT !.lastMod = ServerDeletion]
  /\ UNCHANGED gates

\* Is there an age that can still grow?
Aging ==
  \/ routing.ramping # Nil /\ routing.rampAge < AgeCap
  \/ \E b \in Builds : vers[b].drain = "Drained" /\ vers[b].age < AgeCap

TimePasses ==
  /\ Aging
  /\ routing' = IF routing.ramping = Nil THEN routing
                ELSE [routing EXCEPT !.rampAge = Older(@)]
  /\ vers' = [b \in Builds |-> IF vers[b].drain = "Drained"
                               THEN [vers[b] EXCEPT !.age = Older(@)]
                               ELSE vers[b]]
  /\ UNCHANGED gates

----------------------------------------------------------------------------
(* internal/temporal/worker_deployment.go: reading the server *)

\* Describe found no such Worker Deployment.
EmptyState ==
  [current |-> Nil, ramping |-> Nil, pct |-> 0, rampAge |-> Nil, token |-> Nil,
   lastMod |-> Nil, ignore |-> FALSE, versions |-> [b \in Builds |-> Nil]]

\* The last modifier is somebody whose change the controller must respect.
ModifiedByOther == routing.lastMod \notin {Nil, Controller}

\* The flag is read from the current version, also where the ramping version
\* is meant.
DeploymentShouldIgnoreLastModifier ==
  routing.current # Nil /\ vers[routing.current].ignore

\* `routingConfig.CurrentVersion.BuildId` of a nil CurrentVersion.
IgnoreLastModifierPanic == routing.current = Nil /\ routing.ramping # Nil

VersionStatus(b) ==
  IF b = routing.current THEN "Current"
  ELSE IF b = routing.ramping THEN "Ramping"
  ELSE IF vers[b].drain = "Draining" THEN "Draining"
  ELSE IF vers[b].drain = "Drained" THEN "Drained"
  ELSE "Inactive"

\* k8s: Deployments listed before; undescribed: drained versions whose
\* DescribeVersion failed until the backoff gave up; gone: the ones it did not
\* find; polled: versions with live pollers, of which any on a task queue of a
\* drained version counts as a poller of that version; unversioned: unversioned pollers
\* were confirmed on every task queue.
GetWorkerDeploymentState(spec, k8s, undescribed, gone, polled, unversioned) ==
  LET Polled(q) == \E c \in polled : q \in vers[c].tqs
      NoPollers(b) == /\ k8s[b] = Nil \/ k8s[b].pods = 0
                      /\ \A q \in vers[b].tqs : ~Polled(q)
      Info(b) ==
        [status      |-> IF b \in gone THEN "NotRegistered" ELSE VersionStatus(b),
         drainedAge  |-> IF VersionStatus(b) = "Drained" /\ b \notin undescribed \cup gone
                         THEN vers[b].age ELSE Nil,
         noPollers   |-> /\ VersionStatus(b) = "Drained"
                         /\ b \notin undescribed \cup gone
                         /\ NoPollers(b),
         unversioned |-> /\ unversioned
                         /\ VersionStatus(b) = "Inactive" /\ b = spec.build
                         /\ routing.current = Nil /\ spec.strategy = "Progressive",
         tqs         |-> {},
         tests       |-> [q \in TaskQueues |-> Nil]]
  IN  [current  |-> routing.current,
       ramping  |-> routing.ramping,
       pct      |-> routing.pct,
       rampAge  |-> IF routing.ramping = Nil THEN Nil ELSE routing.rampAge,
       token    |-> routing.token,
       lastMod  |-> routing.lastMod,
       ignore   |-> ModifiedByOther /\ DeploymentShouldIgnoreLastModifier,
       versions |-> [b \in Builds |-> IF Registered(b) THEN Info(b) ELSE Nil]]

\* Task queues and gate workflows of the target, unless it is current.  A call
\* that fails on the way leaves the task queues listed so far and no workflow.
GetTestWorkflowStatus(ts, b, tqs, ok) ==
  [ts EXCEPT !.versions = [ts.versions EXCEPT ![b] =
     [ts.versions[b] EXCEPT
        !.tqs = tqs,
        !.tests = [q \in TaskQueues |-> IF ok /\ q \in tqs THEN gates[b][q] ELSE Nil]]]]

\* The ages of a state read earlier, as the clock goes on.
AgeState(ts) ==
  [ts EXCEPT
     !.rampAge  = IF @ = Nil THEN Nil ELSE Older(@),
     !.versions = [b \in Builds |->
        IF ts.versions[b] = Nil THEN Nil
        ELSE [ts.versions[b] EXCEPT !.drainedAge = IF @ = Nil THEN Nil ELSE Older(@)]]]
=============================================================================
