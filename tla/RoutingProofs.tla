--------------------------- MODULE RoutingProofs ---------------------------
(***************************************************************************)
(* Proofs about what the controller writes to the routing config, for all   *)
(* builds, task queues, specs, people and failures: a ramp follows the      *)
(* steps of the rollout, a gate comes before traffic, and a change of       *)
(* somebody else is not overwritten.                                        *)
(***************************************************************************)
EXTENDS ControllerProofs

----------------------------------------------------------------------------
(* What a step does to the routing config and to Reconcile *)

\* A new routing config, field by field.
LEMMA NewRoutingFields ==
  ASSUME NEW c, NEW r, NEW pct, NEW who, NewRouting(c, r, pct, who)
  PROVE  /\ routing'.current = c /\ routing'.ramping = r /\ routing'.pct = pct
         /\ routing'.token = routing.token + 1 /\ routing'.lastMod = who
         /\ gates' = gates
<1> DEFINE rampAge == IF r = routing.ramping /\ pct = routing.pct THEN routing.rampAge ELSE 0
<1>1. routing' = [current |-> c, ramping |-> r, pct |-> pct, rampAge |-> rampAge,
                  token |-> routing.token + 1, lastMod |-> who]
  BY DEF NewRouting
<1>2. gates' = gates
  BY DEF NewRouting
<1> HIDE DEF rampAge
<1> QED
  BY <1>1, <1>2

\* The last modifier and the ramp move on only with the token, but for the clock
\* and the server's own deletions.
Moves ==
  \/ routing'.token = routing.token + 1
  \/ /\ RoutingKept
     /\ routing'.rampAge \in Nat /\ routing'.rampAge >= routing.rampAge
     /\ ~Tick => routing'.rampAge = routing.rampAge
     /\ "serverdelete" \notin Env => routing'.lastMod = routing.lastMod

\* Every step moves the routing config so.
LEMMA RoutingMoves ==
  ASSUME TypeOK, [Next]_vars
  PROVE  Moves
<1>0. routing \in RoutingConfig /\ routing.rampAge \in Nat
  BY DEF TypeOK, ServerTypeOK, RoutingConfig
<1>1. CASE routing' = routing
  BY <1>0, <1>1 DEF Moves, RoutingKept
<1>2. ASSUME NEW b, ServerDeletes(b)
      PROVE  Moves
  <2>1. routing' = [routing EXCEPT !.lastMod = ServerDeletion] /\ "serverdelete" \in Env
    BY <1>2 DEF ServerDeletes
  <2>2. RoutingKept /\ routing'.rampAge = routing.rampAge
    BY <1>0, <2>1 DEF RoutingConfig, RoutingKept
  <2> QED
    BY <1>0, <2>1, <2>2 DEF Moves
<1>3. ASSUME NEW b, NEW pct, NEW who, SetCurrentVersion(b, who) \/ SetRampingVersion(b, pct, who)
      PROVE  Moves
  BY <1>3, NewRoutingFields DEF SetCurrentVersion, SetRampingVersion, Moves
<1>4. CASE Tick
  <2>1. RoutingKept
    BY <1>4, TimeType DEF Tick, TypeOK, RoutingKept
  <2>2. TimePasses
    BY <1>4 DEF Tick
  <2>3. CASE routing.ramping = Nil
    BY <1>1, <2>2, <2>3 DEF TimePasses
  <2>4. CASE routing.ramping # Nil
    <3>1. routing' = [routing EXCEPT !.rampAge = Older(routing.rampAge)]
      BY <2>2, <2>4 DEF TimePasses
    <3>2. routing'.rampAge = Older(routing.rampAge) /\ routing'.lastMod = routing.lastMod
      BY <1>0, <3>1 DEF RoutingConfig
    <3> QED
      BY <1>0, <1>4, <2>1, <3>2 DEF Moves, Older
  <2> QED
    BY <2>3, <2>4
<1>5. CASE ReconcileStep
  BY <1>1, <1>2, <1>3, <1>5
     DEF ReconcileStep, Reconcile, DescribeNotFound, DescribeFound, DescribeDegraded,
         DescribeGone, generateStatus, generateStatusDegraded, generatePlan, ExecCreate,
         ExecScale, ExecUpdate, ExecStartGate, ExecVersionConfig, ExecStamp, ExecDone,
         ExecDelete, ExecRemoveIgnore, GiveUp, Abort, StartGate, SetIgnoreLastModifier,
         serverVars
<1>6. CASE UserStep
  BY <1>1, <1>3, <1>6
     DEF UserStep, EditSpec, EditConnection, HumanRemovesRamp, HumanSetsCurrent,
         HumanSetsRamp, HumanHandsBack, SetIgnoreLastModifier, serverVars
<1>7. CASE EnvStep
  BY <1>1, <1>2, <1>4, <1>7
     DEF EnvStep, ClusterStep, WorkersRegister, WorkflowStep, GateStep, ServerDeletesVersion,
         WorkersPoll, WorkflowStarts, WorkflowsClose, DrainageEnds, GateCloses, serverVars
<1> QED
  BY <1>1, <1>5, <1>6, <1>7 DEF Next, vars, serverVars

\* What a step may do to what the server keeps of a version: task queues come
\* with pods that poll and go with the version; workflows are pinned while it is
\* routed to; it drains when it leaves the routing config and drained is what
\* stays without pinned workflows; ages grow with the clock.
VersionMoves(b) ==
  LET v == vers[b]
      n == vers'[b]
  IN
  /\ \/ n.tqs = v.tqs
     \/ /\ HasPods(b)
        /\ \E qs \in SUBSET TaskQueues :
             /\ "latequeue" \notin Env => qs = TaskQueues
             /\ n.tqs = v.tqs \cup qs
     \/ /\ "serverdelete" \in Env /\ routing'.token = routing.token
        /\ v.drain = "Drained" /\ n.drain = "None" /\ n.tqs = {}
  /\ n.ignore => v.ignore \/ "handback" \in Env
  /\ n.pinned => v.pinned \/ (Routed(b) /\ UNCHANGED routing /\ n.drain = v.drain)
  /\ IF routing'.token # routing.token
     THEN /\ n.drain = IF Routed(b)' THEN "None" ELSE IF Routed(b) THEN "Draining" ELSE v.drain
          /\ ~Routed(b)' /\ ~Routed(b) => n.age = v.age
     ELSE \/ /\ n.drain = v.drain
             /\ n.age = IF Tick /\ v.drain = "Drained" THEN Older(v.age) ELSE v.age
          \/ v.drain = "Draining" /\ ~v.pinned /\ n.drain = "Drained" /\ n.age = 0
          \/ "serverdelete" \in Env /\ v.drain = "Drained" /\ n.drain = "None"

\* Every step of everybody moves the versions so.
LEMMA VersionsMove ==
  ASSUME TypeOK, [Next]_vars, NEW b \in Builds
  PROVE  VersionMoves(b)
<1>0. /\ vers \in [Builds -> Version] /\ vers[b] \in Version
      /\ routing \in RoutingConfig /\ routing.token \in Nat
  BY DEF TypeOK, ServerTypeOK, RoutingConfig
<1>1. CASE UNCHANGED <<routing, vers>> /\ ~Tick
  BY <1>1 DEF VersionMoves
<1>2. ASSUME NEW c, NEW r, NEW pct, NEW who, NewRouting(c, r, pct, who), ~Tick
      PROVE  VersionMoves(b)
  <2>1. routing'.current = c /\ routing'.ramping = r /\ routing'.token = routing.token + 1
    BY <1>2, NewRoutingFields
  <2>2. vers'[b] = IF b \in {c, r} THEN [vers[b] EXCEPT !.drain = "None", !.age = 0]
                   ELSE IF Routed(b) THEN [vers[b] EXCEPT !.drain = "Draining", !.age = 0]
                   ELSE vers[b]
    BY <1>2 DEF NewRouting
  <2>3. Routed(b)' <=> b \in {c, r}
    BY <2>1 DEF Routed
  <2>4. routing'.token # routing.token
    BY <1>0, <2>1
  <2>5. /\ vers'[b].tqs = vers[b].tqs /\ vers'[b].ignore = vers[b].ignore
        /\ vers'[b].pinned = vers[b].pinned
        /\ vers'[b].drain = IF Routed(b)' THEN "None" ELSE IF Routed(b) THEN "Draining"
                            ELSE vers[b].drain
        /\ ~Routed(b)' /\ ~Routed(b) => vers'[b].age = vers[b].age
    <3>1. CASE Routed(b)'
      BY <1>0, <2>2, <2>3, <3>1 DEF Version
    <3>2. CASE ~Routed(b)' /\ Routed(b)
      BY <1>0, <2>2, <2>3, <3>2 DEF Version
    <3>3. CASE ~Routed(b)' /\ ~Routed(b)
      BY <1>0, <2>2, <2>3, <3>3
    <3> QED
      BY <3>1, <3>2, <3>3
  <2> QED
    BY <2>4, <2>5 DEF VersionMoves
<1>3. ASSUME NEW c, NEW new, vers' = [vers EXCEPT ![c] = new], c # b,
             routing' = routing, ~Tick
      PROVE  VersionMoves(b)
  <2>1. vers'[b] = vers[b]
    BY <1>0, <1>3
  <2> QED
    BY <1>3, <2>1 DEF VersionMoves
<1>4. ASSUME NEW value \in BOOLEAN, SetIgnoreLastModifier(b, value), value => "handback" \in Env,
             ~Tick
      PROVE  VersionMoves(b)
  <2>1. vers'[b] = [vers[b] EXCEPT !.ignore = value] /\ routing' = routing
    BY <1>0, <1>4 DEF SetIgnoreLastModifier
  <2> QED
    BY <1>0, <1>4, <2>1 DEF VersionMoves, Version
<1>5. ASSUME NEW qs \in SUBSET TaskQueues, "latequeue" \notin Env => qs = TaskQueues,
             HasPods(b), WorkersPoll(b, qs), ~Tick
      PROVE  VersionMoves(b)
  <2>1. vers'[b] = [vers[b] EXCEPT !.tqs = vers[b].tqs \cup qs] /\ routing' = routing
    BY <1>0, <1>5 DEF WorkersPoll
  <2>2. /\ vers'[b].tqs = vers[b].tqs \cup qs /\ vers'[b].drain = vers[b].drain
        /\ vers'[b].age = vers[b].age /\ vers'[b].pinned = vers[b].pinned
        /\ vers'[b].ignore = vers[b].ignore
    BY <1>0, <2>1 DEF Version
  <2> QED
    BY <1>5, <2>1, <2>2 DEF VersionMoves
<1>6. ASSUME WorkflowStarts(b), ~Tick
      PROVE  VersionMoves(b)
  <2>1. vers'[b] = [vers[b] EXCEPT !.pinned = TRUE] /\ routing' = routing /\ Routed(b)
    BY <1>0, <1>6 DEF WorkflowStarts
  <2> QED
    BY <1>0, <1>6, <2>1 DEF VersionMoves, Version
<1>7. ASSUME WorkflowsClose(b), ~Tick
      PROVE  VersionMoves(b)
  <2>1. vers'[b] = [vers[b] EXCEPT !.pinned = FALSE] /\ routing' = routing
    BY <1>0, <1>7 DEF WorkflowsClose
  <2> QED
    BY <1>0, <1>7, <2>1 DEF VersionMoves, Version
<1>8. ASSUME DrainageEnds(b), ~Tick
      PROVE  VersionMoves(b)
  <2>1. /\ vers'[b] = [vers[b] EXCEPT !.drain = "Drained", !.age = 0] /\ routing' = routing
        /\ vers[b].drain = "Draining" /\ ~vers[b].pinned
    BY <1>0, <1>8 DEF DrainageEnds
  <2> QED
    BY <1>0, <1>8, <2>1 DEF VersionMoves, Version
<1>9. ASSUME NEW c \in Builds, ServerDeletes(c), ~Tick
      PROVE  VersionMoves(b)
  <2>1. /\ vers' = [vers EXCEPT ![c] = [vers[c] EXCEPT !.tqs = {}, !.drain = "None", !.age = 0,
                                                       !.ignore = FALSE]]
        /\ routing' = [routing EXCEPT !.lastMod = ServerDeletion]
        /\ "serverdelete" \in Env /\ vers[c].drain = "Drained"
    BY <1>0, <1>9 DEF ServerDeletes
  <2>2. routing'.token = routing.token
    BY <1>0, <2>1 DEF RoutingConfig
  <2>3. CASE c = b
    <3>1. vers'[b] = [vers[b] EXCEPT !.tqs = {}, !.drain = "None", !.age = 0, !.ignore = FALSE]
      BY <1>0, <2>1, <2>3
    <3>2. /\ vers'[b].tqs = {} /\ vers'[b].drain = "None" /\ ~vers'[b].ignore
          /\ vers'[b].pinned = vers[b].pinned
      BY <1>0, <3>1 DEF Version
    <3> QED
      BY <2>1, <2>2, <2>3, <3>2 DEF VersionMoves
  <2>4. CASE c # b
    <3>1. vers'[b] = vers[b]
      BY <1>0, <2>1, <2>4
    <3> QED
      BY <1>9, <2>2, <3>1 DEF VersionMoves
  <2> QED
    BY <2>3, <2>4
<1>10. CASE Tick
  <2>1. /\ vers'[b] = IF vers[b].drain = "Drained" THEN [vers[b] EXCEPT !.age = Older(@)]
                      ELSE vers[b]
        /\ routing'.token = routing.token
    BY <1>10, TimeType DEF Tick, TimePasses, TypeOK
  <2>2. /\ vers'[b].tqs = vers[b].tqs /\ vers'[b].ignore = vers[b].ignore
        /\ vers'[b].pinned = vers[b].pinned /\ vers'[b].drain = vers[b].drain
        /\ vers'[b].age = IF vers[b].drain = "Drained" THEN Older(vers[b].age) ELSE vers[b].age
    BY <1>0, <2>1 DEF Version
  <2> QED
    BY <1>10, <2>1, <2>2 DEF VersionMoves
<1>11. ASSUME NEW c \in Builds, ~Tick,
              \/ SetIgnoreLastModifier(c, FALSE)
              \/ SetIgnoreLastModifier(c, TRUE) /\ "handback" \in Env
              \/ WorkflowStarts(c) \/ WorkflowsClose(c) \/ DrainageEnds(c)
              \/ /\ HasPods(c)
                 /\ \E qs \in SUBSET TaskQueues :
                      ("latequeue" \notin Env => qs = TaskQueues) /\ WorkersPoll(c, qs)
       PROVE  VersionMoves(b)
  <2>1. CASE c = b
    BY <1>4, <1>5, <1>6, <1>7, <1>8, <1>11, <2>1
  <2>2. CASE c # b
    <3>1. routing' = routing /\ \E new : vers' = [vers EXCEPT ![c] = new]
      BY <1>11 DEF SetIgnoreLastModifier, WorkflowStarts, WorkflowsClose, DrainageEnds, WorkersPoll
    <3> QED
      BY <1>3, <1>11, <2>2, <3>1
  <2> QED
    BY <2>1, <2>2
<1>12. CASE ReconcileStep /\ ~Tick
  <2>1. CASE ExecVersionConfig
    BY <1>2, <1>12, <2>1 DEF ExecVersionConfig, SetCurrentVersion, SetRampingVersion
  <2>2. ASSUME NEW c \in Builds, DescribeGone(c) \/ ExecRemoveIgnore(c)
        PROVE  VersionMoves(b)
    BY <1>9, <1>11, <1>12, <2>2 DEF DescribeGone, ExecRemoveIgnore
  <2> QED
    BY <1>1, <1>12, <2>1, <2>2
       DEF ReconcileStep, Reconcile, DescribeNotFound, DescribeFound, DescribeDegraded,
           generateStatus, generateStatusDegraded, generatePlan, ExecCreate, ExecScale,
           ExecUpdate, ExecStartGate, ExecStamp, ExecDone, ExecDelete, GiveUp, Abort,
           StartGate, serverVars
<1>13. CASE UserStep /\ ~Tick
  <2>1. ASSUME NEW c, NEW pct, SetCurrentVersion(c, Human) \/ SetRampingVersion(c, pct, Human)
        PROVE  VersionMoves(b)
    BY <1>2, <1>13, <2>1 DEF SetCurrentVersion, SetRampingVersion
  <2> QED
    BY <1>1, <1>11, <1>13, <2>1
       DEF UserStep, EditSpec, EditConnection, HumanRemovesRamp, HumanSetsCurrent,
           HumanSetsRamp, HumanHandsBack, serverVars
<1>14. CASE EnvStep /\ ~Tick
  BY <1>1, <1>9, <1>11, <1>14
     DEF EnvStep, ClusterStep, WorkersRegister, WorkflowStep, GateStep, GateCloses,
         ServerDeletesVersion, serverVars
<1>15. CASE UNCHANGED vars /\ ~Tick
  BY <1>1, <1>15 DEF vars, serverVars
<1> QED
  BY <1>10, <1>12, <1>13, <1>14, <1>15 DEF Next

\* A call of executePlan.
ExecStep ==
  \/ ExecCreate \/ ExecScale \/ ExecUpdate \/ ExecStartGate \/ ExecVersionConfig \/ ExecStamp
  \/ \E b \in Builds : ExecDelete(b) \/ ExecRemoveIgnore(b)

\* It is done with the spec and the Temporal state that were planned from, and
\* the version config is executed once.
LEMMA ExecKeeps ==
  ASSUME TypeOK, ExecStep
  PROVE  /\ pc = "exec" /\ UNCHANGED <<pc, w, wconn, ts>>
         /\ plan \in Plan /\ plan' \in Plan
         /\ IF ExecVersionConfig THEN plan.vcfg # Nil /\ plan'.vcfg = Nil
                                 ELSE plan'.vcfg = plan.vcfg
<1>1. pc = "exec"
  BY DEF ExecStep, ExecCreate, ExecScale, ExecUpdate, ExecStartGate, ExecVersionConfig,
         ExecStamp, ExecDelete, ExecRemoveIgnore, AtCreate, AtDelete, AtScale, AtUpdate,
         AtStart, AtConfig, AtStamp, AtRemove
<1>2. UNCHANGED <<pc, w, wconn, ts>>
  BY DEF ExecStep, ExecCreate, ExecScale, ExecUpdate, ExecStartGate, ExecVersionConfig,
         ExecStamp, ExecDelete, ExecRemoveIgnore, execVars
<1>3. plan \in Plan
  BY <1>1 DEF TypeOK, RecTypeOK
<1>4. CASE ExecVersionConfig
  <2>1. plan' = [plan EXCEPT !.vcfg = Nil] /\ plan.vcfg # Nil
    BY <1>4 DEF ExecVersionConfig
  <2>2. plan' \in Plan
    BY <1>3, <2>1, PlanLeft
  <2> QED
    BY <1>1, <1>2, <1>3, <1>4, <2>1, <2>2 DEF Plan
<1>5. CASE ~ExecVersionConfig
  <2>1. plan'.vcfg = plan.vcfg
    BY <1>3, <1>5 DEF ExecStep, ExecCreate, ExecScale, ExecUpdate, ExecStartGate, ExecStamp,
                      ExecDelete, ExecRemoveIgnore, Plan
  <2>2. plan' \in Plan
    BY <1>3, <1>5, PlanLeft
       DEF ExecStep, ExecCreate, ExecScale, ExecUpdate, ExecStartGate, ExecStamp, ExecDelete,
           ExecRemoveIgnore
  <2> QED
    BY <1>1, <1>2, <1>3, <1>5, <2>1, <2>2
<1> QED
  BY <1>4, <1>5

\* The phases of Reconcile, with what a step can do in them.
LEMMA ReconcileMoves ==
  ASSUME TypeOK, [Next]_vars
  PROVE  \/ pc' \in {"idle", "describe"}
         \/ DescribeNotFound \/ DescribeFound \/ DescribeDegraded
         \/ \E b \in Builds : DescribeGone(b)
         \/ generateStatus \/ generateStatusDegraded \/ generatePlan
         \/ ExecStep
         \/ Tick
         \/ UNCHANGED recVars
<1>1. CASE ReconcileStep
  BY <1>1 DEF ReconcileStep, Reconcile, ExecDone, GiveUp, Abort, Return, ExecStep
<1>2. CASE UserStep
  BY <1>2 DEF UserStep, EditSpec, EditConnection, HumanRemovesRamp, HumanSetsCurrent,
              HumanSetsRamp, HumanHandsBack, HumanChange
<1>3. CASE EnvStep
  BY <1>3 DEF EnvStep, ClusterStep, WorkersRegister, WorkflowStep, GateStep,
              ServerDeletesVersion
<1> QED
  BY <1>1, <1>2, <1>3 DEF Next, vars

----------------------------------------------------------------------------
(* What Reconcile reads *)

\* What Describe copies besides the routing config itself.
LEMMA DescribeReads ==
  ASSUME ServerTypeOK, NEW spec, NEW d, NEW undescribed, NEW gone, NEW polled,
         NEW unversioned \in BOOLEAN
  PROVE  LET r == GetWorkerDeploymentState(spec, d, undescribed, gone, polled, unversioned)
         IN  /\ r.rampAge = (IF routing.ramping = Nil THEN Nil ELSE routing.rampAge)
             /\ r.lastMod = routing.lastMod
             /\ r.ignore => DeploymentShouldIgnoreLastModifier
             /\ \A b \in Builds :
                  /\ r.versions[b] = Nil => ~Registered(b)
                  /\ r.versions[b] # Nil =>
                       /\ Registered(b)
                       /\ r.versions[b].tqs = {}
                       /\ \A q \in TaskQueues : r.versions[b].tests[q] = Nil
<1> DEFINE r == GetWorkerDeploymentState(spec, d, undescribed, gone, polled, unversioned)
<1>1. /\ r.rampAge = (IF routing.ramping = Nil THEN Nil ELSE routing.rampAge)
      /\ r.lastMod = routing.lastMod
      /\ r.ignore => DeploymentShouldIgnoreLastModifier
  BY DEF GetWorkerDeploymentState
<1>2. ASSUME NEW b \in Builds, Registered(b)
      PROVE  /\ r.versions[b] # Nil
             /\ r.versions[b].tqs = {}
             /\ \A q \in TaskQueues : r.versions[b].tests[q] = Nil
  <2>1. /\ VersionStatus(b) \in VersionStatuses /\ "NotRegistered" \in VersionStatuses
        /\ [q \in TaskQueues |-> Nil] \in [TaskQueues -> WorkflowStatuses \cup {Nil}]
    BY DEF VersionStatus, VersionStatuses
  <2>2. vers[b].age \in Nat
    <3>1. vers[b] \in Version
      BY DEF ServerTypeOK
    <3> QED
      BY <3>1 DEF Version
  <2>3. r.versions[b] \in VersionInfo
    BY <1>2, <2>1, <2>2 DEF GetWorkerDeploymentState, VersionInfo
  <2> QED
    BY <1>2, <2>3, NilIsNoRecord DEF GetWorkerDeploymentState
<1>3. ASSUME NEW b \in Builds, ~Registered(b)
      PROVE  r.versions[b] = Nil
  BY <1>3 DEF GetWorkerDeploymentState
<1> HIDE DEF r
<1> QED
  BY <1>1, <1>2, <1>3 DEF r

\* What is filled in.
LEMMA FilledIn ==
  ASSUME NEW v \in VersionInfo, NEW tqs, NEW tests
  PROVE  LET i == [v EXCEPT !.tqs = tqs, !.tests = tests]
         IN  /\ i.tqs = tqs /\ i.tests = tests
             /\ i.status = v.status /\ i.drainedAge = v.drainedAge
             /\ i.noPollers = v.noPollers /\ i.unversioned = v.unversioned
BY DEF VersionInfo

\* generateStatus fills in the entry of the target, or leaves the state as it was
\* read.
LEMMA GatesRead ==
  ASSUME TypeOK, generateStatus \/ generateStatusDegraded
  PROVE  /\ pc = "status" /\ pc' = "plan" /\ UNCHANGED <<w, wconn, k8s, kubeVars, serverVars>>
         /\ ts \in TemporalState /\ w.build \in Builds
         /\ ts'.token = ts.token /\ ts'.current = ts.current /\ ts'.ramping = ts.ramping
         /\ ts'.pct = ts.pct /\ ts'.rampAge = ts.rampAge /\ ts'.lastMod = ts.lastMod
         /\ ts'.ignore = ts.ignore
         /\ \A c \in Builds \ {w.build} : ts'.versions[c] = ts.versions[c]
         /\ \/ ts'.versions[w.build] = ts.versions[w.build]
            \/ /\ ts.versions[w.build] # Nil
               /\ \E tqs \in SUBSET TaskQueues, ok \in BOOLEAN :
                    /\ ok => tqs = vers[w.build].tqs
                    /\ ts'.versions[w.build] = [ts.versions[w.build] EXCEPT
                         !.tqs = tqs,
                         !.tests = [q \in TaskQueues |->
                                      IF ok /\ q \in tqs THEN gates[w.build][q] ELSE Nil]]
<1>1. pc = "status" /\ pc' = "plan" /\ UNCHANGED <<w, wconn, k8s, kubeVars, serverVars>>
  BY DEF generateStatus, generateStatusDegraded, serverVars
<1>2. ts \in TemporalState /\ w.build \in Builds /\ vers[w.build].tqs \in SUBSET TaskQueues
  <2>1. ts \in TemporalState /\ w.build \in Builds
    BY <1>1, SpecFields DEF TypeOK, RecTypeOK
  <2>2. vers[w.build] \in Version
    BY <2>1 DEF TypeOK, ServerTypeOK
  <2> QED
    BY <2>1, <2>2 DEF Version
<1>3. CASE ts' = ts
  BY <1>1, <1>2, <1>3
<1>4. ASSUME NEW tqs \in SUBSET TaskQueues, NEW ok \in BOOLEAN, ok => tqs = vers[w.build].tqs,
             ts.versions[w.build] # Nil, ts' = GetTestWorkflowStatus(ts, w.build, tqs, ok)
      PROVE  /\ ts'.token = ts.token /\ ts'.current = ts.current /\ ts'.ramping = ts.ramping
             /\ ts'.pct = ts.pct /\ ts'.rampAge = ts.rampAge /\ ts'.lastMod = ts.lastMod
             /\ ts'.ignore = ts.ignore
             /\ \A c \in Builds \ {w.build} : ts'.versions[c] = ts.versions[c]
             /\ ts'.versions[w.build] = [ts.versions[w.build] EXCEPT
                  !.tqs = tqs,
                  !.tests = [q \in TaskQueues |->
                               IF ok /\ q \in tqs THEN gates[w.build][q] ELSE Nil]]
  <2> DEFINE tests == [q \in TaskQueues |-> IF ok /\ q \in tqs THEN gates[w.build][q] ELSE Nil]
             info  == [ts.versions[w.build] EXCEPT !.tqs = tqs, !.tests = tests]
  <2>1. ts' = [ts EXCEPT !.versions = [ts.versions EXCEPT ![w.build] = info]]
    BY <1>4 DEF GetTestWorkflowStatus
  <2>2. ts.versions \in [Builds -> VersionInfo \cup {Nil}]
    BY <1>2 DEF TemporalState
  <2> HIDE DEF info
  <2>3. /\ ts'.token = ts.token /\ ts'.current = ts.current /\ ts'.ramping = ts.ramping
        /\ ts'.pct = ts.pct /\ ts'.rampAge = ts.rampAge /\ ts'.lastMod = ts.lastMod
        /\ ts'.ignore = ts.ignore
        /\ ts'.versions = [ts.versions EXCEPT ![w.build] = info]
    BY <1>2, <2>1 DEF TemporalState
  <2>4. /\ ts'.versions[w.build] = info
        /\ \A c \in Builds \ {w.build} : ts'.versions[c] = ts.versions[c]
    BY <1>2, <2>2, <2>3
  <2> QED
    BY <2>3, <2>4 DEF info
<1>5. CASE generateStatus /\ ReadsGates
  <2>1. ts' = GetTestWorkflowStatus(ts, w.build, vers[w.build].tqs, TRUE)
        /\ ts.versions[w.build] # Nil
    BY <1>5 DEF generateStatus, ReadsGates
  <2> QED
    BY <1>1, <1>2, <1>4, <2>1
<1>6. CASE generateStatusDegraded
  <2>1. PICK tqs \in SUBSET vers[w.build].tqs :
          ts' = GetTestWorkflowStatus(ts, w.build, tqs, FALSE)
    BY <1>6 DEF generateStatusDegraded
  <2>2. ts.versions[w.build] # Nil /\ tqs \in SUBSET TaskQueues
    BY <1>2, <1>6 DEF generateStatusDegraded, ReadsGates
  <2> QED
    BY <1>1, <1>2, <1>4, <2>1, <2>2
<1> QED
  BY <1>3, <1>5, <1>6 DEF generateStatus

\* Time changes only the ages of what was read.
LEMMA AgedReads ==
  ASSUME NEW tstate \in TemporalState
  PROVE  LET r == AgeState(tstate)
         IN  /\ r.token = tstate.token /\ r.lastMod = tstate.lastMod /\ r.ignore = tstate.ignore
             /\ r.rampAge = (IF tstate.rampAge = Nil THEN Nil ELSE Older(tstate.rampAge))
             /\ \A b \in Builds :
                  r.versions[b] =
                    IF tstate.versions[b] = Nil THEN Nil
                    ELSE [tstate.versions[b] EXCEPT !.drainedAge = IF @ = Nil THEN Nil ELSE Older(@)]
<1> DEFINE aged == [b \in Builds |->
                      IF tstate.versions[b] = Nil THEN Nil
                      ELSE [tstate.versions[b] EXCEPT !.drainedAge = IF @ = Nil THEN Nil ELSE Older(@)]]
           rampAge == IF tstate.rampAge = Nil THEN Nil ELSE Older(tstate.rampAge)
           r == AgeState(tstate)
<1>1. r = [tstate EXCEPT !.rampAge = rampAge, !.versions = aged]
  BY DEF AgeState
<1>2. \A b \in Builds : aged[b] = IF tstate.versions[b] = Nil THEN Nil
             ELSE [tstate.versions[b] EXCEPT !.drainedAge = IF @ = Nil THEN Nil ELSE Older(@)]
  OBVIOUS
<1>3. rampAge = IF tstate.rampAge = Nil THEN Nil ELSE Older(tstate.rampAge)
  OBVIOUS
<1> HIDE DEF aged, rampAge, r
<1>4. /\ r.token = tstate.token /\ r.lastMod = tstate.lastMod /\ r.ignore = tstate.ignore
      /\ r.rampAge = rampAge /\ r.versions = aged
  BY <1>1 DEF TemporalState
<1> QED
  BY <1>2, <1>3, <1>4 DEF r

\* The ages apart, an entry stays as it is.
LEMMA AgedEntry ==
  ASSUME NEW v \in VersionInfo
  PROVE  LET i == [v EXCEPT !.drainedAge = IF @ = Nil THEN Nil ELSE Older(@)]
         IN  /\ i.drainedAge = (IF v.drainedAge = Nil THEN Nil ELSE Older(v.drainedAge))
             /\ i.tqs = v.tqs /\ i.tests = v.tests /\ i.status = v.status
             /\ i.noPollers = v.noPollers /\ i.unversioned = v.unversioned
             /\ i # Nil
<1>1. \A x : LET i == [v EXCEPT !.drainedAge = x]
             IN  /\ i.drainedAge = x
                 /\ i.tqs = v.tqs /\ i.tests = v.tests /\ i.status = v.status
                 /\ i.noPollers = v.noPollers /\ i.unversioned = v.unversioned
  BY DEF VersionInfo
<1>2. [v EXCEPT !.drainedAge = IF @ = Nil THEN Nil ELSE Older(@)] \in VersionInfo
  <2>1. v.drainedAge \in Nat \cup {Nil}
    BY DEF VersionInfo
  <2>2. (IF v.drainedAge = Nil THEN Nil ELSE Older(v.drainedAge)) \in Nat \cup {Nil}
    BY <2>1 DEF Older
  <2> QED
    BY <2>2 DEF VersionInfo
<1> QED
  BY <1>1, <1>2, NilIsNoRecord

----------------------------------------------------------------------------
(* What the planner decides *)

\* getCurrentStepIndex names a step that the actual percentage has reached,
\* unless it is the first.
LEMMA StepReached ==
  ASSUME NEW steps \in Seq(StepType), steps # <<>>, NEW pct \in Nat
  PROVE  LET i == getCurrentStepIndex(steps, pct)
         IN  i = 1 \/ steps[i].ramp <= pct
<1> DEFINE n == Len(steps)
           reached == {i \in 1 .. n : \A j \in 1 .. i : steps[j].ramp <= pct}
           m == Cardinality(reached)
<1>1. getCurrentStepIndex(steps, pct) = IF reached = {} THEN 1 ELSE m
  BY NilAssumption DEF getCurrentStepIndex
<1>2. CASE reached = {}
  BY <1>1, <1>2
<1>3. CASE reached # {}
  <2>1. m \in 1 .. n
    BY <1>1, <1>3, StepIndexType
  <2>2. n \in Nat
    OBVIOUS
  <2>3. ASSUME m \notin reached
        PROVE  FALSE
    <3>1. reached \subseteq 1 .. m - 1
      <4>0. \A i \in reached : i \in 1 .. n
        OBVIOUS
      <4> SUFFICES ASSUME NEW i \in reached, i > m - 1
                   PROVE  FALSE
        <5> HIDE DEF reached, m, n
        <5> QED
          BY <2>1, <2>2, <4>0
      <4>1. i \in 1 .. n /\ i >= m /\ \A j \in 1 .. i : steps[j].ramp <= pct
        BY <2>1, <2>2
      <4>2. \A j \in 1 .. m : j \in 1 .. i
        BY <2>1, <2>2, <4>1
      <4>3. m \in reached
        BY <2>1, <4>1, <4>2
      <4> QED
        BY <2>3, <4>3
    <3>2. m - 1 \in Int /\ IsFiniteSet(1 .. m - 1) /\ Cardinality(1 .. m - 1) = m - 1
      <4>1. m \in Int /\ m >= 1
        BY <2>1, <2>2
      <4> HIDE DEF m
      <4> QED
        BY <4>1, FS_Interval
    <3>3. m <= m - 1
      <4> HIDE DEF reached
      <4> QED
        BY <3>1, <3>2, FS_Subset
    <3> QED
      BY <2>1, <2>2, <3>3
  <2>4. steps[m].ramp <= pct
    BY <2>1, <2>2, <2>3
  <2> QED
    BY <1>1, <1>3, <2>4
<1> QED
  BY <1>2, <1>3

\* What handleProgressiveRollout does is one of the moves the steps allow from
\* the ramp that it was told of.
LEMMA ProgressiveMove ==
  ASSUME NEW steps \in Seq(StepType), NEW age \in Nat \cup {Nil}, NEW pct \in Nat \cup {Nil},
         NEW vcfg \in VersionConfig, ~vcfg.setCurrent,
         handleProgressiveRollout(steps, age, pct, vcfg) # Nil
  PROVE  LET r == handleProgressiveRollout(steps, age, pct, vcfg)
             Over(i) == pct = steps[i].ramp /\ age # Nil /\ age > steps[i].pause
         IN  /\ r.build = vcfg.build /\ steps # <<>>
             /\ IF r.setCurrent THEN pct # Nil /\ Over(Len(steps))
                ELSE \/ r.pct = steps[1].ramp
                     \/ pct # Nil /\ r.pct < pct
                     \/ \E i \in 1 .. Len(steps) - 1 :
                          pct # Nil /\ Over(i) /\ r.pct = steps[i + 1].ramp
<1> DEFINE r == handleProgressiveRollout(steps, age, pct, vcfg)
           i == getCurrentStepIndex(steps, pct)
<1>1. steps # <<>>
  BY DEF handleProgressiveRollout
<1>2. i \in 1 .. Len(steps) /\ Len(steps) \in Nat
  BY <1>1, StepIndexType
<1>3. pct = Nil => i = 1
  BY DEF getCurrentStepIndex
<1>4. pct # Nil => i = 1 \/ steps[i].ramp <= pct
  BY <1>1, StepReached
<1>5. \A k \in 1 .. Len(steps) : steps[k].ramp \in Nat /\ steps[k].pause \in Nat
  <2>1. \A k \in 1 .. Len(steps) : steps[k] \in StepType
    OBVIOUS
  <2>2. \A s \in StepType : s.ramp \in Nat /\ s.pause \in Nat
    BY DEF StepType
  <2> QED
    BY <2>1, <2>2
<1>6. \A p \in Nat : LET x == [vcfg EXCEPT !.pct = p]
                     IN  x.pct = p /\ x.build = vcfg.build /\ x.setCurrent = vcfg.setCurrent
  BY DEF VersionConfig
<1>7. LET x == [vcfg EXCEPT !.setCurrent = TRUE]
      IN  x.build = vcfg.build /\ x.setCurrent
  BY DEF VersionConfig
<1>8. r = IF pct = Nil \/ pct # steps[i].ramp
          THEN [vcfg EXCEPT !.pct = steps[i].ramp]
          ELSE IF ~PauseOver(age, steps[i].pause) THEN Nil
          ELSE IF i < Len(steps) THEN [vcfg EXCEPT !.pct = steps[i + 1].ramp]
          ELSE [vcfg EXCEPT !.setCurrent = TRUE]
  BY <1>1 DEF handleProgressiveRollout
<1> HIDE DEF r, i
<1>9. CASE pct = Nil \/ pct # steps[i].ramp
  <2>1. r = [vcfg EXCEPT !.pct = steps[i].ramp]
    BY <1>8, <1>9
  <2>2. r.build = vcfg.build /\ ~r.setCurrent /\ r.pct = steps[i].ramp
    BY <1>2, <1>5, <1>6, <2>1
  <2>3. r.pct = steps[1].ramp \/ (pct # Nil /\ r.pct < pct)
    BY <1>2, <1>3, <1>4, <1>5, <1>9, <2>2
  <2> QED
    BY <1>1, <2>2, <2>3 DEF r
<1>10. CASE ~(pct = Nil \/ pct # steps[i].ramp) /\ PauseOver(age, steps[i].pause)
  <2>1. pct # Nil /\ pct = steps[i].ramp /\ age # Nil /\ age > steps[i].pause
    BY <1>10 DEF PauseOver
  <2>2. CASE i < Len(steps)
    <3>1. r = [vcfg EXCEPT !.pct = steps[i + 1].ramp] /\ i \in 1 .. Len(steps) - 1
          /\ i + 1 \in 1 .. Len(steps)
      BY <1>2, <1>8, <1>10, <2>2
    <3>2. r.build = vcfg.build /\ ~r.setCurrent /\ r.pct = steps[i + 1].ramp
      BY <1>5, <1>6, <3>1
    <3> QED
      BY <1>1, <2>1, <3>1, <3>2 DEF r
  <2>3. CASE ~(i < Len(steps))
    <3>1. r = [vcfg EXCEPT !.setCurrent = TRUE] /\ i = Len(steps)
      BY <1>2, <1>8, <1>10, <2>3
    <3> QED
      BY <1>1, <1>7, <2>1, <3>1 DEF r
  <2> QED
    BY <2>2, <2>3
<1>11. CASE ~(pct = Nil \/ pct # steps[i].ramp) /\ ~PauseOver(age, steps[i].pause)
  BY <1>8, <1>11 DEF r
<1> QED
  BY <1>9, <1>10, <1>11

\* A first version: it replaces no current version and no unversioned workers.
FirstVersion(tstate, b) ==
  /\ tstate.current = Nil
  /\ tstate.versions[b].status = "Inactive"
  /\ ~tstate.versions[b].unversioned

\* When getVersionConfigDiff changes the routing config, and how.
LEMMA VersionConfigCases ==
  ASSUME NEW st, NEW tstate, NEW spec, NEW strategy,
         getVersionConfigDiff(st, tstate, spec, strategy) # Nil
  PROVE  LET r == getVersionConfigDiff(st, tstate, spec, strategy)
             vcfg == [setCurrent |-> FALSE, build |-> st.target.build, pct |-> 0,
                      token |-> st.token]
         IN  /\ strategy # "Manual" /\ st.target.healthy
             /\ st.target.status # "NotRegistered"
             /\ spec.gate => GatePassed(st)
             /\ \/ /\ r = [vcfg EXCEPT !.setCurrent = TRUE]
                   /\ \/ strategy = "AllAtOnce"
                      \/ /\ st.current = Nil
                         /\ st.target.status = "Inactive"
                         /\ ~tstate.versions[st.target.build].unversioned
                \/ r = [vcfg EXCEPT !.build = Nil]
                \/ r = handleProgressiveRollout(spec.steps, st.target.rampAge,
                                                st.target.pct, vcfg)
BY Zenon DEF getVersionConfigDiff

\* The version config of a plan, in terms of what Reconcile read: only a healthy
\* target that the server knows is routed to, behind its gate, by the moves of
\* its rollout strategy.
LEMMA PlannedConfig ==
  ASSUME TypeOK, generatePlan, plan'.vcfg # Nil
  PROVE  LET p == plan'.vcfg
             steps == w.steps
             Over(i) == /\ ts.ramping = w.build /\ ts.pct = steps[i].ramp
                        /\ ts.rampAge # Nil /\ ts.rampAge > steps[i].pause
         IN  /\ rolloutStrategy # "Manual"
             /\ k8s[w.build] # Nil /\ k8s[w.build].available
             /\ ts.versions[w.build] # Nil
             /\ ts.versions[w.build].status # "NotRegistered"
             /\ w.gate => GatePassed(status)
             /\ p.build \in {Nil, w.build}
             /\ p.build = Nil => ~p.setCurrent
             /\ (p.build # Nil /\ w.strategy = "Progressive" /\ ~FirstVersion(ts, w.build)) =>
                  /\ steps # <<>>
                  /\ IF p.setCurrent THEN Over(Len(steps))
                     ELSE \/ p.pct = steps[1].ramp
                          \/ ts.ramping = w.build /\ p.pct < ts.pct
                          \/ \E i \in 1 .. Len(steps) - 1 : Over(i) /\ p.pct = steps[i + 1].ramp
<1> DEFINE st == mapToStatus(k8s, ts, w.build)
           p  == plan'.vcfg
           vcfg == [setCurrent |-> FALSE, build |-> w.build, pct |-> 0, token |-> ts.token]
           first == [vcfg EXCEPT !.setCurrent = TRUE]
           unset == [vcfg EXCEPT !.build = Nil]
           progress == handleProgressiveRollout(w.steps, st.target.rampAge, st.target.pct, vcfg)
<1>1. /\ pc = "plan" /\ w \in SpecType /\ w.build \in Builds /\ w.steps \in Seq(StepType)
      /\ k8s \in [Builds -> Deployment \cup {Nil}] /\ ts \in TemporalState
  BY SpecFields DEF generatePlan, TypeOK, RecTypeOK, SpecType
<1>2. /\ st.target.build = w.build /\ st.token = ts.token
      /\ st.target.status = StatusOf(ts, w.build)
      /\ st.target.healthy = (k8s[w.build] # Nil /\ k8s[w.build].available)
      /\ st.target.pct = (IF ts.ramping = w.build THEN ts.pct ELSE Nil)
      /\ st.target.rampAge = (IF ts.ramping = w.build THEN ts.rampAge ELSE Nil)
  BY DEF mapToStatus, mapTargetWorkerDeploymentVersionByBuildID, IsDeploymentHealthy
<1>3. st.current = Nil => ts.current = Nil
  <2>1. st.current = mapCurrentWorkerDeploymentVersionByBuildID(k8s, ts)
    BY DEF mapToStatus
  <2>2. ASSUME ts.current # Nil, st.current = Nil
        PROVE  FALSE
    <3>1. [build |-> ts.current, deployed |-> k8s[ts.current] # Nil] = Nil
      BY <2>1, <2>2 DEF mapCurrentWorkerDeploymentVersionByBuildID
    <3>2. ts.current \in Builds
      BY <1>1, <2>2 DEF TemporalState
    <3> DEFINE deployed == k8s[ts.current] # Nil
    <3>3. deployed \in BOOLEAN
      OBVIOUS
    <3> HIDE DEF deployed
    <3>4. [build |-> ts.current, deployed |-> deployed] \in [build : Builds, deployed : BOOLEAN]
      BY <3>2, <3>3
    <3> QED
      BY <3>1, <3>4, NilIsNoRecord DEF deployed
  <2> QED
    BY <2>2
<1>4. p = getVersionConfigDiff(st, ts, w, rolloutStrategy)
  BY DEF generatePlan, GeneratePlan, status
<1> HIDE DEF st, p
<1>5. /\ rolloutStrategy # "Manual" /\ st.target.healthy
      /\ st.target.status # "NotRegistered"
      /\ w.gate => GatePassed(st)
      /\ \/ /\ p = first
            /\ \/ rolloutStrategy = "AllAtOnce"
               \/ /\ st.current = Nil
                  /\ st.target.status = "Inactive"
                  /\ ~ts.versions[w.build].unversioned
         \/ p = unset
         \/ p = progress
  <2>1. p # Nil
    BY DEF p
  <2> QED
    BY <1>2, <1>4, <2>1, VersionConfigCases
<1>6. ts.versions[w.build] # Nil /\ ts.versions[w.build].status # "NotRegistered"
  BY <1>2, <1>5 DEF StatusOf
<1>7. w.strategy = "Progressive" => rolloutStrategy # "AllAtOnce"
  BY DEF rolloutStrategy
<1>8. /\ vcfg \in VersionConfig /\ ~vcfg.setCurrent /\ vcfg.build = w.build
      /\ first.setCurrent /\ first.build = w.build
      /\ ~unset.setCurrent /\ unset.build = Nil
  BY <1>1 DEF VersionConfig, TemporalState
<1> DEFINE steps == w.steps
           Over(i) == /\ ts.ramping = w.build /\ ts.pct = steps[i].ramp
                      /\ ts.rampAge # Nil /\ ts.rampAge > steps[i].pause
           Move == IF p.setCurrent THEN Over(Len(steps))
                   ELSE \/ p.pct = steps[1].ramp
                        \/ ts.ramping = w.build /\ p.pct < ts.pct
                        \/ \E i \in 1 .. Len(steps) - 1 : Over(i) /\ p.pct = steps[i + 1].ramp
<1>9. p = progress => p.build = w.build /\ steps # <<>> /\ Move
  <2> SUFFICES ASSUME p = progress PROVE p.build = w.build /\ steps # <<>> /\ Move
    OBVIOUS
  <2>1. p # Nil
    BY DEF p
  <2>2. /\ st.target.rampAge \in Nat \cup {Nil} /\ st.target.pct \in Nat \cup {Nil}
    BY <1>1, <1>2 DEF TemporalState
  <2>3. st.target.pct # Nil => ts.ramping = w.build /\ st.target.pct = ts.pct
                               /\ st.target.rampAge = ts.rampAge
    BY <1>2
  <2> DEFINE pct == st.target.pct
             age == st.target.rampAge
  <2> HIDE DEF vcfg, pct, age
  <2>4. /\ p.build = vcfg.build /\ steps # <<>>
        /\ IF p.setCurrent
           THEN pct # Nil /\ pct = steps[Len(steps)].ramp
                  /\ age # Nil /\ age > steps[Len(steps)].pause
           ELSE \/ p.pct = steps[1].ramp
                \/ pct # Nil /\ p.pct < pct
                \/ \E i \in 1 .. Len(steps) - 1 :
                     /\ pct # Nil
                     /\ pct = steps[i].ramp /\ age # Nil /\ age > steps[i].pause
                     /\ p.pct = steps[i + 1].ramp
    <3>1. steps \in Seq(StepType) /\ age \in Nat \cup {Nil} /\ pct \in Nat \cup {Nil}
          /\ vcfg \in VersionConfig /\ ~vcfg.setCurrent
      BY <1>1, <1>8, <2>2 DEF pct, age
    <3>2. p = handleProgressiveRollout(steps, age, pct, vcfg)
      BY DEF pct, age
    <3>3. handleProgressiveRollout(steps, age, pct, vcfg) # Nil
      BY <2>1, <3>2
    <3> HIDE DEF steps, first, unset, progress, Over, Move
    <3> QED
      BY <3>1, <3>2, <3>3, ProgressiveMove
  <2> USE DEF pct, age
  <2>5. CASE p.setCurrent
    BY <1>8, <2>3, <2>4, <2>5
  <2>6. CASE ~p.setCurrent
    <3>1. ASSUME st.target.pct # Nil, p.pct < st.target.pct
          PROVE  Move
      BY <2>3, <2>6, <3>1
    <3>2. ASSUME NEW i \in 1 .. Len(steps) - 1,
                 st.target.pct # Nil, st.target.pct = steps[i].ramp,
                 st.target.rampAge # Nil, st.target.rampAge > steps[i].pause,
                 p.pct = steps[i + 1].ramp
          PROVE  Move
      <4>1. Over(i)
        BY <2>3, <3>2
      <4> HIDE DEF Over
      <4> QED
        BY <2>6, <3>2, <4>1
    <3>3. p.pct = steps[1].ramp => Move
      BY <2>6
    <3> HIDE DEF Move, Over
    <3> QED
      BY <1>8, <2>4, <2>6, <3>1, <3>2, <3>3
  <2> QED
    BY <2>5, <2>6
<1> HIDE DEF vcfg, first, unset, progress
<1> HIDE DEF Move
<1>10. (p.build # Nil /\ w.strategy = "Progressive" /\ ~FirstVersion(ts, w.build)) =>
         steps # <<>> /\ Move
  <2>1. CASE p = first /\ rolloutStrategy = "AllAtOnce"
    BY <1>7, <2>1
  <2>2. CASE /\ st.current = Nil
             /\ st.target.status = "Inactive"
             /\ ~ts.versions[w.build].unversioned
    BY <1>2, <1>3, <1>6, <2>2 DEF StatusOf, FirstVersion
  <2>3. CASE p = unset
    BY <1>8, <2>3
  <2>4. CASE p = progress
    BY <1>9, <2>4
  <2> QED
    BY <1>5, <2>1, <2>2, <2>3, <2>4
<1>11. p.build \in {Nil, w.build} /\ (p.build = Nil => ~p.setCurrent)
  BY <1>1, <1>5, <1>8, <1>9, NilAssumption
<1>12. GatePassed(status) = GatePassed(st)
  BY DEF status, st
<1> QED
  BY <1>2, <1>5, <1>6, <1>10, <1>11, <1>12 DEF Move, p

----------------------------------------------------------------------------
(* The steps of a rollout *)

\* handleProgressiveRollout's moves, from the ramp as it is now.
RampAllowed(p) ==
  LET steps == w.steps
      Held(i) == /\ routing.ramping = w.build
                 /\ routing.pct = steps[i].ramp
                 /\ routing.rampAge > steps[i].pause
  IN  /\ steps # <<>>
      /\ IF p.setCurrent THEN Held(Len(steps))
         ELSE \/ p.pct = steps[1].ramp
              \/ routing.ramping = w.build /\ p.pct < routing.pct
              \/ \E i \in 1 .. Len(steps) - 1 : Held(i) /\ p.pct = steps[i + 1].ramp

\* While its token is good, Reconcile knows the age of the ramp; and its plan
\* is a move from the ramp that is there, which only grows older.
RampInv ==
  /\ pc \in {"status", "plan"} /\ ts.token = routing.token /\ ts.ramping # Nil =>
       ts.rampAge = routing.rampAge
  /\ pc = "exec" /\ plan.vcfg # Nil =>
       LET p == plan.vcfg IN
       /\ p.build \in {Nil, w.build}
       /\ p.build = Nil => ~p.setCurrent
       /\ (/\ p.token = routing.token /\ p.build # Nil
           /\ w.strategy = "Progressive" /\ ~FirstVersion(ts, w.build)) => RampAllowed(p)

\* What was allowed stays so while the token is good.
LEMMA RampHolds ==
  ASSUME TypeOK, w \in Specs, w' = w, NEW p, RampAllowed(p),
         RoutingKept, routing'.rampAge \in Nat, routing'.rampAge >= routing.rampAge
  PROVE  RampAllowed(p)'
<1> DEFINE steps == w.steps
           Held(i) == /\ routing.ramping = w.build
                      /\ routing.pct = steps[i].ramp
                      /\ routing.rampAge > steps[i].pause
           HeldNow(i) == /\ routing'.ramping = w.build
                         /\ routing'.pct = steps[i].ramp
                         /\ routing'.rampAge > steps[i].pause
<1>1. steps \in Seq(StepType) /\ steps # <<>> /\ Len(steps) \in Nat /\ Len(steps) # 0
  BY SpecFields DEF SpecType, RampAllowed
<1>2. \A i \in 1 .. Len(steps) : steps[i].pause \in Nat
  <2>1. \A i \in 1 .. Len(steps) : steps[i] \in StepType
    BY <1>1
  <2>2. \A x \in StepType : x.pause \in Nat
    BY DEF StepType
  <2> QED
    BY <2>1, <2>2
<1>3. routing.rampAge \in Nat
  BY DEF TypeOK, ServerTypeOK, RoutingConfig
<1>4. \A i \in 1 .. Len(steps) : Held(i) => HeldNow(i)
  <2> HIDE DEF steps
  <2> QED
    BY <1>2, <1>3 DEF RoutingKept
<1>5. Len(steps) \in 1 .. Len(steps) /\ \A i \in 1 .. Len(steps) - 1 : i \in 1 .. Len(steps)
  BY <1>1
<1>6. /\ steps # <<>>
      /\ IF p.setCurrent THEN Held(Len(steps))
         ELSE \/ p.pct = steps[1].ramp
              \/ routing.ramping = w.build /\ p.pct < routing.pct
              \/ \E i \in 1 .. Len(steps) - 1 : Held(i) /\ p.pct = steps[i + 1].ramp
  BY DEF RampAllowed
<1>7. /\ steps # <<>>
      /\ IF p.setCurrent THEN HeldNow(Len(steps))
         ELSE \/ p.pct = steps[1].ramp
              \/ routing'.ramping = w.build /\ p.pct < routing'.pct
              \/ \E i \in 1 .. Len(steps) - 1 : HeldNow(i) /\ p.pct = steps[i + 1].ramp
  <2> HIDE DEF steps, Held, HeldNow
  <2> QED
    BY <1>4, <1>5, <1>6 DEF RoutingKept
<1> QED
  BY <1>7 DEF RampAllowed

\* The second half of RampInv, of a version config p.
RampPlanned(p) ==
  /\ p.build \in {Nil, w.build}
  /\ p.build = Nil => ~p.setCurrent
  /\ (/\ p.token = routing.token /\ p.build # Nil
      /\ w.strategy = "Progressive" /\ ~FirstVersion(ts, w.build)) => RampAllowed(p)

\* A step that leaves the version config of the plan alone.
LEMMA RampExecuting ==
  ASSUME TypeOK, TokenInv, RampInv, Moves, pc = "exec", UNCHANGED <<pc, w, ts>>,
         plan'.vcfg = plan.vcfg
  PROVE  RampInv'
<1>1. PICK p : p = plan.vcfg
  OBVIOUS
<1>2. CASE p = Nil
  BY <1>1, <1>2 DEF RampInv
<1>3. CASE p # Nil
  <2>1. RampPlanned(p) /\ w \in Specs
    BY <1>1, <1>3 DEF RampInv, RampPlanned, TypeOK, RecTypeOK
  <2>2. p.token = ts.token /\ ts.token # Nil /\ ts.token <= routing.token
    BY <1>1, <1>3 DEF TokenInv
  <2>3. ts.token \in Nat \cup {Nil} /\ routing.token \in Nat
    BY DEF TypeOK, RecTypeOK, TemporalState, ServerTypeOK, RoutingConfig
  <2>4. CASE routing'.token = routing.token + 1
    <3>1. p.token # routing'.token
      BY <2>2, <2>3, <2>4
    <3> QED
      BY <1>1, <2>1, <3>1 DEF RampInv, RampPlanned
  <2>5. CASE RoutingKept /\ routing'.rampAge \in Nat /\ routing'.rampAge >= routing.rampAge
    <3>1. RampAllowed(p) => RampAllowed(p)'
      BY <2>1, <2>5, RampHolds
    <3>2. RampPlanned(p)'
      BY <2>1, <2>5, <3>1 DEF RampPlanned, RoutingKept, FirstVersion
    <3> QED
      BY <1>1, <3>2 DEF RampInv, RampPlanned
  <2> QED
    BY <2>4, <2>5 DEF Moves
<1> QED
  BY <1>2, <1>3

\* Describe reads the age of the ramp with the token.
LEMMA RampReading ==
  ASSUME TypeOK, Moves,
         DescribeNotFound \/ DescribeFound \/ DescribeDegraded \/ \E b \in Builds : DescribeGone(b)
  PROVE  RampInv'
<1>0. routing.token \in Nat
  BY DEF TypeOK, ServerTypeOK, RoutingConfig
<1>1. CASE DescribeNotFound
  <2>1. pc' = "status" /\ ts'.token = Nil /\ routing' = routing
    BY <1>1, EmptyStateType DEF DescribeNotFound, serverVars
  <2> QED
    BY <1>0, <2>1, NilAssumption DEF RampInv
<1>2. ASSUME NEW undescribed, NEW gone, NEW unversioned \in BOOLEAN,
             DescribeWith(undescribed, gone, unversioned)
      PROVE  RampInv'
  <2>1. /\ ts'.token = routing.token /\ ts'.ramping = routing.ramping
        /\ ts'.rampAge = (IF routing.ramping = Nil THEN Nil ELSE routing.rampAge)
    BY <1>2, DescribeType, DescribeReads DEF DescribeWith, TypeOK
  <2>2. pc = "describe" /\ pc' = "status"
    BY <1>2 DEF DescribeWith
  <2>3. ~Tick
    BY <2>2 DEF Tick
  <2> QED
    BY <1>0, <2>1, <2>2, <2>3 DEF RampInv, Moves, RoutingKept
<1> QED
  BY <1>1, <1>2 DEF DescribeFound, DescribeDegraded, DescribeGone

\* Reading the gates does not touch it.
LEMMA RampGates ==
  ASSUME TypeOK, RampInv, generateStatus \/ generateStatusDegraded
  PROVE  RampInv'
BY GatesRead DEF RampInv, serverVars

\* The plan is a move of the steps from the ramp that its token vouches for.
LEMMA RampPlanning ==
  ASSUME TypeOK, TokenInv, TokenInv', RampInv, generatePlan
  PROVE  RampInv'
<1>1. pc = "plan" /\ pc' = "exec" /\ UNCHANGED <<w, ts, routing>>
  BY DEF generatePlan, serverVars
<1>2. CASE plan'.vcfg = Nil
  BY <1>1, <1>2 DEF RampInv
<1>3. CASE plan'.vcfg # Nil
  <2>1. PICK p : p = plan'.vcfg
    OBVIOUS
  <2> DEFINE steps == w.steps
             Over(i) == /\ ts.ramping = w.build /\ ts.pct = steps[i].ramp
                        /\ ts.rampAge # Nil /\ ts.rampAge > steps[i].pause
             Held(i) == /\ routing.ramping = w.build /\ routing.pct = steps[i].ramp
                        /\ routing.rampAge > steps[i].pause
  <2>2. /\ p.build \in {Nil, w.build}
        /\ p.build = Nil => ~p.setCurrent
        /\ (p.build # Nil /\ w.strategy = "Progressive" /\ ~FirstVersion(ts, w.build)) =>
             /\ steps # <<>>
             /\ IF p.setCurrent THEN Over(Len(steps))
                ELSE \/ p.pct = steps[1].ramp
                     \/ ts.ramping = w.build /\ p.pct < ts.pct
                     \/ \E i \in 1 .. Len(steps) - 1 : Over(i) /\ p.pct = steps[i + 1].ramp
    BY <1>3, <2>1, PlannedConfig
  <2>3. p.token = ts.token /\ ts.token # Nil
    BY <1>1, <1>3, <2>1 DEF TokenInv
  <2>4. p.token = routing.token =>
          ts.ramping = routing.ramping /\ ts.pct = routing.pct /\ \A i : Over(i) => Held(i)
    <3> SUFFICES ASSUME p.token = routing.token
                 PROVE  /\ ts.ramping = routing.ramping /\ ts.pct = routing.pct
                        /\ \A i : Over(i) => Held(i)
      OBVIOUS
    <3>1. ts.ramping = routing.ramping /\ ts.pct = routing.pct
      BY <1>1, <2>3 DEF TokenInv
    <3>2. ts.ramping # Nil => ts.rampAge = routing.rampAge
      BY <1>1, <2>3 DEF RampInv
    <3>3. w.build # Nil
      BY <1>1, SpecFields, NilAssumption DEF TypeOK, RecTypeOK
    <3> HIDE DEF steps
    <3> QED
      BY <3>1, <3>2, <3>3
  <2> HIDE DEF Over
  <2>5. (/\ p.token = routing.token /\ p.build # Nil
         /\ w.strategy = "Progressive" /\ ~FirstVersion(ts, w.build)) => RampAllowed(p)
    <3> SUFFICES ASSUME p.token = routing.token, p.build # Nil,
                        w.strategy = "Progressive", ~FirstVersion(ts, w.build)
                 PROVE  RampAllowed(p)
      OBVIOUS
    <3>1. /\ steps # <<>>
          /\ IF p.setCurrent THEN Held(Len(steps))
             ELSE \/ p.pct = steps[1].ramp
                  \/ routing.ramping = w.build /\ p.pct < routing.pct
                  \/ \E i \in 1 .. Len(steps) - 1 : Held(i) /\ p.pct = steps[i + 1].ramp
      <4> HIDE DEF steps, Held
      <4> QED
        BY <2>2, <2>4
    <3> QED
      BY <3>1 DEF RampAllowed
  <2>6. RampPlanned(p)'
    <3>1. RampPlanned(p)
      BY <2>2, <2>5 DEF RampPlanned
    <3> QED
      BY <1>1, <3>1 DEF RampPlanned, RampAllowed, FirstVersion
  <2> QED
    BY <1>1, <2>1, <2>6 DEF RampInv, RampPlanned
<1> QED
  BY <1>2, <1>3

\* The clock runs for the ramp and for what was read of it alike.
LEMMA RampTick ==
  ASSUME TypeOK, TokenInv, RampInv, Tick
  PROVE  RampInv'
<1>1. UNCHANGED <<pc, w, plan>> /\ RoutingKept
  BY TimeType DEF Tick, TypeOK, RoutingKept
<1>2. CASE pc \in {"status", "plan"}
  <2>1. ts \in TemporalState /\ ts' = AgeState(ts)
    BY <1>2 DEF Tick, TypeOK, RecTypeOK
  <2>2. /\ ts'.token = ts.token /\ ts'.ramping = ts.ramping
        /\ ts'.rampAge = (IF ts.rampAge = Nil THEN Nil ELSE Older(ts.rampAge))
    BY <2>1, AgedReads, AgeStateType
  <2>3. routing \in RoutingConfig /\ routing.token \in Nat /\ routing.rampAge \in Nat
    BY DEF TypeOK, ServerTypeOK, RoutingConfig
  <2>4. routing.ramping # Nil => routing'.rampAge = Older(routing.rampAge)
    <3> SUFFICES ASSUME routing.ramping # Nil PROVE routing'.rampAge = Older(routing.rampAge)
      OBVIOUS
    <3>1. routing' = [routing EXCEPT !.rampAge = Older(routing.rampAge)]
      BY DEF Tick, TimePasses
    <3> QED
      BY <2>3, <3>1 DEF RoutingConfig
  <2>5. ts.token = routing.token => ts.ramping = routing.ramping
    BY <1>2, <2>3, NilAssumption DEF TokenInv
  <2> QED
    BY <1>1, <1>2, <2>2, <2>3, <2>4, <2>5, NilAssumption DEF RampInv, RoutingKept
<1>3. CASE pc = "exec"
  <2>1. Moves
    BY RoutingMoves DEF Next, EnvStep
  <2>2. ts' = ts
    BY <1>3 DEF Tick
  <2> QED
    BY <1>1, <1>3, <2>1, <2>2, RampExecuting
<1> QED
  BY <1>1, <1>2, <1>3 DEF RampInv

\* RampInv is inductive.
LEMMA RampStep ==
  ASSUME TypeOK, TokenInv, TokenInv', RampInv, [Next]_vars
  PROVE  RampInv'
<1>1. Moves
  BY RoutingMoves
<1>2. CASE pc' \in {"idle", "describe"}
  BY <1>2 DEF RampInv
<1>3. CASE ExecStep
  <2>1. pc = "exec" /\ UNCHANGED <<pc, w, ts>>
    BY <1>3, ExecKeeps
  <2>2. plan'.vcfg = Nil \/ plan'.vcfg = plan.vcfg
    BY <1>3, ExecKeeps
  <2> QED
    BY <1>1, <2>1, <2>2, RampExecuting DEF RampInv
<1>4. CASE UNCHANGED recVars /\ ~Tick
  <2>1. CASE pc = "exec"
    BY <1>1, <1>4, <2>1, RampExecuting DEF recVars
  <2>2. CASE pc \in {"status", "plan"}
    <3>1. ts.token \in Nat \cup {Nil} /\ routing.token \in Nat
      BY <2>2 DEF TypeOK, RecTypeOK, TemporalState, ServerTypeOK, RoutingConfig
    <3>2. routing'.token = routing.token + 1 => ts.token # routing'.token
      BY <2>2, <3>1, NilAssumption DEF TokenInv
    <3> QED
      BY <1>1, <1>4, <2>2, <3>1, <3>2 DEF RampInv, Moves, RoutingKept, recVars
  <2> QED
    BY <1>4, <2>1, <2>2 DEF RampInv, recVars
<1> QED
  BY <1>1, <1>2, <1>3, <1>4, ReconcileMoves, RampReading, RampGates, RampPlanning, RampTick

\* The version that executePlan promotes is the target of the spec.
LEMMA PromotesTarget ==
  ASSUME TypeOK, RampInv, ExecVersionConfig, NEW b \in Builds, Promotes(b)
  PROVE  /\ b = w.build /\ b = plan.vcfg.build /\ Registered(b)
         /\ IF plan.vcfg.setCurrent THEN routing'.current = b
            ELSE routing'.current # b /\ routing'.pct = plan.vcfg.pct
<1>1. pc = "exec" /\ plan.vcfg # Nil
  BY DEF ExecVersionConfig, AtConfig, AtStart, AtUpdate, AtScale, AtDelete
<1>2. PICK p : p = plan.vcfg
  OBVIOUS
<1>3. p.build \in {Nil, w.build} /\ (p.build = Nil => ~p.setCurrent)
  BY <1>1, <1>2 DEF RampInv
<1>4. b # Nil
  BY NilAssumption
<1>5. CASE p.setCurrent
  <2>1. p.build # Nil /\ SetCurrentVersion(p.build, Controller)
    BY <1>2, <1>3, <1>5 DEF ExecVersionConfig
  <2>2. /\ routing'.current = p.build
        /\ \/ routing'.ramping = Nil
           \/ routing'.ramping = routing.ramping /\ routing'.pct = routing.pct
    BY <2>1, NewRoutingFields DEF SetCurrentVersion
  <2>3. b = p.build
    BY <1>4, <2>2 DEF Promotes
  <2> QED
    BY <1>2, <1>3, <1>5, <2>1, <2>2, <2>3 DEF SetCurrentVersion
<1>6. CASE ~p.setCurrent
  <2>1. SetRampingVersion(p.build, p.pct, Controller)
    BY <1>2, <1>6 DEF ExecVersionConfig
  <2>2. routing'.current = routing.current /\ routing'.ramping = p.build /\ routing'.pct = p.pct
    BY <2>1, NewRoutingFields DEF SetRampingVersion
  <2>3. b = p.build
    BY <2>2 DEF Promotes
  <2> QED
    BY <1>2, <1>3, <1>4, <1>6, <2>1, <2>2, <2>3 DEF SetRampingVersion
<1> QED
  BY <1>5, <1>6

\* A progressive rollout follows its steps: whoever changes the ramp, the spec or
\* the routing config while Reconcile is under way, and whatever fails, a step is
\* left only after its pause on the ramp that is there at that moment.
THEOREM RampFollowsSteps == Spec => RampStepsRespected
<1>1. Init => RampInv
  BY DEF Init, RampInv
<1>2. TypeOK /\ TypeOK' /\ TokenInv /\ TokenInv' /\ RampInv /\ [Next]_vars => RampInv'
  BY RampStep
<1>3. TypeOK /\ TokenInv /\ RampInv /\ [Next]_vars =>
  [\A b \in Builds :
       /\ Promotes(b)
       /\ w.strategy = "Progressive"
       /\ \/ routing.current # Nil
          \/ ts.versions[b].status # "Inactive"
          \/ ts.versions[b].unversioned
       =>
         LET steps == w.steps
             Held(i) == /\ routing.ramping = b
                        /\ routing.pct = steps[i].ramp
                        /\ routing.rampAge > steps[i].pause
         IN  IF routing'.current = b
             THEN Held(Len(steps))
             ELSE \/ routing'.pct = steps[1].ramp
                  \/ routing.ramping = b /\ routing'.pct < routing.pct
                  \/ \E i \in 1 .. Len(steps) - 1 :
                       Held(i) /\ routing'.pct = steps[i + 1].ramp]_vars
  <2> SUFFICES ASSUME TypeOK, TokenInv, RampInv, [Next]_vars, NEW b \in Builds,
                      Promotes(b), w.strategy = "Progressive",
                      \/ routing.current # Nil
                      \/ ts.versions[b].status # "Inactive"
                      \/ ts.versions[b].unversioned
               PROVE  LET steps == w.steps
                          Held(i) == /\ routing.ramping = b
                                     /\ routing.pct = steps[i].ramp
                                     /\ routing.rampAge > steps[i].pause
                      IN  IF routing'.current = b
                          THEN Held(Len(steps))
                          ELSE \/ routing'.pct = steps[1].ramp
                               \/ routing.ramping = b /\ routing'.pct < routing.pct
                               \/ \E i \in 1 .. Len(steps) - 1 :
                                    Held(i) /\ routing'.pct = steps[i + 1].ramp
    OBVIOUS
  <2>1. ExecVersionConfig
    BY OnlyExecRoutes DEF Promotes
  <2>2. /\ pc = "exec" /\ plan.vcfg # Nil /\ plan.vcfg.token = routing.token
        /\ routing.current = ts.current
    BY <2>1, AcceptedIsSeen
       DEF ExecVersionConfig, ConflictTokenValid, TokenInv
  <2>3. RampPlanned(plan.vcfg)
    BY <2>2 DEF RampInv, RampPlanned
  <2>4. /\ b = w.build /\ b = plan.vcfg.build
        /\ IF plan.vcfg.setCurrent THEN routing'.current = b
           ELSE routing'.current # b /\ routing'.pct = plan.vcfg.pct
    BY <2>1, PromotesTarget
  <2>5. RampAllowed(plan.vcfg)
    BY <2>2, <2>3, <2>4, NilAssumption DEF RampPlanned, FirstVersion
  <2> QED
    BY <2>4, <2>5 DEF RampAllowed
<1> QED
  BY <1>1, <1>2, <1>3, TypeCorrect, TokenInvariant, PTL DEF Spec, RampStepsRespected

----------------------------------------------------------------------------
(* Whose routing config it is *)

\* A change of somebody else is on record as such; Reconcile knows whose routing
\* config its token vouches for, and plans no change of somebody else's.
OwnerInv ==
  /\ owner = Human => routing.lastMod = Human
  /\ \A b \in Builds : ~vers[b].ignore
  /\ pc \in {"status", "plan", "exec"} =>
       /\ ~ts.ignore
       /\ ts.token = routing.token => ts.lastMod = routing.lastMod
  /\ pc = "exec" /\ plan.vcfg # Nil => ts.lastMod # Human

\* Only a person's change makes the routing config a person's.
LEMMA OwnerMoves ==
  ASSUME TypeOK, [Next]_vars, "handback" \notin Env, "serverdelete" \notin Env
  PROVE  \/ owner' = owner /\ routing'.lastMod = routing.lastMod
         \/ routing'.lastMod = Human
         \/ owner' # Human
<1>1. CASE Tick
  <2>1. Moves
    BY RoutingMoves
  <2>2. RoutingKept /\ routing.token \in Nat
    BY <1>1, TimeType DEF Tick, TypeOK, ServerTypeOK, RoutingConfig, RoutingKept
  <2> QED
    BY <1>1, <2>1, <2>2 DEF Moves, RoutingKept, Tick, userVars
<1>2. CASE ReconcileStep
  BY <1>2
     DEF ReconcileStep, Reconcile, DescribeNotFound, DescribeFound, DescribeDegraded,
         DescribeGone, generateStatus, generateStatusDegraded, generatePlan, ExecCreate,
         ExecScale, ExecUpdate, ExecStartGate, ExecVersionConfig, ExecStamp, ExecDone,
         ExecDelete, ExecRemoveIgnore, GiveUp, Abort, Fault, StartGate, SetIgnoreLastModifier,
         ServerDeletes, serverVars, userVars, Human
<1>3. CASE UserStep
  <2>1. ASSUME NEW b, NEW pct, SetCurrentVersion(b, Human) \/ SetRampingVersion(b, pct, Human)
        PROVE  routing'.lastMod = Human
    BY <2>1, NewRoutingFields DEF SetCurrentVersion, SetRampingVersion
  <2> QED
    BY <1>3, <2>1
       DEF UserStep, EditSpec, EditConnection, HumanRemovesRamp, HumanSetsCurrent,
           HumanSetsRamp, HumanHandsBack, serverVars
<1>4. CASE EnvStep /\ ~Tick
  BY <1>4
     DEF EnvStep, ClusterStep, WorkersRegister, WorkflowStep, GateStep, ServerDeletesVersion,
         WorkersPoll, WorkflowStarts, WorkflowsClose, DrainageEnds, GateCloses, ServerDeletes,
         serverVars, userVars
<1>5. CASE UNCHANGED vars
  BY <1>5 DEF vars, serverVars, userVars
<1> QED
  BY <1>1, <1>2, <1>3, <1>4, <1>5 DEF Next

\* What Reconcile knows of the owner stays true while its token is good.
LEMMA OwnerKnown ==
  ASSUME TypeOK, TokenInv, OwnerInv, Moves, "serverdelete" \notin Env,
         pc \in {"status", "plan", "exec"},
         ts'.token = ts.token, ts'.lastMod = ts.lastMod, ts'.ignore = ts.ignore
  PROVE  ~ts'.ignore /\ (ts'.token = routing'.token => ts'.lastMod = routing'.lastMod)
<1>1. ts.token \in Nat \cup {Nil} /\ routing.token \in Nat
  BY DEF TypeOK, RecTypeOK, TemporalState, ServerTypeOK, RoutingConfig
<1>2. routing'.token = routing.token + 1 => ts.token # routing'.token
  BY <1>1, NilAssumption DEF TokenInv
<1> QED
  BY <1>1, <1>2 DEF OwnerInv, Moves, RoutingKept

\* OwnerInv is inductive where nobody hands back and the server deletes nothing.
LEMMA OwnerStep ==
  ASSUME TypeOK, TokenInv, OwnerInv, [Next]_vars,
         "handback" \notin Env, "serverdelete" \notin Env
  PROVE  OwnerInv'
<1> DEFINE Known == ~ts'.ignore /\ (ts'.token = routing'.token => ts'.lastMod = routing'.lastMod)
<1>1. Moves
  BY RoutingMoves
<1>2. owner' = Human => routing'.lastMod = Human
  BY OwnerMoves DEF OwnerInv
<1>3. \A b \in Builds : ~vers'[b].ignore
  BY VersionsMove DEF OwnerInv, VersionMoves
<1>4. routing.token \in Nat /\ routing.current \in Builds \cup {Nil}
  BY DEF TypeOK, ServerTypeOK, RoutingConfig
<1>5. CASE pc' \in {"idle", "describe"}
  BY <1>2, <1>3, <1>5 DEF OwnerInv
<1>6. CASE DescribeNotFound
  <2>1. pc' = "status" /\ ts'.token = Nil /\ ~ts'.ignore /\ routing' = routing
    BY <1>6 DEF DescribeNotFound, EmptyState, serverVars
  <2> QED
    BY <1>2, <1>3, <1>4, <2>1, NilAssumption DEF OwnerInv
<1>7. CASE DescribeFound \/ DescribeDegraded \/ \E b \in Builds : DescribeGone(b)
  <2>1. \E undescribed, gone : \E unversioned \in BOOLEAN :
          DescribeWith(undescribed, gone, unversioned)
    BY <1>7 DEF DescribeFound, DescribeDegraded, DescribeGone
  <2>2. PICK undescribed, gone : \E unversioned \in BOOLEAN :
          DescribeWith(undescribed, gone, unversioned)
    BY <2>1
  <2>3. PICK unversioned \in BOOLEAN : DescribeWith(undescribed, gone, unversioned)
    BY <2>2
  <2>4. /\ ts'.token = routing.token /\ ts'.lastMod = routing.lastMod
        /\ ts'.ignore => DeploymentShouldIgnoreLastModifier
    BY <2>3, DescribeType, DescribeReads DEF DescribeWith, TypeOK
  <2>5. ~DeploymentShouldIgnoreLastModifier
    BY <1>4 DEF DeploymentShouldIgnoreLastModifier, OwnerInv
  <2>6. Known
    BY <1>1, <1>4, <2>4, <2>5 DEF Moves, RoutingKept
  <2>7. pc' = "status"
    BY <2>3 DEF DescribeWith
  <2> QED
    BY <1>2, <1>3, <2>6, <2>7 DEF OwnerInv
<1>8. CASE generateStatus \/ generateStatusDegraded
  <2>1. pc = "status" /\ pc' = "plan" /\ Known
    BY <1>1, <1>8, GatesRead, OwnerKnown
  <2> QED
    BY <1>2, <1>3, <2>1 DEF OwnerInv
<1>9. CASE generatePlan
  <2>1. pc = "plan" /\ pc' = "exec" /\ ts' = ts
    BY <1>9 DEF generatePlan
  <2>2. Known
    BY <1>1, <2>1, OwnerKnown
  <2>3. plan'.vcfg # Nil => ts.lastMod # Human
    <3>1. plan'.vcfg # Nil => rolloutStrategy # "Manual"
      BY <1>9, PlannedConfig
    <3>2. ~ts.ignore
      BY <2>1 DEF OwnerInv
    <3>3. Human \notin {Controller, ServerDeletion, Nil}
      BY NilIsNoRecord DEF Human, Controller, ServerDeletion, Identities
    <3> QED
      BY <3>1, <3>2, <3>3 DEF rolloutStrategy
  <2> QED
    BY <1>2, <1>3, <2>1, <2>2, <2>3 DEF OwnerInv
<1>10. CASE ExecStep
  <2>1. pc = "exec" /\ pc' = pc /\ ts' = ts /\ (plan'.vcfg = Nil \/ plan'.vcfg = plan.vcfg)
    BY <1>10, ExecKeeps
  <2>2. Known
    BY <1>1, <2>1, OwnerKnown
  <2> QED
    BY <1>2, <1>3, <2>1, <2>2 DEF OwnerInv
<1>11. CASE Tick
  <2>1. UNCHANGED <<pc, plan>>
    BY <1>11 DEF Tick
  <2>2. pc \in {"status", "plan", "exec"} =>
          ts'.token = ts.token /\ ts'.lastMod = ts.lastMod /\ ts'.ignore = ts.ignore
    BY <1>11, AgedReads DEF Tick, TypeOK, RecTypeOK
  <2>3. pc \in {"status", "plan", "exec"} => Known
    BY <1>1, <2>2, OwnerKnown
  <2> QED
    BY <1>2, <1>3, <2>1, <2>2, <2>3 DEF OwnerInv
<1>12. CASE UNCHANGED recVars
  <2>1. pc \in {"status", "plan", "exec"} => Known
    BY <1>1, <1>12, OwnerKnown DEF recVars
  <2> QED
    BY <1>2, <1>3, <1>12, <2>1 DEF OwnerInv, recVars
<1> QED
  BY <1>5, <1>6, <1>7, <1>8, <1>9, <1>10, <1>11, <1>12, ReconcileMoves

\* Where nobody uses the ignore-last-modifier metadata and the server deletes
\* no version, the controller never overwrites a person's change, whenever in
\* the course of Reconcile it is made.
THEOREM PeopleAreNotClobbered ==
  ASSUME "handback" \notin Env, "serverdelete" \notin Env
  PROVE  Spec => NoClobber
<1>1. Init => OwnerInv
  BY DEF Init, OwnerInv, ServerInit, Human
<1>2. TypeOK /\ TokenInv /\ OwnerInv /\ [Next]_vars => OwnerInv'
  BY OwnerStep
<1>3. TypeOK /\ TokenInv /\ OwnerInv /\ [Next]_vars => [ControllerRoutes => owner # Human]_vars
  <2> SUFFICES ASSUME TypeOK, TokenInv, OwnerInv, [Next]_vars, ControllerRoutes
               PROVE  owner # Human
    OBVIOUS
  <2>1. ExecVersionConfig
    BY OnlyExecRoutes
  <2>2. pc = "exec" /\ plan.vcfg # Nil /\ plan.vcfg.token = ts.token /\ ts.token = routing.token
    BY <2>1, AcceptedIsSeen DEF ExecVersionConfig, ConflictTokenValid, TokenInv
  <2> QED
    BY <2>2 DEF OwnerInv
<1> QED
  BY <1>1, <1>2, <1>3, TypeCorrect, TokenInvariant, PTL DEF Spec, NoClobber

----------------------------------------------------------------------------
(* The gate *)

\* Reconcile reads gate workflows only of task queues that it knows, and a
\* workflow that completed stays so; behind a gate it plans a change only when
\* all of the task queues that it knows, and at least one, completed.  Where the
\* task queues of a version register together, it knows all or none.
GateInv ==
  /\ "latequeue" \notin Env => \A b \in Builds : vers[b].tqs \in {{}, TaskQueues}
  /\ pc = "status" =>
       \A b \in Builds :
         ts.versions[b] # Nil =>
           ts.versions[b].tqs = {} /\ \A q \in TaskQueues : ts.versions[b].tests[q] = Nil
  /\ pc = "plan" /\ ts.versions[w.build] # Nil =>
       LET v == ts.versions[w.build] IN
       /\ \A q \in TaskQueues : v.tests[q] # Nil => q \in v.tqs
       /\ \A q \in TaskQueues : v.tests[q] = "Completed" => gates[w.build][q] = "Completed"
       /\ "latequeue" \notin Env =>
            v.tqs \in {{}, TaskQueues} \/ \A q \in TaskQueues : v.tests[q] = Nil
  /\ pc = "exec" /\ plan.vcfg # Nil /\ w.gate =>
       LET known == ts.versions[w.build].tqs IN
       /\ known # {} /\ known \subseteq TaskQueues
       /\ \A q \in known : gates[w.build][q] = "Completed"
       /\ "latequeue" \notin Env => known = TaskQueues

\* A gate workflow that completed stays so.
LEMMA GatesStay ==
  ASSUME TypeOK, [Next]_vars, NEW b \in Builds, NEW q \in TaskQueues, gates[b][q] = "Completed"
  PROVE  gates'[b][q] = "Completed"
<1>0. gates \in [Builds -> [TaskQueues -> WorkflowStatuses \cup {Nil}]]
  BY DEF TypeOK, ServerTypeOK
<1>1. CASE gates' = gates
  BY <1>1
<1>2. ASSUME NEW c, NEW p, NEW value, gates[c][p] # "Completed",
             gates' = [gates EXCEPT ![c][p] = value]
      PROVE  gates'[b][q] = "Completed"
  BY <1>0, <1>2
<1>3. Nil # "Completed"
  BY NilIsNoRecord DEF WorkflowStatuses
<1>4. ASSUME NEW c, NEW p, NEW result, StartGate(c, p) \/ GateCloses(c, p, result)
      PROVE  gates'[b][q] = "Completed"
  BY <1>2, <1>3, <1>4 DEF StartGate, GateCloses
<1>5. ASSUME NEW c, NEW pct, NEW who, SetCurrentVersion(c, who) \/ SetRampingVersion(c, pct, who)
      PROVE  gates' = gates
  BY <1>5, NewRoutingFields DEF SetCurrentVersion, SetRampingVersion
<1>6. CASE ReconcileStep
  BY <1>1, <1>4, <1>5, <1>6
     DEF ReconcileStep, Reconcile, DescribeNotFound, DescribeFound, DescribeDegraded,
         DescribeGone, generateStatus, generateStatusDegraded, generatePlan, ExecCreate,
         ExecScale, ExecUpdate, ExecStartGate, ExecVersionConfig, ExecStamp, ExecDone,
         ExecDelete, ExecRemoveIgnore, GiveUp, Abort, SetIgnoreLastModifier,
         ServerDeletes, serverVars
<1>7. CASE UserStep
  BY <1>1, <1>5, <1>7
     DEF UserStep, EditSpec, EditConnection, HumanRemovesRamp, HumanSetsCurrent,
         HumanSetsRamp, HumanHandsBack, SetIgnoreLastModifier, serverVars
<1>8. CASE EnvStep
  BY <1>1, <1>4, <1>8
     DEF EnvStep, Tick, TimePasses, ClusterStep, WorkersRegister, WorkflowStep, GateStep,
         ServerDeletesVersion, WorkersPoll, WorkflowStarts, WorkflowsClose, DrainageEnds,
         ServerDeletes, serverVars
<1> QED
  BY <1>1, <1>6, <1>7, <1>8 DEF Next, vars, serverVars

\* All of the task queues that are known, by counting: GatePassed.
LEMMA PassedIsCompleted ==
  ASSUME NEW st, st.target.tqs \in SUBSET TaskQueues, GatePassed(st),
         \A q \in TaskQueues : st.target.tests[q] # Nil => q \in st.target.tqs
  PROVE  st.target.tqs # {} /\ \A q \in st.target.tqs : st.target.tests[q] = "Completed"
<1> DEFINE started == {q \in TaskQueues : st.target.tests[q] # Nil}
           tqs == st.target.tqs
<1>1. /\ tqs # {} /\ Cardinality(started) >= Cardinality(tqs)
      /\ \A q \in started : st.target.tests[q] = "Completed"
  BY DEF GatePassed
<1>2. started \subseteq tqs /\ tqs \subseteq TaskQueues
  OBVIOUS
<1> HIDE DEF started, tqs
<1>3. IsFiniteSet(tqs)
  BY <1>2, FiniteAssumption, FS_Subset
<1>4. IsFiniteSet(started) /\ Cardinality(started) <= Cardinality(tqs)
  BY <1>2, <1>3, FS_Subset
<1>5. Cardinality(tqs) \in Nat /\ Cardinality(started) \in Nat
  BY <1>3, <1>4, FS_CardinalityType
<1>6. Cardinality(started) = Cardinality(tqs)
  BY <1>1, <1>4, <1>5
<1>7. started = tqs
  BY <1>2, <1>3, <1>6, FS_Subset
<1> QED
  BY <1>1, <1>7 DEF tqs

\* GateInv is inductive.
LEMMA GateKept ==
  ASSUME TypeOK, GateInv, [Next]_vars
  PROVE  GateInv'
<1>1. "latequeue" \notin Env => \A b \in Builds : vers'[b].tqs \in {{}, TaskQueues}
  <2> SUFFICES ASSUME "latequeue" \notin Env, NEW b \in Builds
               PROVE  vers'[b].tqs \in {{}, TaskQueues}
    OBVIOUS
  <2>1. VersionMoves(b)
    BY VersionsMove
  <2>2. vers[b].tqs \in {{}, TaskQueues}
    BY DEF GateInv
  <2>3. CASE \E qs \in SUBSET TaskQueues : qs = TaskQueues /\ vers'[b].tqs = vers[b].tqs \cup qs
    BY <2>2, <2>3
  <2> QED
    BY <2>1, <2>2, <2>3 DEF VersionMoves
<1>2. \A b \in Builds, q \in TaskQueues :
        gates[b][q] = "Completed" => gates'[b][q] = "Completed"
  BY GatesStay
<1>3. CASE pc' \in {"idle", "describe"}
  BY <1>1, <1>3 DEF GateInv
<1>4. CASE DescribeNotFound
  <2>1. pc' = "status" /\ \A b \in Builds : ts'.versions[b] = Nil
    BY <1>4, EmptyStateType DEF DescribeNotFound
  <2> QED
    BY <1>1, <2>1 DEF GateInv
<1>5. CASE DescribeFound \/ DescribeDegraded \/ \E b \in Builds : DescribeGone(b)
  <2>1. \E undescribed, gone : \E unversioned \in BOOLEAN :
          DescribeWith(undescribed, gone, unversioned)
    BY <1>5 DEF DescribeFound, DescribeDegraded, DescribeGone
  <2>2. PICK undescribed, gone : \E unversioned \in BOOLEAN :
          DescribeWith(undescribed, gone, unversioned)
    BY <2>1
  <2>3. PICK unversioned \in BOOLEAN : DescribeWith(undescribed, gone, unversioned)
    BY <2>2
  <2>4. pc' = "status"
        /\ ts' = GetWorkerDeploymentState(w, k8s, undescribed, gone,
                                          {b \in Builds : HasPods(b)}, unversioned)
    BY <2>3 DEF DescribeWith
  <2>5. \A b \in Builds : ts'.versions[b] # Nil =>
          ts'.versions[b].tqs = {} /\ \A q \in TaskQueues : ts'.versions[b].tests[q] = Nil
    BY <2>4, DescribeReads DEF TypeOK
  <2> QED
    BY <1>1, <2>4, <2>5 DEF GateInv
<1>6. CASE generateStatus \/ generateStatusDegraded
  <2>1. /\ pc = "status" /\ pc' = "plan" /\ w' = w /\ gates' = gates
        /\ ts \in TemporalState /\ w.build \in Builds
    BY <1>6, GatesRead DEF serverVars
  <2>3. CASE ts'.versions[w.build] = ts.versions[w.build]
    <3>1. ts'.versions[w.build] # Nil =>
            ts'.versions[w.build].tqs = {} /\ \A q \in TaskQueues : ts'.versions[w.build].tests[q] = Nil
      BY <2>1, <2>3 DEF GateInv
    <3>2. Nil # "Completed"
      BY NilIsNoRecord DEF WorkflowStatuses
    <3> QED
      BY <1>1, <2>1, <3>1, <3>2 DEF GateInv
  <2>4. CASE ts'.versions[w.build] # ts.versions[w.build]
    <3>1. PICK tqs \in SUBSET TaskQueues, ok \in BOOLEAN :
            /\ ts.versions[w.build] # Nil
            /\ ok => tqs = vers[w.build].tqs
            /\ ts'.versions[w.build] = [ts.versions[w.build] EXCEPT
                 !.tqs = tqs,
                 !.tests = [q \in TaskQueues |-> IF ok /\ q \in tqs THEN gates[w.build][q] ELSE Nil]]
      BY <1>6, <2>4, GatesRead
    <3>2. ts.versions[w.build] \in VersionInfo
      BY <2>1, <3>1 DEF TemporalState
    <3>3. /\ ts'.versions[w.build].tqs = tqs
          /\ ts'.versions[w.build].tests
               = [q \in TaskQueues |-> IF ok /\ q \in tqs THEN gates[w.build][q] ELSE Nil]
      BY <3>1, <3>2, FilledIn
    <3>4. "latequeue" \notin Env =>
            \/ ts'.versions[w.build].tqs \in {{}, TaskQueues}
            \/ \A q \in TaskQueues : ts'.versions[w.build].tests[q] = Nil
      <4>1. CASE ok
        BY <2>1, <3>1, <3>3, <4>1 DEF GateInv
      <4>2. CASE ~ok
        BY <3>3, <4>2
      <4> QED
        BY <4>1, <4>2
    <3>5. \A q \in TaskQueues :
            /\ ts'.versions[w.build].tests[q] # Nil => q \in ts'.versions[w.build].tqs
            /\ ts'.versions[w.build].tests[q] = "Completed" => gates[w.build][q] = "Completed"
      BY <3>3, NilIsNoRecord DEF WorkflowStatuses
    <3> QED
      BY <1>1, <2>1, <3>4, <3>5 DEF GateInv
  <2> QED
    BY <2>3, <2>4
<1>7. CASE generatePlan
  <2>1. /\ pc = "plan" /\ pc' = "exec" /\ UNCHANGED <<w, ts, gates>>
        /\ ts \in TemporalState /\ w.build \in Builds
    BY <1>7, SpecFields DEF generatePlan, serverVars, TypeOK, RecTypeOK
  <2>2. CASE plan'.vcfg # Nil /\ w.gate
    <3>1. ts.versions[w.build] # Nil /\ GatePassed(status)
      BY <1>7, <2>2, PlannedConfig
    <3>2. /\ status.target.tqs = ts.versions[w.build].tqs
          /\ status.target.tests = ts.versions[w.build].tests
      BY <3>1 DEF status, mapToStatus, mapTargetWorkerDeploymentVersionByBuildID
    <3>3. ts.versions[w.build] \in VersionInfo
      BY <2>1, <3>1 DEF TemporalState
    <3>4. ts.versions[w.build].tqs \in SUBSET TaskQueues
      BY <3>3 DEF VersionInfo
    <3>5. /\ \A q \in TaskQueues :
               /\ ts.versions[w.build].tests[q] # Nil => q \in ts.versions[w.build].tqs
               /\ ts.versions[w.build].tests[q] = "Completed" => gates[w.build][q] = "Completed"
          /\ "latequeue" \notin Env =>
               \/ ts.versions[w.build].tqs \in {{}, TaskQueues}
               \/ \A q \in TaskQueues : ts.versions[w.build].tests[q] = Nil
      BY <2>1, <3>1 DEF GateInv
    <3>6. /\ ts.versions[w.build].tqs # {}
          /\ \A q \in ts.versions[w.build].tqs : ts.versions[w.build].tests[q] = "Completed"
      BY <3>1, <3>2, <3>4, <3>5, PassedIsCompleted
    <3>7. "latequeue" \notin Env => ts.versions[w.build].tqs = TaskQueues
      BY <3>4, <3>5, <3>6, NilIsNoRecord DEF WorkflowStatuses
    <3> QED
      BY <1>1, <2>1, <3>4, <3>5, <3>6, <3>7 DEF GateInv
  <2> QED
    BY <1>1, <2>1, <2>2 DEF GateInv
<1>8. CASE ExecStep
  <2>1. /\ pc = "exec" /\ UNCHANGED <<pc, w, ts>> /\ w.build \in Builds
        /\ plan'.vcfg = Nil \/ plan'.vcfg = plan.vcfg
    BY <1>8, ExecKeeps, SpecFields DEF TypeOK, RecTypeOK
  <2> QED
    BY <1>1, <1>2, <2>1 DEF GateInv
<1>9. CASE Tick
  <2>1. UNCHANGED <<pc, w, plan, gates>>
    BY <1>9 DEF Tick, TimePasses
  <2>2. CASE pc \in {"status", "plan"}
    <3>1. ts \in TemporalState /\ ts' = AgeState(ts) /\ w.build \in Builds
      BY <1>9, <2>2, SpecFields DEF Tick, TypeOK, RecTypeOK
    <3>2. ASSUME NEW b \in Builds
          PROVE  /\ ts.versions[b] = Nil => ts'.versions[b] = Nil
                 /\ ts.versions[b] # Nil => /\ ts'.versions[b].tqs = ts.versions[b].tqs
                                            /\ ts'.versions[b].tests = ts.versions[b].tests
      <4>1. ts.versions[b] # Nil => ts.versions[b] \in VersionInfo
        BY <3>1 DEF TemporalState
      <4> QED
        BY <3>1, <4>1, AgedReads, AgedEntry
    <3> QED
      BY <1>1, <2>1, <2>2, <3>1, <3>2 DEF GateInv
  <2>3. CASE pc \notin {"status", "plan"}
    <3>1. ts' = ts
      BY <1>9, <2>3 DEF Tick
    <3> QED
      BY <1>1, <2>1, <2>3, <3>1 DEF GateInv
  <2> QED
    BY <2>2, <2>3
<1>10. CASE UNCHANGED recVars
  <2>1. pc \in {"plan", "exec"} => w.build \in Builds
    BY SpecFields DEF TypeOK, RecTypeOK
  <2> QED
    BY <1>1, <1>2, <1>10, <2>1 DEF GateInv, recVars
<1> QED
  BY <1>3, <1>4, <1>5, <1>6, <1>7, <1>8, <1>9, <1>10, ReconcileMoves

\* GateInv holds whatever the environment does.
LEMMA GateInvariant == Spec => [](TypeOK /\ RampInv /\ GateInv)
<1>1. Init => GateInv /\ RampInv
  BY DEF Init, GateInv, RampInv, ServerInit
<1>2. TypeOK /\ GateInv /\ [Next]_vars => GateInv'
  BY GateKept
<1>3. TypeOK /\ TokenInv /\ TokenInv' /\ RampInv /\ [Next]_vars => RampInv'
  BY RampStep
<1> QED
  BY <1>1, <1>2, <1>3, TypeCorrect, TokenInvariant, PTL DEF Spec

\* What GateInv says of a promotion.
LEMMA PromotedIsGated ==
  ASSUME TypeOK, GateInv, RampInv, [Next]_vars, NEW b \in Builds, Promotes(b), w.gate
  PROVE  LET known == ts.versions[b].tqs IN
         /\ Registered(b)
         /\ known # {} /\ known \subseteq TaskQueues
         /\ \A q \in known : gates[b][q] = "Completed"
         /\ "latequeue" \notin Env => known = TaskQueues
<1>1. ExecVersionConfig
  BY OnlyExecRoutes DEF Promotes
<1>2. pc = "exec" /\ plan.vcfg # Nil
  BY <1>1 DEF ExecVersionConfig, AtConfig, AtStart, AtUpdate, AtScale, AtDelete
<1>3. b = w.build /\ Registered(b)
  BY <1>1, PromotesTarget
<1> QED
  BY <1>2, <1>3 DEF GateInv

\* The controller sends no new executions to a gated version before the gate
\* workflow has completed on every task queue of the version that it has seen,
\* and it has seen one.
KnownQueuesGated ==
  [][\A b \in Builds :
       Promotes(b) /\ w.gate =>
         /\ ts.versions[b].tqs # {}
         /\ \A q \in ts.versions[b].tqs : gates[b][q] = "Completed"]_vars

\* getVersionConfigDiff counts workflows and task queues that were read before, one
\* call after the other.  Whatever registers, fails, is deleted or changed in the
\* meantime, the task queues that it counted have passed the gate.
THEOREM KnownQueuesPassTheGate == Spec => KnownQueuesGated
<1>1. TypeOK /\ GateInv /\ RampInv /\ [Next]_vars =>
        [\A b \in Builds :
           Promotes(b) /\ w.gate =>
             /\ ts.versions[b].tqs # {}
             /\ \A q \in ts.versions[b].tqs : gates[b][q] = "Completed"]_vars
  BY PromotedIsGated
<1> QED
  BY <1>1, GateInvariant, PTL DEF Spec, KnownQueuesGated

\* Where the task queues of a version register together, no version gets traffic
\* from the controller before its gate workflow completed on all of them.
THEOREM GateComesFirst ==
  ASSUME "latequeue" \notin Env
  PROVE  Spec => GateBeforeTraffic
<1>1. TypeOK /\ GateInv /\ RampInv /\ [Next]_vars =>
        [\A b \in Builds :
           Promotes(b) /\ w.gate =>
             /\ Registered(b)
             /\ \A q \in vers[b].tqs : gates[b][q] = "Completed"]_vars
  <2> SUFFICES ASSUME TypeOK, GateInv, RampInv, [Next]_vars, NEW b \in Builds, Promotes(b), w.gate
               PROVE  Registered(b) /\ \A q \in vers[b].tqs : gates[b][q] = "Completed"
    OBVIOUS
  <2>1. vers[b].tqs \subseteq TaskQueues
    <3>1. vers[b] \in Version
      BY DEF TypeOK, ServerTypeOK
    <3> QED
      BY <3>1 DEF Version
  <2> QED
    BY <2>1, PromotedIsGated
<1> QED
  BY <1>1, GateInvariant, PTL DEF Spec, GateBeforeTraffic

=============================================================================
