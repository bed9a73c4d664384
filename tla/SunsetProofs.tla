---------------------------- MODULE SunsetProofs ----------------------------
(***************************************************************************)
(* Proofs about the workers of the versions, for all builds, task queues,   *)
(* specs and failures: a version in use keeps its workers, a version that   *)
(* drained keeps them for its delays, and no more versions are deployed     *)
(* than allowed.                                                            *)
(*                                                                         *)
(* The theorems say what they need of the surroundings: people route only   *)
(* to versions that are in use or have workers that the Reconcile under way *)
(* leaves alone (for the limit: not at all), the cache is up to date (no    *)
(* lag), and no spec asks for zero replicas.  A person who routes to a      *)
(* version that has no workers, or a user who asks for none, gets none.     *)
(***************************************************************************)
EXTENDS RoutingProofs

----------------------------------------------------------------------------
(* The versions on the server *)

HasWorkers(b) == deploys[b] # Nil /\ deploys[b].replicas > 0

\* What people do: they leave the routing config alone, or send executions only
\* to versions that are in use or that have workers.  While a Reconcile that
\* has read the versions is under way, the latter is its target: what the Manual
\* strategy leaves to people, to promote the version that the spec asks for.
PeopleRouteToWorkers ==
  UserStep =>
    \A b \in Builds : Routed(b)' =>
      \/ ~Unused(b)
      \/ HasWorkers(b) /\ (pc \in {"idle", "describe"} \/ b = w.build)

\* A version that is routed to is not draining, what is pinned is routed to or
\* draining, and the server knows the versions of which it keeps anything.
ServerInv ==
  \A b \in Builds :
    /\ Routed(b) => vers[b].drain = "None"
    /\ vers[b].pinned => Routed(b) \/ vers[b].drain = "Draining"
    /\ Routed(b) \/ vers[b].drain # "None" => Registered(b)

\* Only executePlan and people change the routing config.
LEMMA WhoRoutes ==
  ASSUME TypeOK, [Next]_vars, routing'.token # routing.token
  PROVE  \/ ExecVersionConfig
         \/ UserStep /\ humans > 0 /\ UNCHANGED <<kubeVars, recVars>>
<1>1. CASE ReconcileStep
  <2>1. ASSUME NEW b, ServerDeletes(b)
        PROVE  FALSE
    BY <2>1 DEF ServerDeletes, TypeOK, ServerTypeOK, RoutingConfig
  <2> QED
    BY <1>1, <2>1
       DEF ReconcileStep, Reconcile, DescribeNotFound, DescribeFound, DescribeDegraded,
           DescribeGone, generateStatus, generateStatusDegraded, generatePlan, ExecCreate,
           ExecScale, ExecUpdate, ExecStartGate, ExecStamp, ExecDone, ExecDelete,
           ExecRemoveIgnore, GiveUp, Abort, StartGate, SetIgnoreLastModifier, serverVars
<1>2. CASE UserStep
  BY <1>2
     DEF UserStep, EditSpec, EditConnection, HumanRemovesRamp, HumanSetsCurrent,
         HumanSetsRamp, HumanHandsBack, HumanChange, serverVars
<1>3. CASE EnvStep
  <2>1. CASE Tick
    BY <2>1, TimeType DEF Tick, TypeOK
  <2>2. ASSUME NEW b, ServerDeletes(b)
        PROVE  FALSE
    BY <2>2 DEF ServerDeletes, TypeOK, ServerTypeOK, RoutingConfig
  <2> QED
    BY <1>3, <2>1, <2>2
       DEF EnvStep, ClusterStep, WorkersRegister, WorkflowStep, GateStep,
           ServerDeletesVersion, WorkersPoll, WorkflowStarts, WorkflowsClose, DrainageEnds,
           GateCloses, serverVars
<1> QED
  BY <1>1, <1>2, <1>3 DEF Next, vars, serverVars

\* A person who may not route does not come back to it.
LEMMA NoPeople ==
  ASSUME humans = 0, [Next]_vars
  PROVE  humans' = 0
<1>1. CASE ReconcileStep
  BY <1>1
     DEF ReconcileStep, Reconcile, DescribeNotFound, DescribeFound, DescribeDegraded,
         DescribeGone, generateStatus, generateStatusDegraded, generatePlan, ExecCreate,
         ExecScale, ExecUpdate, ExecStartGate, ExecVersionConfig, ExecStamp, ExecDone,
         ExecDelete, ExecRemoveIgnore, GiveUp, Abort, Fault, userVars, execVars
<1>2. CASE UserStep
  BY <1>2
     DEF UserStep, EditSpec, EditConnection, HumanRemovesRamp, HumanSetsCurrent,
         HumanSetsRamp, HumanHandsBack, HumanChange
<1>3. CASE EnvStep
  BY <1>3
     DEF EnvStep, Tick, ClusterStep, WorkersRegister, WorkflowStep, GateStep,
         ServerDeletesVersion, userVars
<1> QED
  BY <1>1, <1>2, <1>3 DEF Next, vars, userVars

\* What executePlan adds to the routing config is the target.
LEMMA NewlyRouted ==
  ASSUME TypeOK, RampInv, ExecVersionConfig, NEW b \in Builds, Routed(b)', ~Routed(b)
  PROVE  b = w.build /\ Registered(b)
<1>1. pc = "exec" /\ plan.vcfg # Nil
  BY DEF ExecVersionConfig, AtConfig, AtStart, AtUpdate, AtScale, AtDelete
<1>2. PICK p : p = plan.vcfg
  OBVIOUS
<1>3. p.build \in {Nil, w.build}
  BY <1>1, <1>2 DEF RampInv
<1>4. b # Nil
  BY NilAssumption
<1>5. CASE p.setCurrent
  <2>1. SetCurrentVersion(p.build, Controller)
    BY <1>2, <1>5 DEF ExecVersionConfig
  <2>2. routing'.current = p.build /\ routing'.ramping \in {Nil, routing.ramping}
    BY <2>1, NewRoutingFields DEF SetCurrentVersion
  <2>3. b = p.build
    BY <1>4, <2>2 DEF Routed
  <2> QED
    BY <1>3, <1>4, <2>1, <2>3 DEF SetCurrentVersion
<1>6. CASE ~p.setCurrent
  <2>1. SetRampingVersion(p.build, p.pct, Controller)
    BY <1>2, <1>6 DEF ExecVersionConfig
  <2>2. routing'.current = routing.current /\ routing'.ramping = p.build
    BY <2>1, NewRoutingFields DEF SetRampingVersion
  <2>3. b = p.build
    BY <2>2 DEF Routed
  <2> QED
    BY <1>3, <1>4, <2>1, <2>3 DEF SetRampingVersion
<1> QED
  BY <1>5, <1>6

\* What people add is known to the server.
LEMMA PeopleRoute ==
  ASSUME UserStep, NEW b \in Builds, Routed(b)', ~Routed(b)
  PROVE  Registered(b)
<1>1. b # Nil
  BY NilAssumption
<1>2. ASSUME NEW c \in Builds \cup {Nil}, SetCurrentVersion(c, Human)
      PROVE  Registered(b)
  <2>1. routing'.current = c /\ routing'.ramping \in {Nil, routing.ramping}
    BY <1>2, NewRoutingFields DEF SetCurrentVersion
  <2> QED
    BY <1>1, <1>2, <2>1 DEF Routed, SetCurrentVersion
<1>3. ASSUME NEW c \in Builds \cup {Nil}, NEW pct, SetRampingVersion(c, pct, Human)
      PROVE  Registered(b)
  <2>1. routing'.current = routing.current /\ routing'.ramping = c
    BY <1>3, NewRoutingFields DEF SetRampingVersion
  <2> QED
    BY <1>1, <1>3, <2>1 DEF Routed, SetRampingVersion
<1>4. CASE routing' = routing
  BY <1>4 DEF Routed
<1> QED
  BY <1>2, <1>3, <1>4
     DEF UserStep, EditSpec, EditConnection, HumanRemovesRamp, HumanSetsCurrent,
         HumanSetsRamp, HumanHandsBack, SetIgnoreLastModifier, serverVars

\* While the token stays, so does what is routed to.
LEMMA RoutedKept ==
  ASSUME TypeOK, [Next]_vars, routing'.token = routing.token
  PROVE  /\ RoutingKept
         /\ \A b \in Builds : Routed(b)' <=> Routed(b)
<1>1. RoutingKept
  <2>1. routing.token \in Nat
    BY DEF TypeOK, ServerTypeOK, RoutingConfig
  <2> QED
    BY <2>1, RoutingMoves DEF Moves
<1> QED
  BY <1>1 DEF RoutingKept, Routed

\* ServerInv is inductive.
LEMMA ServerKept ==
  ASSUME TypeOK, RampInv, ServerInv, [Next]_vars
  PROVE  ServerInv'
<1>1. ASSUME NEW b \in Builds
      PROVE  /\ Routed(b)' => vers'[b].drain = "None"
             /\ vers'[b].pinned => Routed(b)' \/ vers'[b].drain = "Draining"
             /\ Routed(b)' \/ vers'[b].drain # "None" => vers'[b].tqs # {}
  <2>1. VersionMoves(b)
    BY VersionsMove
  <2>2. /\ Routed(b) => vers[b].drain = "None"
        /\ vers[b].pinned => Routed(b) \/ vers[b].drain = "Draining"
        /\ Routed(b) \/ vers[b].drain # "None" => vers[b].tqs # {}
    BY DEF ServerInv, Registered
  <2>3. CASE routing'.token = routing.token
    <3>1. Routed(b)' <=> Routed(b)
      BY <2>3, RoutedKept
    <3> HIDE DEF Routed
    <3> QED
      BY <2>1, <2>2, <2>3, <3>1 DEF VersionMoves
  <2>4. CASE routing'.token # routing.token
    <3>1. Routed(b)' => Routed(b) \/ vers[b].tqs # {}
      <4>1. CASE ExecVersionConfig
        BY <4>1, NewlyRouted DEF Registered
      <4>2. CASE UserStep
        BY <4>2, PeopleRoute DEF Registered
      <4> QED
        BY <2>4, <4>1, <4>2, WhoRoutes
    <3>2. routing' # routing
      BY <2>4
    <3> QED
      BY <2>1, <2>2, <2>4, <3>1, <3>2 DEF VersionMoves
  <2> QED
    BY <2>3, <2>4
<1> QED
  BY <1>1 DEF ServerInv, Registered

\* Once Reconcile has read the versions, one that is unused and not its target
\* stays unused, but for what executePlan routes to.
LEMMA UnusedKept ==
  ASSUME TypeOK, [Next]_vars, [PeopleRouteToWorkers]_vars, ~ExecVersionConfig,
         pc \in {"status", "plan", "exec"}, NEW b \in Builds \ {w.build}, Unused(b)
  PROVE  /\ ~Routed(b)'
         /\ \/ /\ vers'[b].drain = vers[b].drain
               /\ vers'[b].age = IF Tick /\ vers[b].drain = "Drained" THEN Older(vers[b].age)
                                 ELSE vers[b].age
            \/ "serverdelete" \in Env /\ vers[b].drain = "Drained" /\ vers'[b].drain = "None"
<1>1. VersionMoves(b) /\ ~Routed(b) /\ vers[b].drain # "Draining"
  BY VersionsMove DEF Unused
<1>2. CASE routing'.token = routing.token
  <2>1. ~Routed(b)'
    BY <1>1, <1>2, RoutedKept
  <2> QED
    BY <1>1, <1>2, <2>1 DEF VersionMoves
<1>3. CASE routing'.token # routing.token
  <2>1. UserStep /\ UNCHANGED <<kubeVars, recVars>>
    BY <1>3, WhoRoutes
  <2>2. ~Routed(b)'
    BY <1>3, <2>1 DEF PeopleRouteToWorkers, vars, serverVars
  <2>3. ~Tick
    <3>1. Tick => routing'.token = routing.token
      BY TimeType DEF Tick, TypeOK
    <3> QED
      BY <1>3, <3>1
  <2> QED
    BY <1>1, <1>3, <2>2, <2>3 DEF VersionMoves
<1> QED
  BY <1>2, <1>3

----------------------------------------------------------------------------
(* What Reconcile knows of Deployments and versions *)

\* What Reconcile read of version b still holds: a version that it takes for
\* unknown or never used is unused, one that it takes for drained is so for at
\* least as long as it thinks, unless the server has deleted it since.
Truthful(tstate, b) ==
  /\ StatusOf(tstate, b) \in {"NotRegistered", "Inactive"} => ~Routed(b) /\ vers[b].drain = "None"
  /\ StatusOf(tstate, b) = "Drained" /\ tstate.versions[b].drainedAge # Nil =>
       /\ Unused(b)
       /\ vers[b].drain = "Drained" => vers[b].age >= tstate.versions[b].drainedAge
       /\ "serverdelete" \notin Env => vers[b].drain = "Drained"
  /\ tstate.versions[b] # Nil /\ tstate.versions[b].noPollers =>
       StatusOf(tstate, b) = "Drained" /\ tstate.versions[b].drainedAge # Nil

\* Until it executes its plan, what Reconcile read of the versions holds, but
\* for the target, which people may promote...
TruthInv ==
  pc \in {"status", "plan"} /\ ts.token # Nil =>
    \A b \in Builds \ {w.build} : Truthful(ts, b)

\* ...and the Deployments that it listed are those that exist.
ListInv ==
  pc \in {"describe", "status", "plan"} => \A b \in Builds : k8s[b] = Nil <=> deploys[b] = Nil

\* What Describe says of each version.
LEMMA DescribeVersions ==
  ASSUME ServerTypeOK, NEW spec, NEW d, NEW undescribed, NEW gone, NEW polled,
         NEW unversioned \in BOOLEAN, NEW b \in Builds, NEW r,
         r = GetWorkerDeploymentState(spec, d, undescribed, gone, polled, unversioned)
  PROVE  IF ~Registered(b) THEN r.versions[b] = Nil
         ELSE /\ r.versions[b] # Nil
              /\ r.versions[b].status = IF b \in gone THEN "NotRegistered" ELSE VersionStatus(b)
              /\ r.versions[b].drainedAge =
                   IF VersionStatus(b) = "Drained" /\ b \notin undescribed \cup gone
                   THEN vers[b].age ELSE Nil
              /\ r.versions[b].noPollers =>
                   VersionStatus(b) = "Drained" /\ b \notin undescribed \cup gone
<1>1. CASE ~Registered(b)
  BY <1>1 DEF GetWorkerDeploymentState
<1>2. CASE Registered(b)
  <2>1. r.versions[b] # Nil
    BY <1>2, DescribeReads
  <2>2. r.versions[b].status = IF b \in gone THEN "NotRegistered" ELSE VersionStatus(b)
    BY <1>2 DEF GetWorkerDeploymentState
  <2>3. r.versions[b].drainedAge =
          IF VersionStatus(b) = "Drained" /\ b \notin undescribed \cup gone
          THEN vers[b].age ELSE Nil
    BY <1>2 DEF GetWorkerDeploymentState
  <2>4. r.versions[b].noPollers => VersionStatus(b) = "Drained" /\ b \notin undescribed \cup gone
    BY <1>2 DEF GetWorkerDeploymentState
  <2> QED
    BY <1>2, <2>1, <2>2, <2>3, <2>4
<1> QED
  BY <1>1, <1>2

\* Describe reads the truth.
LEMMA DescribeIsTruthful ==
  ASSUME TypeOK, ServerInv, [Next]_vars, NEW b \in Builds,
         DescribeFound \/ DescribeDegraded \/ \E c \in Builds : DescribeGone(c)
  PROVE  Truthful(ts, b)'
<1>0. /\ pc = "describe" /\ RoutingKept /\ (Routed(b)' <=> Routed(b)) /\ ServerTypeOK
      /\ vers[b].age \in Nat
  <2>1. pc = "describe" /\ pc' = "status"
    BY DEF DescribeFound, DescribeDegraded, DescribeGone, DescribeWith
  <2>2. routing'.token = routing.token
    BY <2>1, WhoRoutes
       DEF recVars, ExecVersionConfig, AtConfig, AtStart, AtUpdate, AtScale, AtDelete
  <2>3. vers[b] \in Version
    BY DEF TypeOK, ServerTypeOK
  <2> QED
    BY <2>1, <2>2, <2>3, RoutedKept DEF TypeOK, Version
<1>1. /\ Routed(b) => vers[b].drain = "None"
      /\ vers[b].drain # "None" => Registered(b)
      /\ Routed(b) => Registered(b)
  BY DEF ServerInv
<1>2. ASSUME NEW undescribed, NEW gone, NEW unversioned \in BOOLEAN,
             DescribeWith(undescribed, gone, unversioned),
             IF b \in gone THEN vers'[b].drain = "None" /\ vers[b].drain = "Drained"
             ELSE vers'[b].drain = vers[b].drain /\ vers'[b].age = vers[b].age
      PROVE  Truthful(ts, b)'
  <2>1. ts' = GetWorkerDeploymentState(w, k8s, undescribed, gone, {c \in Builds : HasPods(c)},
                                       unversioned)
    BY <1>2 DEF DescribeWith
  <2>2. IF ~Registered(b) THEN ts'.versions[b] = Nil
        ELSE /\ ts'.versions[b] # Nil
             /\ ts'.versions[b].status = IF b \in gone THEN "NotRegistered" ELSE VersionStatus(b)
             /\ ts'.versions[b].drainedAge =
                  IF VersionStatus(b) = "Drained" /\ b \notin undescribed \cup gone
                  THEN vers[b].age ELSE Nil
             /\ ts'.versions[b].noPollers =>
                  VersionStatus(b) = "Drained" /\ b \notin undescribed \cup gone
    BY <1>0, <2>1, DescribeVersions
  <2>3. /\ VersionStatus(b) # "NotRegistered"
        /\ VersionStatus(b) = "Inactive" =>
             ~Routed(b) /\ vers[b].drain # "Draining" /\ vers[b].drain # "Drained"
        /\ VersionStatus(b) = "Drained" => ~Routed(b) /\ vers[b].drain = "Drained"
    BY DEF VersionStatus, Routed
  <2>4. vers[b].drain \in {"None", "Draining", "Drained"}
    <3>1. vers[b] \in Version
      BY DEF TypeOK, ServerTypeOK
    <3> QED
      BY <3>1 DEF Version
  <2>5. CASE ~Registered(b)
    <3>1. StatusOf(ts, b)' = "NotRegistered" /\ ts'.versions[b] = Nil
      BY <2>2, <2>5 DEF StatusOf
    <3>2. ~Routed(b)' /\ vers'[b].drain = "None"
      BY <1>0, <1>1, <1>2, <2>5
    <3> QED
      BY <3>1, <3>2 DEF Truthful
  <2>6. CASE Registered(b) /\ b \in gone
    <3>1. StatusOf(ts, b)' = "NotRegistered" /\ ~ts'.versions[b].noPollers
      BY <2>2, <2>6 DEF StatusOf
    <3>2. ~Routed(b)' /\ vers'[b].drain = "None"
      BY <1>0, <1>1, <1>2, <2>6
    <3> QED
      BY <3>1, <3>2 DEF Truthful
  <2>7. CASE Registered(b) /\ b \notin gone
    <3>1. /\ StatusOf(ts, b)' = VersionStatus(b)
          /\ ts'.versions[b].drainedAge # Nil =>
               VersionStatus(b) = "Drained" /\ ts'.versions[b].drainedAge = vers[b].age
          /\ ts'.versions[b].noPollers => VersionStatus(b) = "Drained" /\ ts'.versions[b].drainedAge # Nil
      BY <1>0, <2>2, <2>7, NilAssumption DEF StatusOf
    <3>2. vers'[b].drain = vers[b].drain /\ vers'[b].age = vers[b].age
      BY <1>2, <2>7
    <3> HIDE DEF VersionStatus, Routed
    <3> QED
      BY <1>0, <2>3, <2>4, <3>1, <3>2 DEF Truthful, Unused
  <2> QED
    BY <2>5, <2>6, <2>7
<1>3. CASE DescribeFound
  BY <1>2, <1>3 DEF DescribeFound, serverVars
<1>4. CASE DescribeDegraded
  BY <1>2, <1>4 DEF DescribeDegraded, serverVars
<1>5. ASSUME NEW c \in Builds, DescribeGone(c)
      PROVE  Truthful(ts, b)'
  <2>1. /\ vers' = [vers EXCEPT ![c] = [vers[c] EXCEPT !.tqs = {}, !.drain = "None", !.age = 0,
                                                       !.ignore = FALSE]]
        /\ vers[c].drain = "Drained" /\ DescribeWith({}, {c}, FALSE)
    BY <1>5 DEF DescribeGone, ServerDeletes, TypeOK, ServerTypeOK
  <2>2. vers \in [Builds -> Version] /\ vers[c] \in Version
    BY DEF TypeOK, ServerTypeOK
  <2>3. IF b = c THEN vers'[b].drain = "None" ELSE vers'[b] = vers[b]
    BY <2>1, <2>2 DEF Version
  <2> QED
    BY <1>2, <2>1, <2>3
<1> QED
  BY <1>3, <1>4, <1>5

\* It stays true until executePlan routes: what is unused stays so, and ages
\* grow alike.
LEMMA TruthKept ==
  ASSUME TypeOK, [Next]_vars, [PeopleRouteToWorkers]_vars, ~ExecVersionConfig,
         pc \in {"status", "plan", "exec"}, NEW b \in Builds \ {w.build}, Truthful(ts, b),
         ts \in TemporalState,
         ts.versions[b] = Nil => ts'.versions[b] = Nil,
         ts.versions[b] # Nil =>
           /\ ts'.versions[b] # Nil
           /\ ts'.versions[b].status = ts.versions[b].status
           /\ ts'.versions[b].noPollers = ts.versions[b].noPollers
           /\ ts'.versions[b].drainedAge =
                IF Tick /\ ts.versions[b].drainedAge # Nil THEN Older(ts.versions[b].drainedAge)
                ELSE ts.versions[b].drainedAge
  PROVE  Truthful(ts, b)'
<1> DEFINE known == ts.versions[b] # Nil
           da  == ts.versions[b].drainedAge
           da2 == ts'.versions[b].drainedAge
<1>1. StatusOf(ts, b)' = StatusOf(ts, b)
  BY DEF StatusOf
<1>2. Unused(b) =>
        /\ ~Routed(b)'
        /\ \/ /\ vers'[b].drain = vers[b].drain
              /\ vers'[b].age = IF Tick /\ vers[b].drain = "Drained" THEN Older(vers[b].age)
                                ELSE vers[b].age
           \/ "serverdelete" \in Env /\ vers[b].drain = "Drained" /\ vers'[b].drain = "None"
  BY UnusedKept
<1>4. known => da \in Nat \cup {Nil}
  <2>1. known => ts.versions[b] \in VersionInfo
    BY DEF TemporalState
  <2> QED
    BY <2>1 DEF VersionInfo
<1>5. vers[b].age \in Nat /\ vers[b].drain \in {"None", "Draining", "Drained"}
  <2>1. vers[b] \in Version
    BY DEF TypeOK, ServerTypeOK
  <2> QED
    BY <2>1 DEF Version
<1>6. known => /\ da2 # Nil <=> da # Nil
               /\ da2 = IF Tick /\ da # Nil THEN Older(da) ELSE da
  BY <1>4, NilAssumption, AgeCapAssumption DEF Older
<1>7. StatusOf(ts, b) = "Drained" => known
  BY DEF StatusOf
<1>8. ASSUME StatusOf(ts, b) \in {"NotRegistered", "Inactive"}
      PROVE  ~Routed(b)' /\ vers'[b].drain = "None"
  BY <1>2, <1>8 DEF Truthful, Unused
<1>9. ASSUME StatusOf(ts, b) = "Drained", da2 # Nil
      PROVE  /\ ~Routed(b)' /\ vers'[b].drain # "Draining"
             /\ vers'[b].drain = "Drained" => vers'[b].age >= da2
             /\ "serverdelete" \notin Env => vers'[b].drain = "Drained"
  <2>1. /\ Unused(b) /\ vers[b].drain # "Draining" /\ da \in Nat
        /\ vers[b].drain = "Drained" => vers[b].age >= da
        /\ "serverdelete" \notin Env => vers[b].drain = "Drained"
    BY <1>4, <1>6, <1>7, <1>9 DEF Truthful, Unused
  <2>2. /\ ~Routed(b)'
        /\ \/ /\ vers'[b].drain = vers[b].drain
              /\ vers'[b].age = IF Tick /\ vers[b].drain = "Drained" THEN Older(vers[b].age)
                                ELSE vers[b].age
           \/ "serverdelete" \in Env /\ vers'[b].drain = "None"
    BY <1>2, <2>1
  <2>3. da2 = IF Tick THEN Older(da) ELSE da
    BY <1>6, <1>7, <1>9, <2>1, NilAssumption
  <2> HIDE DEF da, da2
  <2>4. vers'[b].drain = "Drained" => vers'[b].age >= da2
    BY <1>5, <2>1, <2>2, <2>3, AgeCapAssumption DEF Older
  <2> QED
    BY <2>1, <2>2, <2>4
<1>10. ts'.versions[b] # Nil /\ ts'.versions[b].noPollers =>
         StatusOf(ts, b) = "Drained" /\ da2 # Nil
  BY <1>6 DEF Truthful
<1> QED
  BY <1>1, <1>8, <1>9, <1>10 DEF Truthful, Unused

\* The list of Deployments is made by Reconcile and kept until it has planned.
LEMMA ListKept ==
  ASSUME TypeOK, [Next]_vars, pc' \in {"describe", "status", "plan"}
  PROVE  \/ Reconcile
         \/ pc \in {"describe", "status", "plan"} /\ k8s' = k8s /\ ~ExecStep
<1>1. CASE ExecStep
  BY <1>1, ExecKeeps
<1>2. CASE ReconcileStep /\ ~ExecStep
  BY <1>2
     DEF ReconcileStep, ExecStep, DescribeNotFound, DescribeFound, DescribeDegraded,
         DescribeGone, DescribeWith, generateStatus, generateStatusDegraded, generatePlan,
         ExecDone, GiveUp, Abort, Return
<1>3. CASE UserStep /\ ~ExecStep
  BY <1>3
     DEF UserStep, EditSpec, EditConnection, HumanRemovesRamp, HumanSetsCurrent,
         HumanSetsRamp, HumanHandsBack, HumanChange, recVars
<1>4. CASE EnvStep /\ ~ExecStep
  BY <1>4
     DEF EnvStep, Tick, ClusterStep, WorkersRegister, WorkflowStep, GateStep,
         ServerDeletesVersion, recVars
<1> QED
  BY <1>1, <1>2, <1>3, <1>4 DEF Next, vars, recVars

\* Deployments come, go and are scaled by executePlan alone.
DeploymentsKept ==
  \A b \in Builds :
    /\ deploys'[b] = Nil <=> deploys[b] = Nil
    /\ deploys[b] # Nil => deploys'[b].replicas = deploys[b].replicas

\* Everything but the four calls of the plan that write Deployments.
LEMMA ClusterKeeps ==
  ASSUME TypeOK, [Next]_vars, ~ExecCreate, ~ExecScale, ~ExecUpdate,
         \A b \in Builds : ~ExecDelete(b)
  PROVE  DeploymentsKept
<1>0. deploys \in [Builds -> Deployment \cup {Nil}]
  BY DEF TypeOK, KubeTypeOK
<1>1. CASE deploys' = deploys
  BY <1>1 DEF DeploymentsKept
<1>2. ASSUME NEW c \in Builds, NEW new, deploys[c] # Nil, deploys' = [deploys EXCEPT ![c] = new],
             new \in Deployment, new.replicas = deploys[c].replicas
      PROVE  DeploymentsKept
  BY <1>0, <1>2, NilIsNoRecord DEF DeploymentsKept
<1>3. ASSUME NEW c \in Builds, ClusterStep(c)
      PROVE  DeploymentsKept
  <2>1. CASE CacheSync(c)
    BY <1>1, <2>1 DEF CacheSync
  <2>2. CASE PodsSettle(c) \/ PodsMissed(c) \/ PodsFail(c)
    <3>1. deploys[c] # Nil /\ deploys[c] \in Deployment
      BY <1>0, <2>2 DEF PodsSettle, PodsMissed, PodsFail, HasPods
    <3>2. \E n \in Nat, a \in BOOLEAN :
            deploys' = [deploys EXCEPT ![c] = [deploys[c] EXCEPT !.pods = n, !.available = a]]
      <4>1. CASE PodsSettle(c)
        <5>1. deploys[c].replicas \in Nat
          BY <3>1 DEF Deployment
        <5>2. deploys' = [deploys EXCEPT ![c] = [deploys[c] EXCEPT !.pods = deploys[c].replicas,
                                                                  !.available = TRUE]]
          BY <1>0, <4>1 DEF PodsSettle
        <5> QED
          BY <5>1, <5>2
      <4>2. CASE PodsMissed(c)
        <5>1. deploys[c].pods \in Nat
          BY <3>1 DEF Deployment
        <5>2. deploys' = [deploys EXCEPT ![c] = [deploys[c] EXCEPT !.available = FALSE]]
          BY <1>0, <4>2 DEF PodsMissed
        <5>3. [deploys[c] EXCEPT !.available = FALSE]
                = [deploys[c] EXCEPT !.pods = deploys[c].pods, !.available = FALSE]
          BY <3>1 DEF Deployment
        <5> QED
          BY <5>1, <5>2, <5>3
      <4>3. CASE PodsFail(c)
        BY <1>0, <4>3 DEF PodsFail
      <4> QED
        BY <2>2, <4>1, <4>2, <4>3
    <3>3. PICK n \in Nat, a \in BOOLEAN :
            deploys' = [deploys EXCEPT ![c] = [deploys[c] EXCEPT !.pods = n, !.available = a]]
      BY <3>2
    <3>4. /\ [deploys[c] EXCEPT !.pods = n, !.available = a] \in Deployment
          /\ [deploys[c] EXCEPT !.pods = n, !.available = a].replicas = deploys[c].replicas
      BY <3>1 DEF Deployment
    <3> QED
      BY <1>2, <3>1, <3>3, <3>4
  <2> QED
    BY <1>3, <2>1, <2>2 DEF ClusterStep
<1>4. CASE ReconcileStep
  BY <1>1, <1>4
     DEF ReconcileStep, Reconcile, DescribeNotFound, DescribeFound, DescribeDegraded,
         DescribeGone, DescribeWith, generateStatus, generateStatusDegraded, generatePlan,
         ExecStartGate, ExecVersionConfig, ExecStamp, ExecDone, ExecRemoveIgnore, GiveUp,
         Abort, kubeVars
<1>5. CASE UserStep
  BY <1>1, <1>5
     DEF UserStep, EditSpec, EditConnection, HumanRemovesRamp, HumanSetsCurrent,
         HumanSetsRamp, HumanHandsBack, HumanChange, kubeVars
<1>6. CASE EnvStep
  BY <1>1, <1>3, <1>6
     DEF EnvStep, Tick, WorkersRegister, WorkflowStep, GateStep, ServerDeletesVersion, kubeVars
<1> QED
  BY <1>1, <1>4, <1>5, <1>6 DEF Next, vars, kubeVars

\* ListInv is inductive where the cache is up to date.
LEMMA ListInvKept ==
  ASSUME TypeOK, ListInv, [Next]_vars, "lag" \notin Env
  PROVE  ListInv'
<1> SUFFICES ASSUME pc' \in {"describe", "status", "plan"}
             PROVE  \A b \in Builds : k8s'[b] = Nil <=> deploys'[b] = Nil
  BY DEF ListInv
<1>1. CASE Reconcile
  BY <1>1 DEF Reconcile, GetDeploymentState, kubeVars
<1>2. CASE pc \in {"describe", "status", "plan"} /\ k8s' = k8s /\ ~ExecStep
  <2>1. DeploymentsKept
    BY <1>2, ClusterKeeps DEF ExecStep
  <2> QED
    BY <1>2, <2>1 DEF DeploymentsKept, ListInv
<1> QED
  BY <1>1, <1>2, ListKept

\* TruthInv is inductive, whatever the cache shows.
LEMMA TruthInvKept ==
  ASSUME TypeOK, ServerInv, TruthInv, [Next]_vars, [PeopleRouteToWorkers]_vars
  PROVE  TruthInv'
<1>1. pc # "exec" => ~ExecVersionConfig
  BY DEF ExecVersionConfig, AtConfig, AtStart, AtUpdate, AtScale, AtDelete
<1> DEFINE Known == \A b \in Builds \ {w.build} : Truthful(ts, b)'
<1>2. CASE pc' \in {"idle", "describe", "exec"}
  BY <1>2 DEF TruthInv
<1>3. CASE DescribeNotFound
  <2>1. ts'.token = Nil
    BY <1>3, EmptyStateType DEF DescribeNotFound
  <2> QED
    BY <2>1 DEF TruthInv
<1>4. CASE DescribeFound \/ DescribeDegraded \/ \E b \in Builds : DescribeGone(b)
  <2>1. \A b \in Builds : Truthful(ts, b)'
    BY <1>4, DescribeIsTruthful
  <2> QED
    BY <2>1 DEF TruthInv
<1>5. CASE generateStatus \/ generateStatusDegraded
  <2>1. /\ pc = "status" /\ pc' = "plan" /\ w' = w
        /\ ts \in TemporalState /\ ts'.token = ts.token
    BY <1>5, GatesRead
  <2>2. ~Tick
    BY <2>1 DEF Tick
  <2>3. \A b \in Builds \ {w.build} : ts'.versions[b] = ts.versions[b]
    BY <1>5, GatesRead
  <2>4. ts.token # Nil => Known
    BY <1>1, <2>1, <2>2, <2>3, TruthKept DEF TruthInv
  <2> QED
    BY <2>1, <2>4 DEF TruthInv
<1>6. CASE Tick /\ pc \in {"status", "plan"}
  <2>1. ts \in TemporalState /\ ts' = AgeState(ts) /\ pc' = pc /\ w' = w
    BY <1>6 DEF Tick, TypeOK, RecTypeOK
  <2>2. ts'.token = ts.token
    BY <2>1, AgedReads
  <2>3. ASSUME NEW b \in Builds
        PROVE  /\ ts.versions[b] = Nil => ts'.versions[b] = Nil
               /\ ts.versions[b] # Nil =>
                    /\ ts'.versions[b] # Nil
                    /\ ts'.versions[b].status = ts.versions[b].status
                    /\ ts'.versions[b].noPollers = ts.versions[b].noPollers
                    /\ ts'.versions[b].drainedAge =
                         IF ts.versions[b].drainedAge # Nil THEN Older(ts.versions[b].drainedAge)
                         ELSE ts.versions[b].drainedAge
    <3>1. ts.versions[b] # Nil => ts.versions[b] \in VersionInfo
      BY <2>1 DEF TemporalState
    <3>2. ts'.versions[b] =
            IF ts.versions[b] = Nil THEN Nil
            ELSE [ts.versions[b] EXCEPT !.drainedAge = IF @ = Nil THEN Nil ELSE Older(@)]
      BY <2>1, AgedReads
    <3>3. CASE ts.versions[b] = Nil
      BY <3>2, <3>3
    <3>4. CASE ts.versions[b] # Nil
      <4>1. PICK v \in VersionInfo : v = ts.versions[b]
        BY <3>1, <3>4
      <4>2. ts'.versions[b] = [v EXCEPT !.drainedAge = IF @ = Nil THEN Nil ELSE Older(@)]
        BY <3>2, <3>4, <4>1
      <4>3. /\ ts'.versions[b] # Nil /\ ts'.versions[b].status = v.status
            /\ ts'.versions[b].noPollers = v.noPollers
            /\ ts'.versions[b].drainedAge = IF v.drainedAge = Nil THEN Nil ELSE Older(v.drainedAge)
        BY <4>2, AgedEntry
      <4> QED
        BY <3>4, <4>1, <4>3
    <3> QED
      BY <3>3, <3>4
  <2>4. ts.token # Nil => Known
    BY <1>1, <1>6, <2>1, <2>2, <2>3, TruthKept DEF TruthInv
  <2> QED
    BY <1>6, <2>1, <2>2, <2>4 DEF TruthInv
<1>7. CASE UNCHANGED recVars /\ ~Tick /\ pc \in {"status", "plan"}
  <2>1. ts \in TemporalState /\ ts' = ts /\ pc' = pc /\ w' = w
    BY <1>7 DEF recVars, TypeOK, RecTypeOK
  <2>2. ts.token # Nil => Known
    BY <1>1, <1>7, <2>1, TruthKept DEF TruthInv
  <2> QED
    BY <1>7, <2>1, <2>2 DEF TruthInv
<1>8. CASE pc' \notin {"status", "plan"}
  BY <1>8 DEF TruthInv
<1> QED
  <2>1. ExecStep => pc' = "exec"
    BY ExecKeeps
  <2>2. generatePlan => pc' = "exec"
    BY DEF generatePlan
  <2>3. Tick \/ UNCHANGED recVars => pc' = pc
    BY DEF Tick, recVars
  <2> QED
    BY <1>2, <1>3, <1>4, <1>5, <1>6, <1>7, <1>8, <2>1, <2>2, <2>3, ReconcileMoves

----------------------------------------------------------------------------
(* What is planned and executed *)

\* What is left of the plan takes workers only from versions other than the
\* target that are unused, for as long as the delays ask for.
TakeInv ==
  pc = "exec" =>
    /\ \A b \in plan.deletes : b # w.build /\ UnusedFor(b, w.scaledownDelay + w.deleteDelay)
    /\ \A s \in plan.scales : s[2] = 0 => s[1] # w.build /\ UnusedFor(s[1], w.scaledownDelay)
    /\ \A u \in plan.updates : u[2].replicas > 0 => u[3].replicas > 0

\* What is in use, or not yet drained, has workers; the version that the plan
\* will route to has workers, or will have; a drained version is scaled to zero
\* before it is deleted.
PlanInv ==
  /\ \A b \in Builds : Routed(b) \/ vers[b].drain = "Draining" => HasWorkers(b)
  /\ pc = "exec" =>
       /\ \A b \in plan.deletes :
            vers[b].drain = "Drained" /\ deploys[b] # Nil => deploys[b].replicas = 0
       /\ plan.vcfg # Nil =>
            /\ deploys[w.build] # Nil
            /\ deploys[w.build].replicas > 0 \/ \E s \in plan.scales : s[1] = w.build

\* The versions that the status lists as deprecated.
LEMMA Deprecated ==
  ASSUME NEW d, NEW tstate, NEW target, NEW b \in Builds,
         mapToStatus(d, tstate, target).deprecated[b] # Nil
  PROVE  LET v == mapToStatus(d, tstate, target).deprecated[b]
         IN  /\ b # target /\ v.deployed
             /\ v.status = StatusOf(tstate, b)
             /\ v.drainedAge = IF tstate.versions[b] = Nil THEN Nil
                               ELSE tstate.versions[b].drainedAge
<1> DEFINE st == mapToStatus(d, tstate, target)
<1>1. st.deprecated[b] = IF d[b] = Nil \/ b = tstate.current \/ b = target THEN Nil
                         ELSE mapDeprecatedWorkerDeploymentVersionByBuildID(d, tstate, b)
  BY DEF mapToStatus
<1> HIDE DEF st
<1>2. /\ d[b] # Nil /\ b # target
      /\ st.deprecated[b] = mapDeprecatedWorkerDeploymentVersionByBuildID(d, tstate, b)
  BY <1>1 DEF st
<1> DEFINE v == st.deprecated[b]
           deployed == d[b] # Nil
           drained == IF tstate.versions[b] = Nil THEN Nil ELSE tstate.versions[b].drainedAge
           statusOf == StatusOf(tstate, b)
           eligible == /\ tstate.versions[b] # Nil
                       /\ tstate.versions[b].status = "Drained"
                       /\ tstate.versions[b].noPollers
<1>3. v = [deployed |-> deployed, status |-> statusOf, drainedAge |-> drained, eligible |-> eligible]
  BY <1>2 DEF mapDeprecatedWorkerDeploymentVersionByBuildID
<1>4. deployed
  BY <1>2
<1> HIDE DEF v, deployed, drained, statusOf, eligible
<1>5. v.deployed = deployed /\ v.status = statusOf /\ v.drainedAge = drained
  BY <1>3
<1> QED
  BY <1>2, <1>4, <1>5 DEF v, drained, statusOf, st

\* A deprecated version that Reconcile, which knows the Worker Deployment, takes
\* for unknown, never used or drained is unused for as long as it says.
LEMMA DeprecatedIsUnused ==
  ASSUME TypeOK, TokenInv, TruthInv, generatePlan,
         NEW b \in Builds, status.deprecated[b] # Nil, GetDeploymentState[b] # Nil,
         NEW delay \in Nat,
         \/ status.deprecated[b].status = "NotRegistered" /\ Keys(ts.versions) # {}
         \/ status.deprecated[b].status = "Inactive"
         \/ status.deprecated[b].status = "Drained" /\ status.deprecated[b].drainedAge > delay
  PROVE  b # w.build /\ UnusedFor(b, delay)
<1>1. pc = "plan" /\ ~DrainTimePanic(GetDeploymentState, status) /\ ts \in TemporalState
  BY DEF generatePlan, TypeOK, RecTypeOK
<1>2. /\ b # w.build /\ status.deprecated[b].deployed
      /\ status.deprecated[b].status = StatusOf(ts, b)
      /\ status.deprecated[b].drainedAge = IF ts.versions[b] = Nil THEN Nil
                                           ELSE ts.versions[b].drainedAge
  BY Deprecated DEF status
<1>3. ts.token # Nil
  <2>1. ts.token = Nil => \A c \in Builds : ts.versions[c] = Nil
    BY <1>1 DEF TokenInv
  <2> QED
    BY <1>2, <2>1 DEF StatusOf, Keys
<1>4. Truthful(ts, b)
  BY <1>1, <1>2, <1>3 DEF TruthInv
<1>5. vers[b].age \in Nat /\ (ts.versions[b] # Nil => ts.versions[b].drainedAge \in Nat \cup {Nil})
  <2>1. vers[b] \in Version
    BY DEF TypeOK, ServerTypeOK
  <2>2. ts.versions[b] # Nil => ts.versions[b] \in VersionInfo
    BY <1>1 DEF TemporalState
  <2> QED
    BY <2>1, <2>2 DEF Version, VersionInfo
<1>6. CASE status.deprecated[b].status \in {"NotRegistered", "Inactive"}
  BY <1>2, <1>4, <1>6 DEF Truthful, UnusedFor, Unused
<1>7. CASE status.deprecated[b].status = "Drained" /\ status.deprecated[b].drainedAge > delay
  <2>1. ts.versions[b] # Nil /\ StatusOf(ts, b) = "Drained"
    BY <1>2, <1>7 DEF StatusOf
  <2>2. ts.versions[b].drainedAge # Nil
    BY <1>1, <1>2, <1>7, <2>1 DEF DrainTimePanic, Keys
  <2>3. ts.versions[b].drainedAge \in Nat /\ ts.versions[b].drainedAge > delay
    BY <1>2, <1>5, <1>7, <2>1, <2>2
  <2>4. /\ Unused(b)
        /\ vers[b].drain = "Drained" => vers[b].age >= ts.versions[b].drainedAge
    BY <1>4, <2>1, <2>2 DEF Truthful
  <2>5. vers[b].drain = "Drained" => vers[b].age > delay
    BY <1>5, <2>3, <2>4
  <2> QED
    BY <1>2, <2>4, <2>5 DEF UnusedFor
<1> QED
  BY <1>6, <1>7

\* What the plan is made of.
LEMMA Planned ==
  ASSUME TypeOK, generatePlan, \A s \in Specs : s.replicas > 0
  PROVE  LET listed == GetDeploymentState IN
         /\ pc = "plan" /\ pc' = "exec" /\ UNCHANGED <<w, ts, deploys, routing, vers>>
         /\ w \in SpecType /\ w.build \in Builds /\ w.replicas \in Nat /\ w.replicas > 0
         /\ w.scaledownDelay \in Nat /\ w.deleteDelay \in Nat
         /\ listed \in [Builds -> Deployment \cup {Nil}]
         /\ plan'.deletes = getDeleteDeployments(listed, status, w, Keys(ts.versions) # {})
         /\ plan'.scales = getScaleDeployments(listed, status, w)
         /\ plan'.updates = getUpdateDeployments(listed, status, w, wconn)
<1>1. pc = "plan" /\ pc' = "exec" /\ UNCHANGED <<w, ts, deploys, routing, vers>>
  BY DEF generatePlan, kubeVars, serverVars
<1>2. w \in Specs
  BY <1>1 DEF TypeOK, RecTypeOK
<1>3. GetDeploymentState \in [Builds -> Deployment \cup {Nil}]
  BY DEF GetDeploymentState, TypeOK, KubeTypeOK
<1>4. plan' = GeneratePlan(GetDeploymentState, status, w, ts, wconn, rolloutStrategy)
  BY DEF generatePlan
<1>5. /\ plan'.deletes = getDeleteDeployments(GetDeploymentState, status, w, Keys(ts.versions) # {})
      /\ plan'.scales = getScaleDeployments(GetDeploymentState, status, w)
      /\ plan'.updates = getUpdateDeployments(GetDeploymentState, status, w, wconn)
  BY <1>4 DEF GeneratePlan
<1> QED
  BY <1>1, <1>2, <1>3, <1>5, SpecFields DEF SpecType

\* The plan takes only what it may when it is made, from a stale list too.
LEMMA PlanningTakes ==
  ASSUME TypeOK, TokenInv, TruthInv, generatePlan, \A s \in Specs : s.replicas > 0
  PROVE  TakeInv'
<1> DEFINE found == Keys(ts.versions) # {}
<1>1. PICK listed \in [Builds -> Deployment \cup {Nil}] : listed = GetDeploymentState
  BY Planned
<1>2. /\ pc = "plan" /\ pc' = "exec" /\ UNCHANGED <<w, ts, deploys, routing, vers>>
      /\ w \in SpecType /\ w.build \in Builds /\ w.replicas \in Nat /\ w.replicas > 0
      /\ w.scaledownDelay \in Nat /\ w.deleteDelay \in Nat
      /\ plan'.deletes = getDeleteDeployments(listed, status, w, found)
      /\ plan'.scales = getScaleDeployments(listed, status, w)
      /\ plan'.updates = getUpdateDeployments(listed, status, w, wconn)
  BY <1>1, Planned
<1> HIDE DEF found
<1>3. ASSUME NEW b \in plan'.deletes
      PROVE  b # w.build /\ UnusedFor(b, w.scaledownDelay + w.deleteDelay)
  <2>1. /\ b \in Builds /\ status.deprecated[b] # Nil /\ listed[b] # Nil
        /\ \/ /\ status.deprecated[b].status = "Drained"
              /\ status.deprecated[b].drainedAge > w.deleteDelay + w.scaledownDelay
           \/ status.deprecated[b].status = "NotRegistered" /\ found
    BY <1>2, <1>3 DEF getDeleteDeployments, DeleteDelayOver, Forgotten, Keys
  <2>2. PICK delay \in Nat :
          delay = w.deleteDelay + w.scaledownDelay /\ delay = w.scaledownDelay + w.deleteDelay
    BY <1>2
  <2>3. b # w.build /\ UnusedFor(b, delay)
    BY <1>1, <2>1, <2>2, DeprecatedIsUnused DEF found
  <2> QED
    BY <2>2, <2>3
<1>4. ASSUME NEW s \in plan'.scales, s[2] = 0
      PROVE  s[1] # w.build /\ UnusedFor(s[1], w.scaledownDelay)
  <2>1. PICK b \in ScaleDowns(listed, status, w) : s = <<b, 0>>
    BY <1>2, <1>4 DEF getScaleDeployments
  <2>2. /\ b \in Builds /\ status.deprecated[b] # Nil /\ listed[b] # Nil
        /\ \/ status.deprecated[b].status = "Inactive"
           \/ /\ status.deprecated[b].status = "Drained"
              /\ status.deprecated[b].drainedAge > w.scaledownDelay
    BY <2>1 DEF ScaleDowns, ScaledownDelayOver, Keys
  <2>3. b # w.build /\ UnusedFor(b, w.scaledownDelay)
    BY <1>1, <1>2, <2>2, DeprecatedIsUnused
  <2> QED
    BY <2>1, <2>3
<1>5. ASSUME NEW u \in plan'.updates, u[2].replicas > 0
      PROVE  u[3].replicas > 0
  <2>1. \E b : /\ listed[b] # Nil
               /\ \/ u = <<b, listed[b], updateDeploymentWithPodTemplateSpec(listed[b], w, wconn)>>
                     /\ b = w.build
                  \/ u = <<b, listed[b], updateDeploymentWithConnection(listed[b], wconn)>>
                     /\ b \in Builds
    <3>1. status.target.build = w.build
      BY DEF status, mapToStatus, mapTargetWorkerDeploymentVersionByBuildID
    <3>2. status.current # Nil => status.current.build \in Builds
      BY <1>2, StatusCurrent DEF status, TypeOK, RecTypeOK
    <3> QED
      BY <1>2, <1>5, <3>1, <3>2
         DEF getUpdateDeployments, PodTemplateDrift, ConnectionDrift, Keys
  <2>2. PICK b \in Builds :
          /\ listed[b] # Nil
          /\ \/ u = <<b, listed[b], updateDeploymentWithPodTemplateSpec(listed[b], w, wconn)>>
             \/ u = <<b, listed[b], updateDeploymentWithConnection(listed[b], wconn)>>
    BY <1>2, <2>1
  <2>3. listed[b] \in Deployment
    BY <2>2
  <2>4. /\ updateDeploymentWithPodTemplateSpec(listed[b], w, wconn).replicas = w.replicas
        /\ updateDeploymentWithConnection(listed[b], wconn).replicas = listed[b].replicas
    BY <2>3 DEF Deployment, updateDeploymentWithPodTemplateSpec, updateDeploymentWithConnection
  <2> QED
    BY <1>2, <1>5, <2>2, <2>4
<1> QED
  BY <1>2, <1>3, <1>4, <1>5 DEF TakeInv, UnusedFor, Unused, Routed

\* From an up-to-date list, the plan is good when it is made.
LEMMA PlanningIsSafe ==
  ASSUME TypeOK, TokenInv, TruthInv, ListInv, PlanInv, generatePlan, "lag" \notin Env,
         \A s \in Specs : s.replicas > 0
  PROVE  PlanInv'
<1> DEFINE found == Keys(ts.versions) # {}
<1>1. GetDeploymentState = deploys
  BY DEF GetDeploymentState
<1>2. /\ pc = "plan" /\ pc' = "exec" /\ UNCHANGED <<w, ts, deploys, routing, vers>>
      /\ w \in SpecType /\ w.build \in Builds /\ w.replicas \in Nat /\ w.replicas > 0
      /\ plan'.deletes = getDeleteDeployments(deploys, status, w, found)
      /\ plan'.scales = getScaleDeployments(deploys, status, w)
  BY <1>1, Planned
<1> HIDE DEF found
<1>3. ASSUME NEW b \in plan'.deletes
      PROVE  vers[b].drain = "Drained" /\ deploys[b] # Nil => deploys[b].replicas = 0
  <2>1. /\ b \in Builds /\ status.deprecated[b] # Nil /\ deploys[b] # Nil
        /\ \/ deploys[b].replicas = 0
           \/ status.deprecated[b].status = "NotRegistered" /\ found
    BY <1>2, <1>3 DEF getDeleteDeployments, DeleteDelayOver, Forgotten, Keys
  <2>2. status.deprecated[b].status = "NotRegistered" /\ found => vers[b].drain = "None"
    <3>1. ts.token = Nil => ~found
      BY <1>2 DEF TokenInv, found, Keys
    <3>2. b # w.build /\ status.deprecated[b].status = StatusOf(ts, b)
      BY <2>1, Deprecated DEF status
    <3> QED
      BY <1>2, <2>1, <3>1, <3>2 DEF TruthInv, Truthful
  <2> QED
    BY <2>1, <2>2
<1>4. ASSUME plan'.vcfg # Nil
      PROVE  /\ deploys[w.build] # Nil
             /\ deploys[w.build].replicas > 0 \/ \E s \in plan'.scales : s[1] = w.build
  <2>1. k8s[w.build] # Nil
    BY <1>4, PlannedConfig
  <2>2. deploys[w.build] # Nil /\ deploys[w.build] \in Deployment
    BY <1>2, <2>1 DEF ListInv, TypeOK, KubeTypeOK
  <2>3. deploys[w.build].replicas \in Nat
    BY <2>2 DEF Deployment
  <2>4. CASE deploys[w.build].replicas # w.replicas
    <3>1. /\ status.target.build = w.build /\ status.target.deployed
          /\ status.current # Nil /\ status.current.build = w.build => status.current.deployed
      BY <2>1 DEF status, mapToStatus, mapTargetWorkerDeploymentVersionByBuildID,
                  mapCurrentWorkerDeploymentVersionByBuildID
    <3>2. w.build \in ScaleUps(deploys, status, w)
      BY <1>2, <2>2, <2>4, <3>1 DEF ScaleUps, Keys
    <3>3. <<w.build, w.replicas>> \in plan'.scales
      BY <1>2, <3>2 DEF getScaleDeployments
    <3> QED
      BY <2>2, <3>3
  <2> QED
    BY <1>2, <2>2, <2>3, <2>4
<1>5. \A b \in Builds : (Routed(b) \/ vers[b].drain = "Draining" => HasWorkers(b))'
  BY <1>2 DEF PlanInv, HasWorkers, Routed
<1> QED
  BY <1>2, <1>3, <1>4, <1>5 DEF PlanInv

\* What a step does to the Deployment of a version: nothing that matters here,
\* or what the plan asks for.
DeploymentMoves(b) ==
  LET d == deploys[b]
      n == deploys'[b]
  IN
  \/ /\ n = Nil <=> d = Nil
     /\ d # Nil => n.replicas = d.replicas
  \/ AtCreate /\ b = w.build /\ d = Nil /\ n # Nil /\ n.replicas = w.replicas
  \/ AtDelete /\ b \in plan.deletes /\ d # Nil /\ n = Nil
  \/ AtScale /\ d # Nil /\ n # Nil /\ \E s \in plan.scales : s[1] = b /\ n.replicas = s[2]
  \/ AtUpdate /\ d # Nil /\ n # Nil /\ \E u \in plan.updates : u[2] = d /\ u[3] = n

\* Every step of everybody moves the Deployments so.
LEMMA DeploymentsMove ==
  ASSUME TypeOK, [Next]_vars, NEW b \in Builds
  PROVE  DeploymentMoves(b)
<1>0. deploys \in [Builds -> Deployment \cup {Nil}]
  BY DEF TypeOK, KubeTypeOK
<1>1. CASE DeploymentsKept
  BY <1>1 DEF DeploymentsKept, DeploymentMoves
<1>2. CASE ExecCreate
  <2>1. /\ AtCreate /\ deploys[w.build] = Nil
        /\ deploys' = [deploys EXCEPT ![w.build] = NewDeployment(w, wconn)]
    BY <1>2 DEF ExecCreate, KubeCreate
  <2>2. w \in Specs /\ wconn \in Connections
    BY <2>1 DEF AtCreate, TypeOK, RecTypeOK
  <2>3. NewDeployment(w, wconn) \in Deployment /\ NewDeployment(w, wconn).replicas = w.replicas
    BY <2>2, SpecFields DEF NewDeployment, Deployment, SpecType
  <2> QED
    BY <1>0, <2>1, <2>3, NilIsNoRecord DEF DeploymentMoves
<1>3. ASSUME NEW c \in Builds, ExecDelete(c)
      PROVE  DeploymentMoves(b)
  BY <1>0, <1>3 DEF ExecDelete, KubeDelete, DeploymentMoves
<1>4. CASE ExecScale
  <2>1. AtScale /\ plan \in Plan
    BY <1>4 DEF ExecScale, AtScale, AtDelete, TypeOK, RecTypeOK
  <2>2. PICK s \in plan.scales : KubeScale(s[1], s[2])
    BY <1>4 DEF ExecScale
  <2>3. PICK c \in Builds, n \in Nat : c = s[1] /\ n = s[2]
    BY <2>1, <2>2 DEF Plan
  <2>4. /\ deploys[c] # Nil /\ deploys[c] \in Deployment
        /\ deploys' = [deploys EXCEPT ![c] = [deploys[c] EXCEPT !.replicas = n]]
    BY <1>0, <2>2, <2>3 DEF KubeScale
  <2>5. /\ [deploys[c] EXCEPT !.replicas = n] \in Deployment
        /\ [deploys[c] EXCEPT !.replicas = n].replicas = n
    BY <2>4 DEF Deployment
  <2> QED
    BY <1>0, <2>1, <2>3, <2>4, <2>5, NilIsNoRecord DEF DeploymentMoves
<1>5. CASE ExecUpdate
  <2>1. AtUpdate /\ plan \in Plan
    BY <1>5 DEF ExecUpdate, AtUpdate, AtScale, AtDelete, TypeOK, RecTypeOK
  <2>2. PICK u \in plan.updates : KubeUpdate(u[1], u[2], u[3])
    BY <1>5 DEF ExecUpdate
  <2>3. u[1] \in Builds /\ u[2] \in Deployment /\ u[3] \in Deployment
    BY <2>1, <2>2 DEF Plan
  <2>4. deploys[u[1]] = u[2] /\ deploys' = [deploys EXCEPT ![u[1]] = u[3]]
    BY <2>2 DEF KubeUpdate
  <2> QED
    BY <1>0, <2>1, <2>2, <2>3, <2>4, NilIsNoRecord DEF DeploymentMoves
<1> QED
  BY <1>1, <1>2, <1>3, <1>4, <1>5, ClusterKeeps

\* What is left of a plan that is executed gets less, and a scale that is gone
\* from it has been done.
LEMMA PlanShrinks ==
  ASSUME TypeOK, [Next]_vars, ~generatePlan, pc' = "exec"
  PROVE  /\ pc = "exec" /\ w' = w /\ plan \in Plan
         /\ plan'.deletes \subseteq plan.deletes
         /\ plan'.scales \subseteq plan.scales
         /\ plan'.updates \subseteq plan.updates
         /\ plan'.vcfg \in {plan.vcfg, Nil}
         /\ plan'.create => plan.create /\ UNCHANGED plan
         /\ \A s \in plan.scales \ plan'.scales :
              deploys'[s[1]] # Nil /\ deploys'[s[1]].replicas = s[2]
<1>1. CASE ExecStep
  <2>0. pc = "exec" /\ w' = w /\ plan \in Plan
    BY <1>1, ExecKeeps
  <2>1. CASE ExecScale
    <3>0. ~plan.create
      BY <2>1 DEF ExecScale, AtScale, AtDelete
    <3>1. PICK s \in plan.scales :
            KubeScale(s[1], s[2]) /\ plan' = [plan EXCEPT !.scales = @ \ {s}]
      BY <2>1 DEF ExecScale
    <3>2. PICK c \in Builds, n \in Nat : c = s[1] /\ n = s[2]
      BY <2>0, <3>1 DEF Plan
    <3>3. /\ plan'.scales = plan.scales \ {s} /\ plan'.deletes = plan.deletes
          /\ plan'.updates = plan.updates /\ plan'.vcfg = plan.vcfg /\ plan'.create = plan.create
      BY <2>0, <3>1 DEF Plan
    <3>4. deploys \in [Builds -> Deployment \cup {Nil}]
      BY DEF TypeOK, KubeTypeOK
    <3>5. /\ deploys[c] # Nil /\ deploys[c] \in Deployment
          /\ deploys' = [deploys EXCEPT ![c] = [deploys[c] EXCEPT !.replicas = n]]
      BY <3>1, <3>2, <3>4 DEF KubeScale
    <3>6. deploys'[c] \in Deployment /\ deploys'[c].replicas = n
      BY <3>4, <3>5 DEF Deployment
    <3> QED
      BY <2>0, <3>0, <3>2, <3>3, <3>6, NilIsNoRecord
  <2>2. CASE ExecCreate
    BY <2>0, <2>2 DEF ExecCreate, Plan
  <2>3. CASE ExecUpdate
    <3>1. PICK u : plan' = [plan EXCEPT !.updates = @ \ {u}] /\ ~plan.create
      BY <2>3 DEF ExecUpdate, AtUpdate, AtScale, AtDelete
    <3> QED
      BY <2>0, <3>1 DEF Plan
  <2>4. CASE ExecStartGate
    <3>1. PICK q : plan' = [plan EXCEPT !.starts = @ \ {q}] /\ ~plan.create
      BY <2>4 DEF ExecStartGate, AtStart, AtUpdate, AtScale, AtDelete
    <3> QED
      BY <2>0, <3>1 DEF Plan
  <2>5. CASE ExecVersionConfig
    <3>1. plan' = [plan EXCEPT !.vcfg = Nil] /\ ~plan.create
      BY <2>5 DEF ExecVersionConfig, AtConfig, AtStart, AtUpdate, AtScale, AtDelete
    <3> QED
      BY <2>0, <3>1 DEF Plan
  <2>6. CASE ExecStamp
    <3>1. plan' = [plan EXCEPT !.stamp = "none"] /\ ~plan.create
      BY <2>6 DEF ExecStamp, AtStamp, AtConfig, AtStart, AtUpdate, AtScale, AtDelete
    <3> QED
      BY <2>0, <3>1 DEF Plan
  <2>7. ASSUME NEW b \in Builds, ExecDelete(b) \/ ExecRemoveIgnore(b)
        PROVE  /\ plan'.deletes \subseteq plan.deletes
               /\ plan'.scales = plan.scales
               /\ plan'.updates = plan.updates
               /\ plan'.vcfg = plan.vcfg
               /\ plan'.create = plan.create
               /\ ~plan.create
    <3>1. /\ \/ plan' = [plan EXCEPT !.deletes = @ \ {b}]
             \/ plan' = [plan EXCEPT !.unignore = @ \ {b}]
          /\ ~plan.create
      BY <2>7 DEF ExecDelete, ExecRemoveIgnore, AtRemove, AtStamp, AtConfig, AtStart, AtUpdate,
                  AtScale, AtDelete
    <3> QED
      BY <2>0, <3>1 DEF Plan
  <2> QED
    BY <1>1, <2>0, <2>1, <2>2, <2>3, <2>4, <2>5, <2>6, <2>7 DEF ExecStep
<1>2. CASE ~ExecStep
  <2>1. Tick \/ UNCHANGED recVars
    <3>1. DescribeNotFound \/ DescribeFound \/ DescribeDegraded
            \/ (\E b \in Builds : DescribeGone(b)) => pc' = "status"
      BY DEF DescribeNotFound, DescribeFound, DescribeDegraded, DescribeGone, DescribeWith
    <3>2. generateStatus \/ generateStatusDegraded => pc' = "plan"
      BY DEF generateStatus, generateStatusDegraded
    <3> QED
      BY <1>2, <3>1, <3>2, ReconcileMoves
  <2>2. UNCHANGED <<pc, w, plan>>
    BY <2>1 DEF Tick, recVars
  <2> QED
    BY <2>2 DEF TypeOK, RecTypeOK
<1> QED
  BY <1>1, <1>2

\* Nor does a delay that has passed begin again.
LEMMA UnusedForKept ==
  ASSUME TypeOK, [Next]_vars, [PeopleRouteToWorkers]_vars, ~ExecVersionConfig,
         pc = "exec", NEW b \in Builds \ {w.build}, NEW delay \in Nat, UnusedFor(b, delay)
  PROVE  /\ ~Routed(b)' /\ vers'[b].drain # "Draining"
         /\ vers'[b].drain = "Drained" => vers[b].drain = "Drained" /\ vers'[b].age > delay
<1>1. /\ ~Routed(b)'
      /\ \/ /\ vers'[b].drain = vers[b].drain
            /\ vers'[b].age = IF Tick /\ vers[b].drain = "Drained" THEN Older(vers[b].age)
                              ELSE vers[b].age
         \/ "serverdelete" \in Env /\ vers[b].drain = "Drained" /\ vers'[b].drain = "None"
  BY UnusedKept DEF UnusedFor
<1>2. vers[b].age \in Nat
  <2>1. vers[b] \in Version
    BY DEF TypeOK, ServerTypeOK
  <2> QED
    BY <2>1 DEF Version
<1>3. vers[b].drain # "Draining" /\ (vers[b].drain = "Drained" => vers[b].age > delay)
  BY DEF UnusedFor, Unused
<1> QED
  BY <1>1, <1>2, <1>3, AgeCapAssumption DEF Older

\* TakeInv is inductive.
LEMMA TakeKept ==
  ASSUME TypeOK, TokenInv, TruthInv, TakeInv, [Next]_vars, [PeopleRouteToWorkers]_vars,
         \A s \in Specs : s.replicas > 0
  PROVE  TakeInv'
<1>1. CASE generatePlan
  BY <1>1, PlanningTakes
<1>2. CASE pc' # "exec"
  BY <1>2 DEF TakeInv
<1>3. CASE pc' = "exec" /\ ~generatePlan
  <2>1. /\ pc = "exec" /\ w' = w /\ plan \in Plan
        /\ plan'.deletes \subseteq plan.deletes
        /\ plan'.scales \subseteq plan.scales
        /\ plan'.updates \subseteq plan.updates
    BY <1>3, PlanShrinks
  <2>2. /\ plan.deletes \subseteq Builds /\ plan.scales \subseteq Builds \X Nat
        /\ w.scaledownDelay \in Nat /\ w.scaledownDelay + w.deleteDelay \in Nat
    <3>1. w \in Specs
      BY <2>1 DEF TypeOK, RecTypeOK
    <3> QED
      BY <2>1, <3>1, SpecFields DEF Plan, SpecType
  <2>3. ExecVersionConfig => plan.deletes = {} /\ plan.scales = {}
    BY DEF ExecVersionConfig, AtConfig, AtStart, AtUpdate, AtScale
  <2>4. ASSUME NEW b \in plan'.deletes
        PROVE  b # w.build /\ UnusedFor(b, w.scaledownDelay + w.deleteDelay)'
    <3>1. /\ b \in plan.deletes /\ b \in Builds
          /\ b # w.build /\ UnusedFor(b, w.scaledownDelay + w.deleteDelay)
      BY <2>1, <2>2, <2>4 DEF TakeInv
    <3>2. PICK delay \in Nat : delay = w.scaledownDelay + w.deleteDelay
      BY <2>2
    <3>3. /\ ~Routed(b)' /\ vers'[b].drain # "Draining"
          /\ vers'[b].drain = "Drained" => vers'[b].age > delay
      BY <2>1, <2>3, <3>1, <3>2, UnusedForKept
    <3> QED
      BY <2>1, <3>1, <3>2, <3>3 DEF UnusedFor, Unused
  <2>5. ASSUME NEW s \in plan'.scales, s[2] = 0
        PROVE  s[1] # w.build /\ UnusedFor(s[1], w.scaledownDelay)'
    <3>1. /\ s \in plan.scales /\ s[1] # w.build /\ UnusedFor(s[1], w.scaledownDelay)
      BY <2>1, <2>5 DEF TakeInv
    <3>2. PICK b \in Builds : b = s[1]
      BY <2>2, <3>1
    <3>3. PICK delay \in Nat : delay = w.scaledownDelay
      BY <2>2
    <3>4. /\ ~Routed(b)' /\ vers'[b].drain # "Draining"
          /\ vers'[b].drain = "Drained" => vers'[b].age > delay
      BY <2>1, <2>3, <3>1, <3>2, <3>3, UnusedForKept
    <3> QED
      BY <2>1, <3>1, <3>2, <3>3, <3>4 DEF UnusedFor, Unused, Routed
  <2>6. ASSUME NEW u \in plan'.updates, u[2].replicas > 0
        PROVE  u[3].replicas > 0
    BY <2>1, <2>6 DEF TakeInv
  <2> QED
    BY <2>1, <2>4, <2>5, <2>6 DEF TakeInv
<1> QED
  BY <1>1, <1>2, <1>3

\* PlanInv is inductive where the cache is up to date.
LEMMA PlanKept ==
  ASSUME TypeOK, TokenInv, RampInv, TruthInv, ListInv, TakeInv, PlanInv, [Next]_vars,
         [PeopleRouteToWorkers]_vars, "lag" \notin Env, \A s \in Specs : s.replicas > 0
  PROVE  PlanInv'
<1>1. CASE generatePlan
  BY <1>1, PlanningIsSafe
<1> SUFFICES ASSUME ~generatePlan PROVE PlanInv'
  BY <1>1
<1>2. \A b \in Builds : DeploymentMoves(b)
  BY DeploymentsMove
<1>3. pc = "exec" => /\ w \in Specs /\ w.build \in Builds /\ w.replicas \in Nat /\ w.replicas > 0
                     /\ plan \in Plan
  <2>1. pc = "exec" => w \in Specs /\ plan \in Plan
    BY DEF TypeOK, RecTypeOK
  <2> QED
    BY <2>1, SpecFields DEF SpecType
<1>4. \A b \in Builds : deploys[b] # Nil => deploys[b].replicas \in Nat
  <2>1. \A b \in Builds : deploys[b] # Nil => deploys[b] \in Deployment
    BY DEF TypeOK, KubeTypeOK
  <2> QED
    BY <2>1 DEF Deployment
<1>5. ExecVersionConfig =>
        /\ pc = "exec" /\ plan.deletes = {} /\ plan.scales = {} /\ plan.vcfg # Nil
        /\ deploys' = deploys
  BY DEF ExecVersionConfig, AtConfig, AtStart, AtUpdate, AtScale, AtDelete, kubeVars
<1>6. ASSUME NEW b \in Builds, Routed(b)' \/ vers'[b].drain = "Draining"
      PROVE  deploys'[b] # Nil /\ deploys'[b].replicas > 0
  <2>1. CASE ExecVersionConfig
    <3>1. CASE Unused(b)
      <4>1. Routed(b)'
        BY <1>6, <3>1, VersionsMove DEF VersionMoves, Unused
      <4>2. b = w.build
        BY <2>1, <3>1, <4>1, NewlyRouted DEF Unused
      <4> QED
        BY <1>5, <2>1, <4>2 DEF PlanInv
    <3>2. CASE ~Unused(b)
      BY <1>5, <2>1, <3>2 DEF PlanInv, HasWorkers, Unused
    <3> QED
      BY <3>1, <3>2
  <2>2. CASE ~ExecVersionConfig
    <3>0. CASE Unused(b)
      <4>1. Routed(b)' /\ ~Routed(b)
        BY <1>6, <3>0, VersionsMove DEF VersionMoves, Unused
      <4>2. UserStep /\ UNCHANGED <<kubeVars, recVars>> /\ routing' # routing
        BY <2>2, <4>1, WhoRoutes, RoutedKept
      <4>3. HasWorkers(b)
        BY <3>0, <4>1, <4>2 DEF PeopleRouteToWorkers, vars, serverVars
      <4> QED
        BY <4>2, <4>3 DEF HasWorkers, kubeVars
    <3> SUFFICES ASSUME ~Unused(b)
                 PROVE  deploys'[b] # Nil /\ deploys'[b].replicas > 0
      BY <3>0
    <3>1. ~Unused(b) /\ (Routed(b) \/ vers[b].drain = "Draining")
      BY DEF Unused
    <3>2. deploys[b] # Nil /\ deploys[b].replicas > 0
      BY <3>1 DEF PlanInv, HasWorkers
    <3>3. ~(pc = "exec" /\ b \in plan.deletes)
      BY <3>1 DEF TakeInv, UnusedFor
    <3>4. \A s \in plan.scales : pc = "exec" /\ s[1] = b => s[2] \in Nat /\ s[2] # 0
      <4>1. pc = "exec" => \A s \in plan.scales : s[2] \in Nat
        BY <1>3 DEF Plan
      <4> QED
        BY <3>1, <4>1 DEF TakeInv, UnusedFor
    <3>5. pc = "exec" => \A u \in plan.updates : u[2].replicas > 0 => u[3].replicas > 0
      BY DEF TakeInv
    <3> QED
      BY <1>2, <3>2, <3>3, <3>4, <3>5 DEF DeploymentMoves, AtCreate, AtUpdate, AtScale, AtDelete
  <2> QED
    BY <2>1, <2>2
<1>7. CASE pc' # "exec"
  BY <1>6, <1>7 DEF PlanInv, HasWorkers
<1>8. CASE pc' = "exec"
  <2>1. /\ pc = "exec" /\ w' = w /\ plan \in Plan
        /\ plan'.deletes \subseteq plan.deletes
        /\ plan'.scales \subseteq plan.scales
        /\ plan'.vcfg \in {plan.vcfg, Nil}
        /\ \A s \in plan.scales \ plan'.scales :
             deploys'[s[1]] # Nil /\ deploys'[s[1]].replicas = s[2]
    BY <1>8, PlanShrinks
  <2>2. plan.deletes \subseteq Builds /\ plan.scales \subseteq Builds \X Nat
    BY <2>1 DEF Plan
  <2>3. ASSUME NEW b \in plan'.deletes
        PROVE  vers'[b].drain = "Drained" /\ deploys'[b] # Nil => deploys'[b].replicas = 0
    <3>1. /\ b \in plan.deletes /\ b \in Builds /\ b # w.build /\ Unused(b)
          /\ vers[b].drain = "Drained" /\ deploys[b] # Nil => deploys[b].replicas = 0
      BY <2>1, <2>2, <2>3 DEF PlanInv, TakeInv, UnusedFor
    <3>2. ~ExecVersionConfig
      BY <1>5, <3>1
    <3>3. vers'[b].drain = "Drained" => vers[b].drain = "Drained"
      BY <2>1, <3>1, <3>2, UnusedKept
    <3>4. deploys'[b] # Nil => deploys[b] # Nil /\ deploys'[b].replicas = deploys[b].replicas
      BY <1>2, <3>1 DEF DeploymentMoves, AtScale, AtUpdate
    <3> QED
      BY <3>1, <3>3, <3>4
  <2>4. ASSUME plan'.vcfg # Nil
        PROVE  /\ deploys'[w.build] # Nil
               /\ deploys'[w.build].replicas > 0 \/ \E s \in plan'.scales : s[1] = w.build
    <3>1. PICK b \in Builds : b = w.build
      BY <1>3, <2>1
    <3>2. /\ deploys[b] # Nil
          /\ deploys[b].replicas > 0 \/ \E s \in plan.scales : s[1] = b
      BY <2>1, <2>4, <3>1 DEF PlanInv
    <3>3. b \notin plan.deletes
      BY <2>1, <3>1 DEF TakeInv
    <3>4. \A s \in plan.scales : s[1] = b => s[2] \in Nat /\ s[2] > 0
      <4>1. \A s \in plan.scales : s[2] \in Nat
        BY <2>2
      <4>2. \A s \in plan.scales : s[1] = b => s[2] # 0
        BY <2>1, <3>1 DEF TakeInv
      <4> QED
        BY <4>1, <4>2
    <3>5. \A u \in plan.updates : u[2].replicas > 0 => u[3].replicas > 0
      BY <2>1 DEF TakeInv
    <3>6. deploys'[b] # Nil
      BY <1>2, <3>2, <3>3 DEF DeploymentMoves
    <3>7. CASE deploys[b].replicas > 0
      BY <1>2, <3>1, <3>2, <3>3, <3>4, <3>5, <3>6, <3>7 DEF DeploymentMoves
    <3>8. CASE \E s \in plan.scales : s[1] = b
      BY <2>1, <3>1, <3>4, <3>6, <3>8
    <3> QED
      BY <3>1, <3>2, <3>6, <3>7, <3>8
  <2> QED
    BY <1>6, <2>1, <2>3, <2>4 DEF PlanInv, HasWorkers
<1> QED
  BY <1>7, <1>8

----------------------------------------------------------------------------
(* The theorems *)

\* Where people route only to workers, and every spec asks for workers:
\* the invariants, which need each other.
SunsetInv == TypeOK /\ TokenInv /\ RampInv /\ ServerInv /\ TruthInv /\ TakeInv

\* Init implies SunsetInv and every step keeps it.
LEMMA SunsetInvariant ==
  ASSUME \A s \in Specs : s.replicas > 0
  PROVE  Spec /\ [][PeopleRouteToWorkers]_vars => []SunsetInv
<1>1. Init => RampInv /\ ServerInv /\ TruthInv /\ TakeInv
  BY NilAssumption DEF Init, RampInv, ServerInv, TruthInv, TakeInv, ServerInit, Routed, Registered
<1>2. TypeOK /\ TokenInv /\ TokenInv' /\ RampInv /\ [Next]_vars => RampInv'
  BY RampStep
<1>3. TypeOK /\ RampInv /\ ServerInv /\ [Next]_vars => ServerInv'
  BY ServerKept
<1>4. TypeOK /\ ServerInv /\ TruthInv /\ [Next]_vars /\ [PeopleRouteToWorkers]_vars
        => TruthInv'
  BY TruthInvKept
<1>5. TypeOK /\ TokenInv /\ TruthInv /\ TakeInv /\ [Next]_vars
        /\ [PeopleRouteToWorkers]_vars => TakeInv'
  BY TakeKept
<1> QED
  BY <1>1, <1>2, <1>3, <1>4, <1>5, TypeCorrect, TokenInvariant, PTL DEF Spec, SunsetInv

\* Where the cache is up to date, too, the list and the workers are as they
\* should be.
LEMMA WorkersInvariant ==
  ASSUME "lag" \notin Env, \A s \in Specs : s.replicas > 0
  PROVE  Spec /\ [][PeopleRouteToWorkers]_vars => [](SunsetInv /\ ListInv /\ PlanInv)
<1>1. Init => ListInv /\ PlanInv
  BY NilAssumption DEF Init, ListInv, PlanInv, ServerInit, KubeInit, Routed
<1>2. SunsetInv /\ ListInv /\ [Next]_vars => ListInv'
  BY ListInvKept DEF SunsetInv
<1>3. SunsetInv /\ ListInv /\ PlanInv /\ [Next]_vars /\ [PeopleRouteToWorkers]_vars
        => PlanInv'
  BY PlanKept DEF SunsetInv
<1> QED
  BY <1>1, <1>2, <1>3, SunsetInvariant, PTL DEF Spec

\* A version that gets new executions, or that an open workflow is pinned to,
\* keeps a Deployment that is not scaled to zero.
THEOREM RunningWorkKeepsWorkers ==
  ASSUME "lag" \notin Env, \A s \in Specs : s.replicas > 0
  PROVE  Spec /\ [][PeopleRouteToWorkers]_vars => []VersionsInUseHaveWorkers
<1>1. SunsetInv /\ PlanInv => VersionsInUseHaveWorkers
  BY DEF SunsetInv, ServerInv, PlanInv, HasWorkers, VersionsInUseHaveWorkers
<1> QED
  BY <1>1, WorkersInvariant, PTL

\* What a step takes from a version: all of its workers, by a scale that the
\* plan asks for, or its Deployment, by a deletion that the plan asks for.
LEMMA TakenByPlan ==
  ASSUME TypeOK, TakeInv, [Next]_vars, NEW b \in Builds, \A s \in Specs : s.replicas > 0
  PROVE  /\ ScalesToZero(b) => b # w.build /\ UnusedFor(b, w.scaledownDelay)
         /\ Deletes(b) =>
              /\ pc = "exec" /\ b \in plan.deletes
              /\ b # w.build /\ UnusedFor(b, w.deleteDelay)
<1>1. DeploymentMoves(b)
  BY DeploymentsMove
<1>2. deploys[b] # Nil => deploys[b].replicas \in Nat
  <2>1. deploys[b] # Nil => deploys[b] \in Deployment
    BY DEF TypeOK, KubeTypeOK
  <2> QED
    BY <2>1 DEF Deployment
<1>3. ASSUME ScalesToZero(b)
      PROVE  b # w.build /\ UnusedFor(b, w.scaledownDelay)
  <2>1. deploys[b] # Nil /\ deploys'[b] # Nil /\ deploys[b].replicas > 0
          /\ deploys'[b].replicas = 0
    BY <1>3 DEF ScalesToZero
  <2>2. CASE AtScale /\ \E s \in plan.scales : s[1] = b /\ s[2] = 0
    BY <2>2 DEF TakeInv, AtScale, AtDelete
  <2>3. CASE AtUpdate /\ \E u \in plan.updates : u[2] = deploys[b] /\ u[3] = deploys'[b]
    BY <2>1, <2>3 DEF TakeInv, AtUpdate, AtScale, AtDelete
  <2> QED
    BY <1>1, <1>2, <2>1, <2>2, <2>3 DEF DeploymentMoves
<1>4. ASSUME Deletes(b)
      PROVE  /\ pc = "exec" /\ b \in plan.deletes
             /\ b # w.build /\ UnusedFor(b, w.deleteDelay)
  <2>1. pc = "exec" /\ b \in plan.deletes
    BY <1>1, <1>4 DEF DeploymentMoves, Deletes, AtDelete
  <2>2. b # w.build /\ UnusedFor(b, w.scaledownDelay + w.deleteDelay)
    BY <2>1 DEF TakeInv
  <2>3. w.scaledownDelay \in Nat /\ w.deleteDelay \in Nat
    <3>1. w \in Specs
      BY <2>1 DEF TypeOK, RecTypeOK
    <3> QED
      BY <3>1, SpecFields DEF SpecType
  <2>4. vers[b].age \in Nat
    <3>1. vers[b] \in Version
      BY DEF TypeOK, ServerTypeOK
    <3> QED
      BY <3>1 DEF Version
  <2>5. vers[b].age > w.scaledownDelay + w.deleteDelay => vers[b].age > w.deleteDelay
    BY <2>3, <2>4
  <2> QED
    BY <2>1, <2>2, <2>5 DEF UnusedFor
<1> QED
  BY <1>3, <1>4

\* GetDeploymentState lists the Deployments twice, from a cache that may be
\* arbitrarily old, and executePlan acts on them call by call.  No staleness
\* makes the controller take the workers of a version that has work: this rests
\* on what the server said of the versions, not on the list.
THEOREM StaleCacheSparesWork ==
  ASSUME \A s \in Specs : s.replicas > 0
  PROVE  Spec /\ [][PeopleRouteToWorkers]_vars => OnlyUnusedLoseWorkers
<1>1. SunsetInv /\ [Next]_vars =>
        [\A b \in Builds :
           /\ ScalesToZero(b) => b # w.build /\ UnusedFor(b, w.scaledownDelay)
           /\ Deletes(b) => b # w.build /\ UnusedFor(b, w.deleteDelay)]_vars
  BY TakenByPlan DEF SunsetInv
<1> QED
  BY <1>1, SunsetInvariant, PTL DEF Spec, OnlyUnusedLoseWorkers

\* No version loses its workers while it may have work, or before the delays of
\* the spec in force have passed since it drained, and a drained version is
\* scaled to zero before it is deleted.
THEOREM DelaysAreRespected ==
  ASSUME "lag" \notin Env, \A s \in Specs : s.replicas > 0
  PROVE  Spec /\ [][PeopleRouteToWorkers]_vars => SunsetRespectsDelays
<1> DEFINE Respected ==
      \A b \in Builds :
       /\ ScalesToZero(b) =>
            /\ b # w.build
            /\ vers[b].drain = "Drained" => vers[b].age > w.scaledownDelay
            /\ vers[b].drain # "Draining"
       /\ Deletes(b) =>
            /\ b # w.build
            /\ vers[b].drain = "Drained" =>
                 /\ vers[b].age > w.deleteDelay
                 /\ deploys[b].replicas = 0
            /\ vers[b].drain # "Draining"
            /\ vers[b].drain = "None" => ~Routed(b)
<1>1. SunsetInv /\ PlanInv /\ [Next]_vars => [Respected]_vars
  <2> SUFFICES ASSUME SunsetInv, PlanInv, [Next]_vars, NEW b \in Builds
               PROVE  /\ ScalesToZero(b) =>
                           /\ b # w.build
                           /\ vers[b].drain = "Drained" => vers[b].age > w.scaledownDelay
                           /\ vers[b].drain # "Draining"
                      /\ Deletes(b) =>
                           /\ b # w.build
                           /\ vers[b].drain = "Drained" =>
                                /\ vers[b].age > w.deleteDelay
                                /\ deploys[b].replicas = 0
                           /\ vers[b].drain # "Draining"
                           /\ vers[b].drain = "None" => ~Routed(b)
    OBVIOUS
  <2>1. /\ ScalesToZero(b) => b # w.build /\ UnusedFor(b, w.scaledownDelay)
        /\ Deletes(b) =>
             /\ pc = "exec" /\ b \in plan.deletes
             /\ b # w.build /\ UnusedFor(b, w.deleteDelay)
    BY TakenByPlan DEF SunsetInv
  <2>2. Deletes(b) => deploys[b] # Nil
    BY DEF Deletes
  <2> QED
    BY <2>1, <2>2 DEF PlanInv, UnusedFor, Unused
<1> QED
  BY <1>1, WorkersInvariant, PTL DEF Spec, SunsetRespectsDelays

----------------------------------------------------------------------------
(* The limit of versions *)

\* The versions besides target and current that are deployed and not drained.
Undrained ==
  {c \in Builds \ {w.build, routing.current} : deploys[c] # Nil /\ vers[c].drain # "Drained"}

\* A state that was read as NotFound has no current version, and as long as the
\* Deployment of the target is to be created there is room for it.
LimitInv ==
  /\ pc \in {"status", "plan"} /\ ts.token = Nil => ts.current = Nil
  /\ pc = "exec" /\ plan.create => Cardinality(Undrained) < MaxIneligible

\* Nobody else routes, so that the routing config is the one Reconcile read.
AloneInv ==
  /\ humans = 0
  /\ pc \in {"status", "plan"} /\ ts.token # Nil => ts.token = routing.token

\* Then there is nobody to route to an unused version...
LEMMA Alone ==
  ASSUME humans = 0
  PROVE  PeopleRouteToWorkers
<1>1. UserStep => UNCHANGED serverVars
  BY DEF UserStep, EditSpec, EditConnection, HumanRemovesRamp, HumanSetsCurrent,
         HumanSetsRamp, HumanHandsBack, HumanChange
<1>2. ASSUME UserStep, NEW b \in Builds, Routed(b)'
      PROVE  ~Unused(b)
  BY <1>1, <1>2 DEF Unused, Routed, serverVars
<1> QED
  BY <1>2 DEF PeopleRouteToWorkers

\* ...and AloneInv is inductive.
LEMMA AloneKept ==
  ASSUME TypeOK, AloneInv, [Next]_vars
  PROVE  AloneInv'
<1>1. humans' = 0
  BY NoPeople DEF AloneInv
<1>2. pc # "exec" => routing'.token = routing.token
  BY WhoRoutes
     DEF AloneInv, ExecVersionConfig, AtConfig, AtStart, AtUpdate, AtScale, AtDelete
<1>3. CASE DescribeNotFound
  <2>1. ts'.token = Nil
    BY <1>3, EmptyStateType DEF DescribeNotFound
  <2> QED
    BY <1>1, <2>1 DEF AloneInv
<1>4. CASE DescribeFound \/ DescribeDegraded \/ \E b \in Builds : DescribeGone(b)
  <2>1. \E undescribed, gone : \E unversioned \in BOOLEAN :
          DescribeWith(undescribed, gone, unversioned)
    BY <1>4 DEF DescribeFound, DescribeDegraded, DescribeGone
  <2>2. pc = "describe" /\ ts'.token = routing.token
    BY <2>1, DescribeType DEF DescribeWith, TypeOK
  <2> QED
    BY <1>1, <1>2, <2>2 DEF AloneInv
<1>5. CASE generateStatus \/ generateStatusDegraded
  BY <1>1, <1>2, <1>5, GatesRead DEF AloneInv
<1>6. CASE Tick
  <2>1. pc \in {"status", "plan"} => ts \in TemporalState /\ ts' = AgeState(ts)
    BY <1>6 DEF Tick, TypeOK, RecTypeOK
  <2>2. pc \in {"status", "plan"} => ts'.token = ts.token
    BY <2>1, AgedReads
  <2> QED
    BY <1>1, <1>2, <1>6, <2>2 DEF Tick, AloneInv
<1>7. CASE UNCHANGED recVars
  BY <1>1, <1>2, <1>7 DEF AloneInv, recVars
<1>8. generatePlan \/ ExecStep => pc' = "exec"
  BY ExecKeeps DEF generatePlan
<1> QED
  BY <1>1, <1>3, <1>4, <1>5, <1>6, <1>7, <1>8, ReconcileMoves DEF AloneInv

\* A smaller set is below the limit too.
LEMMA BelowLimit ==
  ASSUME NEW S \in SUBSET Builds, NEW T \in SUBSET S, Cardinality(S) < MaxIneligible
  PROVE  Cardinality(T) < MaxIneligible
<1>1. IsFiniteSet(S)
  BY FiniteAssumption, FS_Subset
<1>2. IsFiniteSet(T) /\ Cardinality(T) <= Cardinality(S)
  BY <1>1, FS_Subset
<1>3. Cardinality(S) \in Nat /\ Cardinality(T) \in Nat
  BY <1>1, <1>2, FS_CardinalityType
<1> QED
  BY <1>2, <1>3, LimitAssumption

\* What is deployed and neither current nor target is listed as deprecated, and
\* as eligible for deletion only when it has drained.
LEMMA Listed ==
  ASSUME NEW d \in [Builds -> Deployment \cup {Nil}], NEW tstate \in TemporalState,
         NEW target, NEW b \in Builds,
         d[b] # Nil, b # tstate.current, b # target
  PROVE  LET v == mapToStatus(d, tstate, target).deprecated[b]
         IN  /\ v # Nil
             /\ v.eligible => tstate.versions[b] # Nil /\ tstate.versions[b].noPollers
<1> DEFINE st == mapToStatus(d, tstate, target)
           drained == IF tstate.versions[b] = Nil THEN Nil ELSE tstate.versions[b].drainedAge
           statusOf == StatusOf(tstate, b)
           eligible == /\ tstate.versions[b] # Nil
                       /\ tstate.versions[b].status = "Drained"
                       /\ tstate.versions[b].noPollers
           v == st.deprecated[b]
<1>1. v = [deployed |-> TRUE, status |-> statusOf, drainedAge |-> drained, eligible |-> eligible]
  BY DEF mapToStatus, mapDeprecatedWorkerDeploymentVersionByBuildID
<1>2. tstate.versions[b] # Nil => tstate.versions[b] \in VersionInfo
  BY DEF TemporalState
<1>3. statusOf \in VersionStatuses /\ drained \in Nat \cup {Nil} /\ eligible \in BOOLEAN
  BY <1>2 DEF StatusOf, VersionInfo, VersionStatuses
<1>4. eligible => tstate.versions[b] # Nil /\ tstate.versions[b].noPollers
  OBVIOUS
<1> HIDE DEF st, drained, statusOf, eligible, v
<1>5. v \in DeprecatedVersion /\ v.eligible = eligible
  BY <1>1, <1>3 DEF DeprecatedVersion
<1> QED
  BY <1>4, <1>5, NilIsNoRecord DEF v, st

\* There is room when the Deployment is planned.
LEMMA PlanningHasRoom ==
  ASSUME TypeOK, TokenInv, TruthInv, ListInv, AloneInv, LimitInv, generatePlan, plan'.create,
         "serverdelete" \notin Env
  PROVE  Cardinality(Undrained)' < MaxIneligible
<1> DEFINE ineligible == {b \in Keys(status.deprecated) : ~status.deprecated[b].eligible}
<1>1. /\ pc = "plan" /\ UNCHANGED <<w, deploys, routing, vers>>
      /\ ts \in TemporalState /\ k8s \in [Builds -> Deployment \cup {Nil}]
  BY DEF generatePlan, kubeVars, serverVars, TypeOK, RecTypeOK
<1>2. Cardinality(ineligible) < MaxIneligible
  <2>1. plan'.create = shouldCreateDeployment(status, MaxIneligible)
    BY DEF generatePlan, GeneratePlan
  <2> QED
    BY <2>1 DEF shouldCreateDeployment
<1>3. ASSUME NEW c \in Undrained
      PROVE  c \in ineligible
  <2>1. /\ c \in Builds /\ c # w.build /\ c # routing.current
        /\ deploys[c] # Nil /\ vers[c].drain # "Drained"
    BY <1>3 DEF Undrained
  <2>2. c # ts.current
    BY <1>1, <2>1, NilAssumption DEF AloneInv, TokenInv, LimitInv
  <2>3. k8s[c] # Nil
    BY <1>1, <2>1 DEF ListInv
  <2>4. /\ status.deprecated[c] # Nil
        /\ status.deprecated[c].eligible => ts.versions[c] # Nil /\ ts.versions[c].noPollers
    BY <1>1, <2>1, <2>2, <2>3, Listed DEF status
  <2>5. ~(ts.versions[c] # Nil /\ ts.versions[c].noPollers)
    BY <1>1, <2>1 DEF TruthInv, TokenInv, Truthful
  <2> QED
    BY <2>1, <2>4, <2>5 DEF Keys
<1>4. ineligible \in SUBSET Builds
  BY DEF Keys
<1>5. Undrained' = Undrained
  BY <1>1 DEF Undrained
<1> HIDE DEF ineligible
<1> QED
  BY <1>2, <1>3, <1>4, <1>5, BelowLimit

\* LimitInv is inductive.
LEMMA LimitKept ==
  ASSUME TypeOK, TokenInv, TruthInv, ListInv, AloneInv, LimitInv, [Next]_vars,
         "serverdelete" \notin Env
  PROVE  LimitInv'
<1>1. pc' \in {"status", "plan"} /\ ts'.token = Nil => ts'.current = Nil
  <2>1. CASE DescribeNotFound
    BY <2>1 DEF DescribeNotFound, EmptyState
  <2>2. CASE DescribeFound \/ DescribeDegraded \/ \E b \in Builds : DescribeGone(b)
    <3>1. \E undescribed, gone : \E unversioned \in BOOLEAN :
            DescribeWith(undescribed, gone, unversioned)
      BY <2>2 DEF DescribeFound, DescribeDegraded, DescribeGone
    <3>2. ts'.token = routing.token /\ routing.token \in Nat
      BY <3>1, DescribeType DEF DescribeWith, TypeOK, ServerTypeOK, RoutingConfig
    <3> QED
      BY <3>2, NilAssumption
  <2>3. CASE generateStatus \/ generateStatusDegraded
    BY <2>3, GatesRead DEF LimitInv
  <2>4. CASE Tick
    <3>1. pc \in {"status", "plan"} => /\ ts \in TemporalState /\ ts' = AgeState(ts)
      BY <2>4 DEF Tick, TypeOK, RecTypeOK
    <3>2. pc \in {"status", "plan"} => ts'.token = ts.token /\ ts'.current = ts.current
      BY <3>1, AgeStateType
    <3> QED
      BY <2>4, <3>2 DEF Tick, LimitInv
  <2>5. CASE UNCHANGED recVars
    BY <2>5 DEF recVars, LimitInv
  <2>6. generatePlan \/ ExecStep => pc' = "exec"
    BY ExecKeeps DEF generatePlan
  <2> QED
    BY <2>1, <2>2, <2>3, <2>4, <2>5, <2>6, ReconcileMoves
<1>2. ASSUME pc' = "exec", plan'.create
      PROVE  Cardinality(Undrained)' < MaxIneligible
  <2>1. CASE generatePlan
    BY <1>2, <2>1, PlanningHasRoom
  <2>2. CASE ~generatePlan
    <3>1. pc = "exec" /\ w' = w /\ plan.create
      BY <1>2, <2>2, PlanShrinks
    <3>2. routing'.token = routing.token
      BY <3>1, WhoRoutes
         DEF AloneInv, ExecVersionConfig, AtConfig, AtStart, AtUpdate, AtScale, AtDelete
    <3>3. routing'.current = routing.current
      BY <3>2, RoutedKept DEF RoutingKept
    <3>4. ASSUME NEW c \in Undrained'
          PROVE  c \in Undrained
      <4>1. /\ c \in Builds /\ c # w.build /\ c # routing.current
            /\ deploys'[c] # Nil /\ vers'[c].drain # "Drained"
        BY <3>1, <3>3, <3>4 DEF Undrained
      <4>2. deploys[c] # Nil
        BY <3>1, <4>1, DeploymentsMove DEF DeploymentMoves, AtUpdate, AtScale, AtDelete
      <4>3. vers[c].drain # "Drained"
        BY <3>2, <4>1, VersionsMove DEF VersionMoves
      <4> QED
        BY <4>1, <4>2, <4>3 DEF Undrained
    <3>5. Undrained \in SUBSET Builds
      BY DEF Undrained
    <3>6. PICK S \in SUBSET Builds : S = Undrained
      BY <3>5
    <3>7. PICK T \in SUBSET S : T = Undrained'
      BY <3>4, <3>6
    <3>8. Cardinality(S) < MaxIneligible
      BY <3>1, <3>6 DEF LimitInv
    <3> QED
      BY <3>7, <3>8, BelowLimit
  <2> QED
    BY <2>1, <2>2
<1> QED
  BY <1>1, <1>2 DEF LimitInv

\* No Deployment is created when there are too many versions that have not
\* drained, counted when the Deployment is created.
THEOREM NoVersionTooMany ==
  ASSUME MaxHuman = 0, "lag" \notin Env, "serverdelete" \notin Env
  PROVE  Spec => CreationRespectsLimit
<1>1. Init => RampInv /\ ServerInv /\ TruthInv /\ ListInv /\ AloneInv /\ LimitInv
  BY NilAssumption
     DEF Init, RampInv, ServerInv, TruthInv, ListInv, AloneInv, LimitInv, ServerInit, KubeInit, Routed,
         Registered
<1>2. TypeOK /\ TokenInv /\ TokenInv' /\ RampInv /\ [Next]_vars => RampInv'
  BY RampStep
<1>3. TypeOK /\ AloneInv /\ [Next]_vars => AloneInv' /\ PeopleRouteToWorkers
  BY AloneKept, Alone DEF AloneInv
<1>4. TypeOK /\ AloneInv /\ RampInv /\ ServerInv /\ [Next]_vars => ServerInv'
  BY <1>3, ServerKept
<1>5. TypeOK /\ TokenInv /\ AloneInv /\ ServerInv /\ TruthInv /\ ListInv /\ LimitInv /\ [Next]_vars
        => TruthInv' /\ ListInv' /\ LimitInv'
  BY <1>3, TruthInvKept, ListInvKept, LimitKept
<1>6. TypeOK /\ LimitInv /\ [Next]_vars =>
        [\A b \in Builds :
           Creates(b) =>
             Cardinality({c \in Builds \ {b, routing.current} :
                            /\ deploys[c] # Nil
                            /\ Registered(c) /\ vers[c].drain # "Drained"}) < MaxIneligible]_vars
  <2> SUFFICES ASSUME TypeOK, LimitInv, [Next]_vars, NEW b \in Builds, Creates(b)
               PROVE  Cardinality({c \in Builds \ {b, routing.current} :
                                     /\ deploys[c] # Nil
                                     /\ Registered(c) /\ vers[c].drain # "Drained"}) < MaxIneligible
    OBVIOUS
  <2> DEFINE counted == {c \in Builds \ {b, routing.current} :
                           /\ deploys[c] # Nil
                           /\ Registered(c) /\ vers[c].drain # "Drained"}
  <2>1. pc = "exec" /\ plan.create /\ b = w.build
    BY DeploymentsMove DEF DeploymentMoves, Creates, AtCreate
  <2>2. counted \in SUBSET Undrained /\ Undrained \in SUBSET Builds
    BY <2>1 DEF Undrained
  <2>3. Cardinality(Undrained) < MaxIneligible
    BY <2>1 DEF LimitInv
  <2> HIDE DEF counted
  <2>4. Cardinality(counted) < MaxIneligible
    BY <2>2, <2>3, BelowLimit
  <2> QED
    BY <2>4 DEF counted
<1> QED
  BY <1>1, <1>2, <1>3, <1>4, <1>5, <1>6, TypeCorrect, TokenInvariant, PTL
     DEF Spec, CreationRespectsLimit

=============================================================================
