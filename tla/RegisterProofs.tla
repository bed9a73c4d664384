--------------------------- MODULE RegisterProofs ---------------------------
(***************************************************************************)
(* The controller, its server and everybody else implement RoutingRegister. *)
(***************************************************************************)
EXTENDS ControllerProofs

\* What the mapping depends on.
WriterKept == routing'.lastMod = routing.lastMod
ViewKept   == RoutingView' = RoutingView

\* The register keeps its value while the routing config does.
LEMMA ValueKept ==
  ASSUME RoutingKept
  PROVE  RoutingValue' = RoutingValue
BY DEF RoutingKept, RoutingValue

\* A step that leaves Reconcile alone, or only completes or ages the state it
\* read, leaves the view alone.
LEMMA ViewKeptWhen ==
  ASSUME \/ UNCHANGED <<pc, ts>>
         \/ StateKept /\ {pc, pc'} \subseteq {"status", "plan", "exec"}
  PROVE  ViewKept
BY DEF ViewKept, RoutingView, StateKept

\* A value of the routing config is a value of the register.
LEMMA ValueType ==
  ASSUME ServerTypeOK
  PROVE  RoutingValue \in RoutingValues
<1>1. /\ routing.current \in Builds \cup {Nil} /\ routing.ramping \in Builds \cup {Nil}
      /\ routing.pct \in Nat
  BY DEF ServerTypeOK, RoutingConfig
<1> QED
  BY <1>1 DEF RoutingValue, RoutingValues

\* Somebody else's change of the routing config, in one piece.
LEMMA OthersChange ==
  ASSUME ServerTypeOK', ViewKept, routing'.lastMod # Controller
  PROVE  Register!Next
<1>1. RoutingValue' \in RoutingValues
  BY DEF ServerTypeOK, RoutingConfig, RoutingValue, RoutingValues
<1> QED
  BY <1>1 DEF Register!Next, Register!OtherWrite, ViewKept, RoutingWriter

\* The last modifier of a new routing config is the one who sent it.
LEMMA RoutingWho ==
  ASSUME NEW c, NEW r, NEW pct, NEW who, NewRouting(c, r, pct, who)
  PROVE  routing'.lastMod = who
<1> DEFINE rampAge == IF r = routing.ramping /\ pct = routing.pct
                      THEN routing.rampAge ELSE 0
<1>1. routing' = [current |-> c, ramping |-> r, pct |-> pct, rampAge |-> rampAge,
                  token |-> routing.token + 1, lastMod |-> who]
  BY DEF NewRouting
<1> HIDE DEF rampAge
<1> QED
  BY <1>1

----------------------------------------------------------------------------
(* One lemma for each part of Next *)

Implements == Register!Next \/ UNCHANGED Register!regVars

\* Nothing of the register moves.
LEMMA Stutters ==
  ASSUME RoutingKept, WriterKept, ViewKept
  PROVE  Implements
BY ValueKept DEF Implements, Register!regVars, WriterKept, ViewKept, RoutingWriter

\* Reconcile returns and forgets what it saw.
LEMMA ReturnForgets ==
  ASSUME Return, UNCHANGED serverVars
  PROVE  Implements
<1>1. RoutingView' = Nil
  BY DEF Return, RoutingView
<1>2. RoutingValue' = RoutingValue /\ RoutingWriter' = RoutingWriter
  BY DEF serverVars, RoutingValue, RoutingWriter
<1> QED
  BY <1>1, <1>2 DEF Implements, Register!Next, Register!Forget

\* Describe is the look at the register.
LEMMA DescribeObserves ==
  ASSUME TypeOK, NEW undescribed, NEW gone, NEW unversioned \in BOOLEAN,
         DescribeWith(undescribed, gone, unversioned), RoutingKept,
         WriterKept \/ routing'.lastMod # Controller
  PROVE  Implements
<1>1. /\ ts'.token = routing.token /\ ts'.current = routing.current
      /\ ts'.ramping = routing.ramping /\ ts'.pct = routing.pct
  BY DescribeType DEF DescribeWith, TypeOK
<1>2. pc = "describe" /\ pc' = "status"
  BY DEF DescribeWith
<1>3. ts'.token # Nil
  BY <1>1, NilAssumption DEF TypeOK, ServerTypeOK, RoutingConfig
<1>4. RoutingView = Nil /\ RoutingView' = RoutingValue
  BY <1>1, <1>2, <1>3 DEF RoutingView, RoutingValue
<1>5. RoutingWriter' \in {RoutingWriter, "other"}
  BY DEF WriterKept, RoutingWriter
<1> QED
  BY <1>4, <1>5, ValueKept DEF Implements, Register!Next, Register!Observe

\* Reading.
LEMMA ReadImplements ==
  ASSUME TypeOK,
         \/ Reconcile \/ DescribeNotFound \/ DescribeFound \/ DescribeDegraded
         \/ \E b \in Builds : DescribeGone(b)
  PROVE  Implements
<1>1. CASE Reconcile
  <2>1. RoutingView = Nil /\ RoutingView' = Nil
    BY <1>1 DEF Reconcile, RoutingView
  <2> QED
    BY <1>1, <2>1, Stutters DEF Reconcile, serverVars, RoutingKept, WriterKept, ViewKept
<1>2. CASE DescribeNotFound
  <2>1. RoutingView = Nil /\ RoutingView' = Nil
    BY <1>2, EmptyStateType DEF DescribeNotFound, RoutingView
  <2> QED
    BY <1>2, <2>1, Stutters DEF DescribeNotFound, serverVars, RoutingKept, WriterKept, ViewKept
<1>3. CASE DescribeFound
  BY <1>3, DescribeObserves DEF DescribeFound, serverVars, RoutingKept, WriterKept
<1>4. CASE DescribeDegraded
  BY <1>4, DescribeObserves DEF DescribeDegraded, serverVars, RoutingKept, WriterKept
<1>5. ASSUME NEW b \in Builds, DescribeGone(b)
      PROVE  Implements
  <2>1. RoutingKept
    BY <1>5, ServerStepType DEF DescribeGone, TypeOK, RoutingKept
  <2>2. routing'.lastMod # Controller
    BY <1>5 DEF DescribeGone, ServerDeletes, TypeOK, ServerTypeOK, RoutingConfig,
                ServerDeletion, Controller
  <2> QED
    BY <1>5, <2>1, <2>2, DescribeObserves DEF DescribeGone
<1> QED
  BY <1>1, <1>2, <1>3, <1>4, <1>5

\* Planning.
LEMMA PlanningImplements ==
  ASSUME TypeOK, generateStatus \/ generateStatusDegraded \/ generatePlan
  PROVE  Implements
<1>1. w.build \in Builds /\ ts \in TemporalState
  BY SpecFields DEF TypeOK, RecTypeOK, generateStatus, generateStatusDegraded, generatePlan
<1>2. RoutingKept /\ WriterKept
  BY DEF generateStatus, generateStatusDegraded, generatePlan, serverVars, RoutingKept,
         WriterKept
<1>3. vers[w.build].tqs \in SUBSET TaskQueues
  <2>1. vers[w.build] \in Version
    BY <1>1 DEF TypeOK, ServerTypeOK
  <2> QED
    BY <2>1 DEF Version
<1>4. {pc, pc'} \subseteq {"status", "plan", "exec"}
  BY DEF generateStatus, generateStatusDegraded, generatePlan
<1>5. \/ ts' = ts
      \/ /\ ts.versions[w.build] # Nil
         /\ \E tqs \in SUBSET TaskQueues, ok \in BOOLEAN :
              ts' = GetTestWorkflowStatus(ts, w.build, tqs, ok)
  BY <1>3 DEF generateStatus, generateStatusDegraded, generatePlan, ReadsGates
<1>6. StateKept
  BY <1>1, <1>5, TestWorkflowType DEF StateKept, TypeOK
<1> QED
  BY <1>2, <1>4, <1>6, ViewKeptWhen, Stutters

\* Executing: only SetCurrentVersion and SetRampingVersion write.
LEMMA ExecuteImplements ==
  ASSUME TypeOK, TypeOK', TokenInv,
         \/ ExecCreate \/ ExecScale \/ ExecUpdate \/ ExecStartGate
         \/ ExecVersionConfig \/ ExecStamp
         \/ \E b \in Builds : ExecDelete(b) \/ ExecRemoveIgnore(b)
  PROVE  Implements
<1>1. UNCHANGED <<pc, ts>>
  BY DEF ExecCreate, ExecScale, ExecUpdate, ExecStartGate, ExecVersionConfig, ExecStamp,
         ExecDelete, ExecRemoveIgnore, execVars
<1>2. ViewKept
  BY <1>1, ViewKeptWhen
<1>3. CASE ExecVersionConfig
  <2>1. RoutingView = RoutingValue
    BY <1>3, AcceptedIsSeen DEF RoutingView, RoutingValue
  <2>2. RoutingValue' \in RoutingValues
    BY DEF TypeOK, ServerTypeOK, RoutingConfig, RoutingValue, RoutingValues
  <2>3. routing'.lastMod = Controller
    BY <1>3, RoutingWho DEF ExecVersionConfig, SetCurrentVersion, SetRampingVersion
  <2> QED
    BY <1>2, <2>1, <2>2, <2>3
       DEF Implements, Register!Next, Register!OwnWrite, ViewKept, RoutingWriter
<1>4. CASE ~ExecVersionConfig
  <2>1. routing' = routing
    BY <1>4 DEF ExecCreate, ExecScale, ExecUpdate, ExecStartGate, ExecStamp, ExecDelete,
                ExecRemoveIgnore, StartGate, SetIgnoreLastModifier, serverVars
  <2> QED
    BY <1>2, <2>1, Stutters DEF RoutingKept, WriterKept
<1> QED
  BY <1>3, <1>4

\* What people do is somebody else's write, or nothing.
LEMMA UserImplements ==
  ASSUME TypeOK, TypeOK', UserStep
  PROVE  Implements
<1>1. UNCHANGED <<pc, ts>>
  BY DEF UserStep, EditSpec, EditConnection, HumanRemovesRamp, HumanSetsCurrent,
         HumanSetsRamp, HumanHandsBack, HumanChange, recVars
<1>2. ViewKept
  BY <1>1, ViewKeptWhen
<1>3. CASE routing' = routing
  BY <1>2, <1>3, Stutters DEF RoutingKept, WriterKept
<1>4. CASE routing' # routing
  <2>1. routing'.lastMod = Human
    BY <1>4, RoutingWho
       DEF UserStep, EditSpec, EditConnection, HumanRemovesRamp, HumanSetsCurrent,
           HumanSetsRamp, HumanHandsBack, SetCurrentVersion, SetRampingVersion,
           SetIgnoreLastModifier, serverVars
  <2> QED
    BY <1>2, <2>1, OthersChange DEF Implements, TypeOK, Human, Controller
<1> QED
  BY <1>3, <1>4

\* The cluster and the clock leave the register alone; the server may put its
\* own name to it.
LEMMA EnvImplements ==
  ASSUME TypeOK, TypeOK', EnvStep
  PROVE  Implements
<1>1. CASE Tick
  <2>1. RoutingKept
    BY <1>1, TimeType DEF Tick, TypeOK, RoutingKept
  <2>2. WriterKept
    BY <1>1 DEF Tick, TimePasses, TypeOK, ServerTypeOK, RoutingConfig, WriterKept
  <2>3. ViewKept
    <3>1. CASE pc \in {"status", "plan"}
      <4>1. StateKept
        BY <1>1, <3>1, AgeStateType DEF Tick, TypeOK, RecTypeOK, StateKept
      <4> QED
        BY <1>1, <3>1, <4>1, ViewKeptWhen DEF Tick
    <3>2. CASE pc \notin {"status", "plan"}
      BY <1>1, <3>2, ViewKeptWhen DEF Tick
    <3> QED
      BY <3>1, <3>2
  <2> QED
    BY <2>1, <2>2, <2>3, Stutters
<1>2. ASSUME NEW b \in Builds,
             \/ ClusterStep(b) \/ WorkersRegister(b) \/ WorkflowStep(b)
             \/ \E q \in TaskQueues : GateStep(b, q)
      PROVE  Implements
  <2>1. UNCHANGED <<pc, ts, routing>>
    BY <1>2 DEF ClusterStep, WorkersRegister, WorkflowStep, GateStep, WorkersPoll,
                WorkflowStarts, WorkflowsClose, DrainageEnds, GateCloses, recVars, serverVars
  <2> QED
    BY <2>1, ViewKeptWhen, Stutters DEF RoutingKept, WriterKept
<1>3. ASSUME NEW b \in Builds, ServerDeletesVersion(b)
      PROVE  Implements
  <2>1. UNCHANGED <<pc, ts>>
    BY <1>3 DEF ServerDeletesVersion, recVars
  <2>2. routing'.lastMod # Controller
    BY <1>3 DEF ServerDeletesVersion, ServerDeletes, TypeOK, ServerTypeOK, RoutingConfig,
                ServerDeletion, Controller
  <2> QED
    BY <2>1, <2>2, ViewKeptWhen, OthersChange DEF Implements, TypeOK
<1> QED
  BY <1>1, <1>2, <1>3 DEF EnvStep

\* Initially the controller has not looked.
LEMMA InitImplements == Init => Register!Init
<1> SUFFICES ASSUME Init PROVE Register!Init
  OBVIOUS
<1>1. RoutingValue \in RoutingValues
  BY InitType, ValueType DEF TypeOK
<1>2. RoutingView = Nil
  BY DEF Init, RoutingView
<1>3. RoutingWriter = "other"
  <2>1. routing.lastMod = Nil
    BY DEF Init, ServerInit
  <2>2. Nil # Controller
    BY NilIsNoRecord DEF Identities
  <2> QED
    BY <2>1, <2>2 DEF RoutingWriter
<1> QED
  BY <1>1, <1>2, <1>3 DEF Register!Init

\* In every behaviour of the controller, the server and the people around it,
\* the routing config is a register on which each write of the controller
\* replaces exactly what its last successful Describe returned.
THEOREM RegisterRefinement == Spec => ImplementsRegister
<1>1. TypeOK /\ TypeOK' /\ TokenInv /\ [Next]_vars => [Register!Next]_(Register!regVars)
  <2> SUFFICES ASSUME TypeOK, TypeOK', TokenInv, [Next]_vars PROVE Implements
    BY DEF Implements
  <2>1. CASE UNCHANGED vars
    BY <2>1, ViewKeptWhen, Stutters DEF vars, recVars, serverVars, RoutingKept, WriterKept
  <2>2. CASE ReconcileStep
    BY <2>2, ReturnForgets, ReadImplements, PlanningImplements, ExecuteImplements
       DEF ReconcileStep, ExecDone, GiveUp, Abort
  <2> QED
    BY <2>1, <2>2, UserImplements, EnvImplements DEF Next
<1> QED
  BY <1>1, InitImplements, TypeCorrect, TokenInvariant, PTL
     DEF Spec, ImplementsRegister, Register!Spec
=============================================================================
