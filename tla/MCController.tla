---------------------------- MODULE MCController ----------------------------
(* Values for TLC: the specs of the runs. *)
EXTENDS ControllerProperties

CONSTANTS b1, b2, b3

Step(ramp, pause) == [ramp |-> ramp, pause |-> pause]

SpecOf(build, strategy, gate, steps) ==
  [build |-> build, custom |-> FALSE, tmpl |-> "t1", replicas |-> 1,
   strategy |-> strategy, gate |-> gate, steps |-> steps,
   scaledownDelay |-> 1, deleteDelay |-> 1]

TwoSteps == <<Step(10, 1), Step(50, 1)>>

\* A progressive rollout of b2 over b1, and the way back.
RolloutSpecs ==
  {SpecOf(b1, "AllAtOnce", FALSE, <<>>), SpecOf(b2, "Progressive", FALSE, TwoSteps)}

\* The same with the steps of b2 changed on the way, and with steps in the
\* wrong order, which the validation rejects.
RampSpecs ==
  RolloutSpecs \cup {SpecOf(b2, "Progressive", FALSE, <<Step(30, 1)>>),
                   SpecOf(b2, "Progressive", FALSE, <<Step(50, 1), Step(10, 1)>>)}

Sunset(spec, scaledown, delete) ==
  [spec EXCEPT !.scaledownDelay = scaledown, !.deleteDelay = delete]

\* The same with one step, no delays and the shortest pause.
BriefSpecs ==
  {Sunset(SpecOf(b1, "AllAtOnce", FALSE, <<>>), 0, 0),
   Sunset(SpecOf(b2, "Progressive", FALSE, <<Step(50, 0)>>), 0, 0)}

\* With a build ID that the user keeps while the pod template changes.
KeptBuildID(tmpl) ==
  [SpecOf(b1, "AllAtOnce", FALSE, <<>>) EXCEPT !.custom = TRUE, !.tmpl = tmpl]
CustomSpecs ==
  {Sunset(KeptBuildID("t1"), 0, 1), Sunset(KeptBuildID("t2"), 0, 1),
   Sunset(SpecOf(b2, "Progressive", FALSE, <<Step(50, 1)>>), 0, 1)}

\* The first spec that a user applies is the one for b1.
InitB1  == Init /\ twd.build = b1 /\ twd.tmpl = "t1" /\ connection = "c1"
FirstB1 == InitB1 /\ [][Next]_vars /\ ControllerFairness /\ EnvFairness

\* Rollouts behind a gate.
GateSpecs ==
  {SpecOf(b1, "AllAtOnce", TRUE, <<>>),
   SpecOf(b2, "Progressive", TRUE, <<Step(50, 1)>>)}

\* The same, and then a version that is not for the controller to route to.
GatedVersionSpecs == GateSpecs \cup {SpecOf(b3, "Manual", TRUE, <<>>)}
=============================================================================
