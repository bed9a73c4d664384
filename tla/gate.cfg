SPECIFICATION Spec
CONSTANTS
  b1 = b1
  b2 = b2
  b3 = b3
  Nil = Nil
  Builds = {b1, b2, b3}
  TaskQueues = {q1, q2}
  Templates = {"t1"}
  Connections = {"c1"}
  Env = {"abort", "gatefail", "describe", "podfail"}
  MinPause = 1
  MaxIneligible = 1
  AgeCap = 3
  Specs <- GatedVersionSpecs
  MaxEdits = 2
  MaxHuman = 0
  HumanPcts = {}
  MaxFaults = Nil
PROPERTIES GateBeforeTraffic CreationRespectsLimit
