SPECIFICATION Spec
CONSTANTS
  b1 = b1
  b2 = b2
  b3 = b3
  Nil = Nil
  Builds = {b1, b2}
  TaskQueues = {q1}
  Templates = {"t1"}
  Connections = {"c1"}
  Env = {"serverdelete"}
  MinPause = 1
  MaxIneligible = 75
  AgeCap = 3
  Specs <- RolloutSpecs
  MaxEdits = 1
  MaxHuman = 2
  HumanPcts = {50}
  MaxFaults = Nil
PROPERTIES NoClobber
