SPECIFICATION FairSpec
CONSTANTS
  b1 = b1
  b2 = b2
  b3 = b3
  Nil = Nil
  Builds = {b1, b2}
  TaskQueues = {q1}
  Templates = {"t1"}
  Connections = {"c1"}
  Env = {}
  MinPause = 1
  MaxIneligible = 75
  AgeCap = 3
  Specs <- GateSpecs
  MaxFaults = 1
  MaxEdits = 2
  MaxHuman = 0
  HumanPcts = {}
PROPERTIES RollbackResetsRamp
