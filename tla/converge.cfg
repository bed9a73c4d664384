SPECIFICATION FirstB1
CONSTANTS
  b1 = b1
  b2 = b2
  b3 = b3
  Nil = Nil
  Builds = {b1, b2}
  TaskQueues = {q1}
  Templates = {"t1", "t2"}
  Connections = {"c1", "c2"}
  Env = {"abort", "lag", "describe", "transient"}
  MinPause = 1
  MaxIneligible = 75
  AgeCap = 2
  Specs <- CustomSpecs
  MaxEdits = 2
  MaxHuman = 0
  HumanPcts = {}
  MaxFaults = 1
PROPERTIES Converges RollbackResetsRamp OnlyUnusedLoseWorkers
