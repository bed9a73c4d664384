SPECIFICATION Spec
CONSTANTS
  b1 = b1
  b2 = b2
  b3 = b3
  Nil = Nil
  Builds = {b1, b2}
  TaskQueues = {q1}
  Templates = {"t1"}
  Connections = {"c1"}
  Env = {"abort", "describe", "unversioned", "serverdelete", "traffic", "transient"}
  MinPause = 1
  MaxIneligible = 75
  AgeCap = 3
  Specs <- RampSpecs
  MaxEdits = 3
  MaxHuman = 0
  HumanPcts = {}
  MaxFaults = Nil
INVARIANTS TypeOK VersionsInUseHaveWorkers
PROPERTIES RampStepsRespected SunsetRespectsDelays
CHECK_DEADLOCK FALSE
