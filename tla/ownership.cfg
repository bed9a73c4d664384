SPECIFICATION Spec
CONSTANTS
  b1 = b1
  b2 = b2
  b3 = b3
  Nil = Nil
  Builds = {b1, b2}
  TaskQueues = {q1}
  Templates = {"t1"}
  Connections = {"c1"}
  Env = {"abort", "transient"}
  MinPause = 1
  MaxIneligible = 75
  AgeCap = 3
  Specs <- RolloutSpecs
  MaxFaults = Nil
  MaxEdits = 1
  MaxHuman = 3
  HumanPcts = {50}
INVARIANTS TokenInv
PROPERTIES NoLostUpdate NoClobber ImplementsRegister
