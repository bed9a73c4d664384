SPECIFICATION FirstB1
CONSTANTS
  b1 = b1
  b2 = b2
  b3 = b3
  Nil = Nil
  Builds = {b1, b2}
  TaskQueues = {q1}
  Templates = {"t1"}
  Connections = {"c1"}
  Env = {"handback", "abort"}
  MinPause = 0
  MaxIneligible = 75
  AgeCap = 1
  Specs <- BriefSpecs
  MaxEdits = 1
  MaxHuman = 3
  HumanPcts = {50}
  MaxFaults = 1
PROPERTIES HandBackResumes
