SPECIFICATION InputSpec
CONSTANTS
  Nil = Nil
  MaxBuildIdLen = 4
  HashMod = 2
  MaxText = 4
INVARIANTS BuildIDReadBack DistinctTemplates GateInputResolved UpToDatePodsConnect
