----------------------------- MODULE Vocabulary -----------------------------
(* The parameters that all the modules share. *)
EXTENDS Naturals, Sequences, FiniteSets

CONSTANTS
  Builds,         \* build IDs the users of this TemporalWorkerDeployment apply
  TaskQueues,     \* workflow task queues its workers may poll
  Nil,            \* a nil pointer, a missing map entry, an empty string
  Env             \* the environment's behaviours (strings), see WorkerController

ASSUME NilAssumption == Nil \notin Builds /\ Nil \notin Nat

\* The lists of the server and of the cluster are finite.
ASSUME FiniteAssumption == IsFiniteSet(Builds) /\ IsFiniteSet(TaskQueues)
=============================================================================
