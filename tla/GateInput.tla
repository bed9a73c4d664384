----------------------------- MODULE GateInput ------------------------------
(***************************************************************************)
(* The input of the gate workflow: from the spec itself, or from a key of a *)
(* ConfigMap or Secret that generatePlan fetches (genplan.go), resolved by  *)
(* ResolveGateInput (planner.go), after two validations of the same rules.  *)
(*                                                                         *)
(* A gate is Nil or [input, inputFrom]; inputFrom is Nil or [cm, sec], which *)
(* say whether the reference is set.                                        *)
(***************************************************************************)
CONSTANT Nil

\* api/v1alpha1/temporalworker_webhook.go, the part on gates.
validateRolloutStrategyGate(gate) ==
  gate # Nil =>
    /\ gate.input = Nil \/ gate.inputFrom = Nil
    /\ gate.inputFrom # Nil => gate.inputFrom.cm # gate.inputFrom.sec

validateGateInputConfig(gate) ==
  /\ ~(gate.input # Nil /\ gate.inputFrom # Nil)
  /\ gate.inputFrom = Nil
       \/ LET cmSet  == gate.inputFrom.cm
              secSet == gate.inputFrom.sec
          IN  ~((cmSet /\ secSet) \/ (~cmSet /\ ~secSet))

Error == [value |-> Nil, secret |-> FALSE, ok |-> FALSE]
Resolved(value, secret) == [value |-> value, secret |-> secret, ok |-> TRUE]

\* Data before BinaryData; a missing key is an error.
FromConfigMap(data, binaryData) ==
  IF data # Nil THEN Resolved(data, FALSE)
  ELSE IF binaryData # Nil THEN Resolved(binaryData, FALSE)
  ELSE Error

FromSecret_Unmarked(secretData) ==
  IF secretData # Nil THEN Resolved(secretData, FALSE) ELSE Error
FromSecret(secretData) ==
  IF secretData # Nil THEN Resolved(secretData, TRUE) ELSE Error

\* data, binaryData and secretData are the values under the key, or Nil.
ResolveGateInput(gate, data, binaryData, secretData) ==
  IF ~validateGateInputConfig(gate) THEN Error
  ELSE IF gate.input # Nil THEN Resolved(gate.input, FALSE)
  ELSE IF gate.inputFrom = Nil THEN Resolved(Nil, FALSE)
  ELSE IF gate.inputFrom.cm THEN FromConfigMap(data, binaryData)
  ELSE FromSecret(secretData)

\* generatePlan: what the gate refers to is fetched first; an object that does
\* not exist (Nil) is an error.
resolveInput(gate, configMap, secret) ==
  LET cmRef  == gate.inputFrom # Nil /\ gate.inputFrom.cm
      secRef == gate.inputFrom # Nil /\ gate.inputFrom.sec
  IN
  IF gate = Nil THEN Resolved(Nil, FALSE)
  ELSE IF (cmRef /\ configMap = Nil) \/ (secRef /\ secret = Nil) THEN Error
  ELSE ResolveGateInput(gate,
         IF cmRef THEN configMap.data ELSE Nil,
         IF cmRef THEN configMap.binaryData ELSE Nil,
         IF secRef THEN secret.data ELSE Nil)
=============================================================================
