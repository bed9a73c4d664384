-------------------------- MODULE RoutingRegister ---------------------------
(***************************************************************************)
(* What the conflict token promises, without tokens, versions or plans: the *)
(* routing config is a register that several writers share, and one of      *)
(* them, the controller, only ever replaces the value it has looked at.     *)
(***************************************************************************)
CONSTANTS
  Values,       \* of the routing config
  Nil           \* nothing looked at

VARIABLES
  value,        \* the register
  by,           \* who wrote it last: "own" (the controller) or "other"
  view          \* the value the controller has looked at, or Nil

regVars == <<value, by, view>>

Init == value \in Values /\ by = "other" /\ view = Nil

\* Looks at the register, which somebody else may rewrite with the same value.
Observe ==
  /\ view = Nil
  /\ view' = value
  /\ value' = value
  /\ by' \in {by, "other"}

\* Gives up what it saw, before or after a write.
Forget == view' = Nil /\ UNCHANGED <<value, by>>

\* Replaces the value it has looked at, and no other.
OwnWrite ==
  /\ view = value
  /\ value' \in Values
  /\ by' = "own"
  /\ view' = view

OtherWrite ==
  /\ value' \in Values
  /\ by' = "other"
  /\ view' = view

Next == Observe \/ Forget \/ OwnWrite \/ OtherWrite

Spec == Init /\ [][Next]_regVars
=============================================================================
