------------------------------- MODULE MCPool -------------------------------
(* Values for TLC. *)
EXTENDS PoolProperties, TLC

CONSTANTS t1, t2, t3

\* t1 and t2 share a namespace, t3 has its own.
Places == (t1 :> "n1") @@ (t2 :> "n1") @@ (t3 :> "n2")
TemporalPlaces == [t \in Users |-> IF Places[t] = "n1" THEN "a" ELSE "b"]
PlacesOfUsers == [t \in Users |-> Places[t]]

MTLS(s)   == [host |-> "h1", mtls |-> s, apiKey |-> Nil]
APIKey(s) == [host |-> "h1", mtls |-> Nil, apiKey |-> s]
Plain     == [host |-> "h1", mtls |-> Nil, apiKey |-> Nil]

AllModes == {MTLS("s1"), MTLS("s2"), APIKey("s2"), Plain}

SameConnections ==
  {[n \in Namespaces |-> [c \in ConnectionNames |-> IF c = "c1" THEN MTLS("s1") ELSE Plain]]}

\* Both resources were seen with c1; t1 may refer to c2 by now.
InitWithC1     == Init /\ refCache = [t \in Users |-> "c1"] /\ ref[t2] = "c1"
BothSeenWithC1 == InitWithC1 /\ [][Next]_vars /\ Fairness

TwoSecrets ==
  {[n \in Namespaces |-> [s \in SecretNames |->
      [type |-> IF s = "s1" THEN "tls" ELSE "opaque",
       valid |-> IF s = "s1" THEN Life ELSE Forever]]]}
=============================================================================
