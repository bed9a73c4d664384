---------------------------- MODULE InputsProofs ----------------------------
(***************************************************************************)
(* Proofs about the input of the gate and about the connection of the pods. *)
(***************************************************************************)
EXTENDS Inputs, TLAPS, SequenceTheorems

----------------------------------------------------------------------------
(* The gate *)

\* The objects and the gate are what users may write.
GateOK == gate \in Gates /\ configMap \in ConfigMaps /\ secret \in Secrets

\* Only the two edits of the gate and of its objects change them.
LEMMA GateKept ==
  ASSUME GateOK, [InputNext]_inputVars
  PROVE  GateOK'
<1>1. CASE EditGate
  BY <1>1 DEF EditGate, GateOK
<1>2. CASE EditObjects
  BY <1>2 DEF EditObjects, GateOK
<1>3. CASE UNCHANGED gateVars
  BY <1>3 DEF gateVars, GateOK
<1> QED
  BY <1>1, <1>2, <1>3
     DEF InputNext, EditBuildID, EditImage, EditTemplate, BuildPods, EditConnectionSpec,
         UpdatePods, inputVars

\* The validation of the webhook and that of the planner accept the same gates.
LEMMA ValidationsAgree ==
  ASSUME NEW g \in Gates, g # Nil
  PROVE  validateGateInputConfig(g) <=> validateRolloutStrategyGate(g)
<1>1. g \in [input : {Nil, "inline"}, inputFrom : {Nil} \cup [cm : BOOLEAN, sec : BOOLEAN]]
  BY DEF Gates
<1>2. g.inputFrom # Nil => g.inputFrom.cm \in BOOLEAN /\ g.inputFrom.sec \in BOOLEAN
  BY <1>1
<1> QED
  BY <1>2 DEF validateGateInputConfig, validateRolloutStrategyGate

\* What is resolved, in the order of the code.
LEMMA Resolution ==
  ASSUME NEW v, NEW marked \in BOOLEAN
  PROVE  /\ ~Error.ok /\ ~Error.secret
         /\ Resolved(v, marked).ok /\ Resolved(v, marked).value = v
         /\ Resolved(v, marked).secret = marked
BY DEF Error, Resolved

\* A gate gets the value that it asks for, or an error.
THEOREM GateGetsItsInput == InputSpec => []GateInputResolved
<1>1. InputInit => GateOK
  BY DEF InputInit, GateOK, Gates, ConfigMaps, Secrets
<1>2. GateOK /\ [InputNext]_inputVars => GateOK'
  BY GateKept
<1>3. GateOK => GateInputResolved
  <2> SUFFICES ASSUME GateOK, gate # Nil
               PROVE  LET r == resolveInput(gate, configMap, secret) IN
                      /\ r.ok <=> validateRolloutStrategyGate(gate) /\ Available(Wanted)
                      /\ r.ok => r.value = Wanted
                      /\ r.secret <=> r.ok /\ Wanted = "secret"
    BY DEF GateInputResolved
  <2> DEFINE r == resolveInput(gate, configMap, secret)
             Right == /\ r.ok <=> validateRolloutStrategyGate(gate) /\ Available(Wanted)
                      /\ r.ok => r.value = Wanted
                      /\ r.secret <=> r.ok /\ Wanted = "secret"
             from == gate.inputFrom
  <2>1. /\ gate.input \in {Nil, "inline"}
        /\ from # Nil => from.cm \in BOOLEAN /\ from.sec \in BOOLEAN
        /\ configMap # Nil => configMap.data \in {Nil, "data"} /\ configMap.binaryData \in {Nil, "binary"}
        /\ secret # Nil => secret.data \in {Nil, "secret"}
    BY DEF GateOK, Gates, ConfigMaps, Secrets
  <2>2. validateGateInputConfig(gate) <=> validateRolloutStrategyGate(gate)
    BY ValidationsAgree DEF GateOK
  <2>3. CASE ~validateRolloutStrategyGate(gate)
    <3>1. r = Error
      BY <2>2, <2>3 DEF resolveInput, ResolveGateInput
    <3> QED
      BY <2>3, <3>1, Resolution
  <2>4. CASE validateRolloutStrategyGate(gate) /\ gate.input # Nil
    <3>1. from = Nil /\ gate.input = "inline"
      BY <2>1, <2>4 DEF validateRolloutStrategyGate
    <3>2. r = Resolved("inline", FALSE)
      BY <2>2, <2>4, <3>1 DEF resolveInput, ResolveGateInput
    <3>3. Wanted = "inline" /\ Available(Wanted)
      BY <2>4 DEF Wanted, Available
    <3> QED
      BY <2>4, <3>2, <3>3, Resolution
  <2>5. CASE validateRolloutStrategyGate(gate) /\ gate.input = Nil /\ from = Nil
    <3>1. r = Resolved(Nil, FALSE)
      BY <2>2, <2>5 DEF resolveInput, ResolveGateInput
    <3>2. Wanted = Nil /\ Available(Wanted)
      BY <2>5 DEF Wanted, Available
    <3> QED
      BY <2>5, <3>1, <3>2, Resolution, NilIsNoValue
  <2>6. CASE validateRolloutStrategyGate(gate) /\ gate.input = Nil /\ from # Nil /\ from.cm
    <3>1. ~from.sec
      BY <2>1, <2>6 DEF validateRolloutStrategyGate
    <3>2. Wanted = IF configMap # Nil /\ configMap.data # Nil THEN "data" ELSE "binary"
      BY <2>6, <3>1 DEF Wanted
    <3>3. CASE configMap = Nil
      <4>1. r = Error
        BY <2>6, <3>3 DEF resolveInput
      <4>2. ~Available(Wanted)
        BY <3>2, <3>3, NilIsNoValue DEF Available
      <4> QED
        BY <4>1, <4>2, Resolution
    <3>4. CASE configMap # Nil
      <4>1. r = FromConfigMap(configMap.data, configMap.binaryData)
        BY <2>2, <2>6, <3>1, <3>4 DEF resolveInput, ResolveGateInput
      <4>2. CASE configMap.data # Nil
        <5>1. r = Resolved("data", FALSE)
          BY <2>1, <3>4, <4>1, <4>2 DEF FromConfigMap
        <5>2. Wanted = "data" /\ Available(Wanted)
          BY <3>2, <3>4, <4>2 DEF Available
        <5> QED
          BY <2>6, <5>1, <5>2, Resolution
      <4>3. CASE configMap.data = Nil /\ configMap.binaryData # Nil
        <5>1. r = Resolved("binary", FALSE)
          BY <2>1, <3>4, <4>1, <4>3 DEF FromConfigMap
        <5>2. Wanted = "binary" /\ Available(Wanted)
          BY <3>2, <3>4, <4>3 DEF Available
        <5> QED
          BY <2>6, <5>1, <5>2, Resolution
      <4>4. CASE configMap.data = Nil /\ configMap.binaryData = Nil
        <5>1. r = Error
          BY <4>1, <4>4 DEF FromConfigMap
        <5>2. ~Available(Wanted)
          BY <3>2, <4>4, NilIsNoValue DEF Available
        <5> QED
          BY <5>1, <5>2, Resolution
      <4> QED
        BY <4>2, <4>3, <4>4
    <3> QED
      BY <3>3, <3>4
  <2>7. CASE validateRolloutStrategyGate(gate) /\ gate.input = Nil /\ from # Nil /\ ~from.cm
    <3>1. from.sec /\ Wanted = "secret"
      BY <2>1, <2>7 DEF validateRolloutStrategyGate, Wanted
    <3>2. Available(Wanted) <=> secret # Nil /\ secret.data # Nil
      BY <3>1, NilIsNoValue DEF Available
    <3>3. CASE secret = Nil \/ secret.data = Nil
      <4>1. r = Error
        BY <2>2, <2>7, <3>1, <3>3 DEF resolveInput, ResolveGateInput, FromSecret
      <4> QED
        BY <3>2, <3>3, <4>1, Resolution
    <3>4. CASE secret # Nil /\ secret.data # Nil
      <4>1. r = Resolved("secret", TRUE)
        BY <2>1, <2>2, <2>7, <3>1, <3>4 DEF resolveInput, ResolveGateInput, FromSecret
      <4> QED
        BY <2>7, <3>1, <3>2, <3>4, <4>1, Resolution
    <3> QED
      BY <3>3, <3>4
  <2> QED
    BY <2>3, <2>4, <2>5, <2>6, <2>7
<1> QED
  BY <1>1, <1>2, <1>3, PTL DEF InputSpec

----------------------------------------------------------------------------
(* The pods *)

\* The name of the Secret that goes into the hash.
SecretOf(tc) == IF tc.mtls # <<>> THEN tc.mtls ELSE tc.apiKey

\* Two strings that are put together can be told apart when the first ones are
\* equally long.
LEMMA Concatenated ==
  ASSUME NEW S, NEW s1 \in Seq(S), NEW s2 \in Seq(S), NEW t1 \in Seq(S), NEW t2 \in Seq(S),
         Len(s1) = Len(s2), s1 \o t1 = s2 \o t2
  PROVE  s1 = s2 /\ t1 = t2
<1>1. /\ Len(s1 \o t1) = Len(s1) + Len(t1)
      /\ Len(s2 \o t2) = Len(s2) + Len(t2)
      /\ Len(s1) \in Nat /\ Len(t1) \in Nat /\ Len(t2) \in Nat
  BY ConcatProperties
<1>2. Len(t1) = Len(t2)
  BY <1>1
<1>3. /\ \A i \in 1 .. Len(s1) + Len(t1) :
           (s1 \o t1)[i] = IF i <= Len(s1) THEN s1[i] ELSE t1[i - Len(s1)]
      /\ \A i \in 1 .. Len(s1) + Len(t1) :
           (s1 \o t1)[i] = IF i <= Len(s1) THEN s2[i] ELSE t2[i - Len(s1)]
  BY <1>2, ConcatProperties
<1>4. \A i \in 1 .. Len(s1) : s1[i] = s2[i]
  BY <1>1, <1>3
<1>5. s1 = s2
  BY <1>4, SeqEqual
<1>6. ASSUME NEW i \in 1 .. Len(t1)
      PROVE  t1[i] = t2[i]
  <2>1. PICK n \in Nat, m \in Nat : n = Len(s1) /\ m = Len(t1)
    BY <1>1
  <2>2. n + i \in 1 .. n + m /\ (n + i) - n = i /\ ~(n + i <= n)
    BY <2>1
  <2> QED
    BY <1>3, <2>1, <2>2
<1>7. t1 = t2
  BY <1>2, <1>6, SeqEqual
<1> QED
  BY <1>5, <1>7

\* Strings of the model.
Strings == Seq({"a", "b", "-", "."})

\* The hash tells apart connections whose hosts are equally long.
LEMMA HashTells ==
  ASSUME NEW c \in [host : Strings, mtls : Strings, apiKey : Strings],
         NEW d \in [host : Strings, mtls : Strings, apiKey : Strings],
         Len(c.host) = Len(d.host),
         ComputeConnectionSpecHash(c) = ComputeConnectionSpecHash(d)
  PROVE  c.host = d.host /\ SecretOf(c) = SecretOf(d)
<1>1. /\ c.host \in Strings /\ d.host \in Strings
      /\ SecretOf(c) \in Strings /\ SecretOf(d) \in Strings
  BY DEF SecretOf
<1>2. c.host \o SecretOf(c) = d.host \o SecretOf(d)
  BY DEF ComputeConnectionSpecHash, SecretOf
<1> QED
  BY <1>1, <1>2, Concatenated DEF Strings

\* The connections of the model: hosts of one character, and a certificate and
\* an API key are never in a Secret of the same name.
LEMMA ConnectionFields ==
  ASSUME NEW c \in Connections
  PROVE  /\ c \in [host : Strings, mtls : Strings, apiKey : Strings]
         /\ Len(c.host) = 1
         /\ c.mtls \in {<<>>, <<"a">>, <<"b">>}
         /\ c.mtls = <<>> => c.apiKey \in {<<>>, <<"-">>, <<".">>}
<1>0. /\ <<>> \in Strings /\ <<"a">> \in Strings /\ <<"b">> \in Strings
      /\ <<"-">> \in Strings /\ <<".">> \in Strings
      /\ Len(<<"a">>) = 1 /\ Len(<<"b">>) = 1
  BY DEF Strings
<1>1. \E h \in {<<"a">>, <<"b">>}, x \in {<<>>, <<"a">>, <<"b">>}, k \in {<<>>, <<"-">>, <<".">>} :
        c = [host |-> h, mtls |-> x, apiKey |-> k]
  BY DEF Connections, Connection
<1>2. PICK h \in Strings, x \in {<<>>, <<"a">>, <<"b">>}, k \in {<<>>, <<"-">>, <<".">>} :
        c = [host |-> h, mtls |-> x, apiKey |-> k] /\ Len(h) = 1
  BY <1>0, <1>1
<1>3. x \in Strings /\ k \in Strings
  BY <1>0
<1> QED
  BY <1>2, <1>3

\* The pods were last brought up to a connection that there was: they have its
\* hash and its host and, where both have a certificate, its certificate.
PodInv ==
  /\ conn \in Connections
  /\ pod # Nil =>
       /\ pod \in [host : Strings, mtls : Strings, apiKey : Strings, hash : Strings]
       /\ \E c \in Connections :
            /\ pod.hash = ComputeConnectionSpecHash(c)
            /\ pod.host = c.host
            /\ pod.mtls # <<>> /\ c.mtls # <<>> => pod.mtls = c.mtls

\* PodInv is inductive.
LEMMA PodKept ==
  ASSUME PodInv, [InputNext]_inputVars
  PROVE  PodInv'
<1>0. /\ conn \in Connections /\ conn \in [host : Strings, mtls : Strings, apiKey : Strings]
      /\ ComputeConnectionSpecHash(conn) \in Strings
  <2>1. conn \in Connections /\ conn \in [host : Strings, mtls : Strings, apiKey : Strings]
    BY ConnectionFields DEF PodInv
  <2> QED
    BY <2>1 DEF ComputeConnectionSpecHash, Strings
<1>1. CASE BuildPods
  <2>1. conn' = conn /\ pod' = ApplyControllerPodSpecModifications(conn)
    BY <1>1 DEF BuildPods
  <2>2. /\ pod' \in [host : Strings, mtls : Strings, apiKey : Strings, hash : Strings]
        /\ pod'.hash = ComputeConnectionSpecHash(conn)
        /\ pod'.host = conn.host /\ pod'.mtls = conn.mtls
    BY <1>0, <2>1 DEF ApplyControllerPodSpecModifications
  <2> QED
    BY <1>0, <2>1, <2>2 DEF PodInv
<1>2. CASE UpdatePods
  <2>0. /\ pod # Nil /\ conn' = conn
        /\ pod \in [host : Strings, mtls : Strings, apiKey : Strings, hash : Strings]
    BY <1>2 DEF UpdatePods, PodInv
  <2>1. CASE pod' = pod
    BY <2>0, <2>1 DEF PodInv
  <2>2. CASE pod' # pod
    <3>1. pod' = updateDeploymentWithConnection(pod, conn)
      BY <1>2, <2>2 DEF UpdatePods, checkAndUpdateDeploymentConnectionSpec
    <3>2. /\ pod' \in [host : Strings, mtls : Strings, apiKey : Strings, hash : Strings]
          /\ pod'.hash = ComputeConnectionSpecHash(conn)
          /\ pod'.host = conn.host
          /\ pod'.mtls = IF conn.mtls # <<>> /\ pod.mtls # <<>> THEN conn.mtls ELSE pod.mtls
      BY <1>0, <2>0, <3>1 DEF updateDeploymentWithConnection
    <3>3. pod'.mtls # <<>> /\ conn.mtls # <<>> => pod'.mtls = conn.mtls
      BY <3>2
    <3> QED
      BY <1>0, <2>0, <3>2, <3>3 DEF PodInv
  <2> QED
    BY <2>1, <2>2
<1>3. CASE EditConnectionSpec
  BY <1>3 DEF EditConnectionSpec, PodInv
<1>4. CASE UNCHANGED podVars
  BY <1>4 DEF podVars, PodInv
<1> QED
  BY <1>1, <1>2, <1>3, <1>4
     DEF InputNext, EditBuildID, EditImage, EditTemplate, EditGate, EditObjects, inputVars

\* Pods that are not updated again connect as the connection says.
THEOREM PodsConnect == InputSpec => []UpToDatePodsConnect
<1>1. InputInit => PodInv
  BY DEF InputInit, PodInv, Connections, Connection
<1>2. PodInv /\ [InputNext]_inputVars => PodInv'
  BY PodKept
<1>3. PodInv => UpToDatePodsConnect
  <2> SUFFICES ASSUME PodInv, pod # Nil, pod.hash = ComputeConnectionSpecHash(conn)
               PROVE  /\ pod.host = conn.host
                      /\ pod.mtls # <<>> /\ conn.mtls # <<>> => pod.mtls = conn.mtls
    BY DEF UpToDatePodsConnect
  <2>1. PICK c \in Connections :
          /\ pod.hash = ComputeConnectionSpecHash(c)
          /\ pod.host = c.host
          /\ pod.mtls # <<>> /\ c.mtls # <<>> => pod.mtls = c.mtls
    BY DEF PodInv
  <2>2. conn \in Connections
    BY DEF PodInv
  <2>3. c.host = conn.host /\ SecretOf(c) = SecretOf(conn)
    BY <2>1, <2>2, ConnectionFields, HashTells
  <2>4. ASSUME conn.mtls # <<>>
        PROVE  c.mtls = conn.mtls
    <3>1. conn.mtls \in {<<"a">>, <<"b">>} /\ SecretOf(c) = conn.mtls
      BY <2>2, <2>3, <2>4, ConnectionFields DEF SecretOf
    <3>2. c.mtls # <<>>
      <4> SUFFICES ASSUME c.mtls = <<>> PROVE FALSE
        OBVIOUS
      <4>1. c.apiKey \in {<<>>, <<"-">>, <<".">>} /\ c.apiKey = conn.mtls
        BY <2>1, <3>1, ConnectionFields DEF SecretOf
      <4> QED
        BY <3>1, <4>1
    <3> QED
      BY <3>1, <3>2 DEF SecretOf
  <2> QED
    BY <2>1, <2>3, <2>4
<1> QED
  BY <1>1, <1>2, <1>3, PTL DEF InputSpec

=============================================================================
