------------------------------- MODULE Inputs -------------------------------
(***************************************************************************)
(* A user edits the parts of a TemporalWorkerDeployment and of its          *)
(* connection that BuildIDs, GateInput and PodConnection are functions of,  *)
(* one part at a time, and the ConfigMap and Secret its gate refers to come *)
(* and go; what must hold of the results.                                   *)
(***************************************************************************)
EXTENDS BuildIDs, GateInput, PodConnection

CONSTANT
  MaxText     \* the longest custom build ID and image string, together

ASSUME MaxTextAssumption == MaxText \in Nat

\* Nil is none of the values a gate may get.
ASSUME NilIsNoValue == Nil \notin {"inline", "data", "binary", "secret"}

VARIABLES
  worker,       \* [custom, image, sum]: see ComputeBuildID
  gate,         \* the gate of the rollout strategy
  configMap,    \* the ConfigMap: Nil, or its values under the key
  secret,       \* the Secret: Nil, or its value under the key
  conn,         \* the connection
  pod           \* what of a connection the pods of a Deployment have, or Nil

gateVars  == <<gate, configMap, secret>>
podVars   == <<conn, pod>>
inputVars == <<worker, gateVars, podVars>>

NoText == [tag |-> <<>>, digest |-> <<>>, rest |-> <<>>]

\* References with a tag, with a digest, with both.
Images ==
  {[NoText EXCEPT !.tag = <<"a", ".", "a", "b">>],
   [NoText EXCEPT !.digest = <<"b", "a", "b", "b", "a">>],
   [NoText EXCEPT !.tag = <<".", ".", ".">>, !.digest = <<"b", "a">>]}

Gates ==
  {Nil} \cup
  [input : {Nil, "inline"}, inputFrom : {Nil} \cup [cm : BOOLEAN, sec : BOOLEAN]]

ConfigMaps == {Nil} \cup [data : {Nil, "data"}, binaryData : {Nil, "binary"}]
Secrets    == {Nil} \cup [data : {Nil, "secret"}]

Connection(host, mtls, apiKey) == [host |-> host, mtls |-> mtls, apiKey |-> apiKey]

\* A Secret has one type: with another, Reconcile ends before it plans.
Connections ==
  {Connection(h, s, <<>>) : h \in {<<"a">>, <<"b">>}, s \in {<<>>, <<"a">>, <<"b">>}}
    \cup {Connection(h, <<>>, k) : h \in {<<"a">>, <<"b">>}, k \in {<<"-">>, <<".">>}}

InputInit ==
  /\ worker = [custom |-> <<>>, image |-> NoText, sum |-> 0]
  /\ gate = Nil /\ configMap = Nil /\ secret = Nil
  /\ conn = Connection(<<"a">>, <<>>, <<>>) /\ pod = Nil

Text == Len(worker.custom) + Len(worker.image.rest)

\* The validation of the resource asks a custom build ID to begin and end with
\* a letter or digit; any separators may be in between.
EditBuildID ==
  /\ gate = Nil /\ pod = Nil
  /\ \E gap \in BoundedSeq(Separators, MaxText), c \in Alphanumeric :
       /\ gap # <<>> => worker.custom # <<>>
       /\ Text + Len(gap) < MaxText
       /\ Len(worker.custom) + Len(gap) < MaxBuildIdLen
       /\ worker' = [worker EXCEPT !.custom = @ \o Append(gap, c)]
  /\ UNCHANGED <<gateVars, podVars>>

\* An image with a tag or digest, or else one without, or a string that is no
\* image reference, written to the end.
EditImage ==
  /\ gate = Nil /\ pod = Nil
  /\ worker.image.tag = <<>> /\ worker.image.digest = <<>>
  /\ \/ worker.image = NoText /\ worker' \in {[worker EXCEPT !.image = i] : i \in Images}
     \/ /\ Text < MaxText
        /\ \E c \in Chars : worker' = [worker EXCEPT !.image.rest = Append(@, c)]
  /\ UNCHANGED <<gateVars, podVars>>

EditTemplate ==
  /\ pod = Nil
  /\ worker' = [worker EXCEPT !.sum = (@ + 1) % (HashMod + 1)]
  /\ UNCHANGED <<gateVars, podVars>>

EditGate ==
  /\ Text = 0 /\ pod = Nil
  /\ gate' \in Gates \ {gate}
  /\ UNCHANGED <<worker, configMap, secret, podVars>>

EditObjects ==
  /\ gate # Nil
  /\ \/ configMap' \in ConfigMaps \ {configMap} /\ UNCHANGED secret
     \/ secret' \in Secrets \ {secret} /\ UNCHANGED configMap
  /\ UNCHANGED <<worker, gate, podVars>>

\* The Deployment is created, or its pod template is rebuilt.
BuildPods ==
  /\ gate = Nil /\ Text = 0 /\ worker.image = NoText
  /\ pod' = ApplyControllerPodSpecModifications(conn)
  /\ UNCHANGED <<worker, gateVars, conn>>

EditConnectionSpec ==
  /\ pod # Nil
  /\ conn' \in Connections \ {conn}
  /\ UNCHANGED <<worker, gateVars, pod>>

UpdatePods ==
  /\ pod # Nil
  /\ pod' = checkAndUpdateDeploymentConnectionSpec(pod, conn)
  /\ UNCHANGED <<worker, gateVars, conn>>

InputNext ==
  \/ EditBuildID \/ EditImage \/ EditTemplate \/ EditGate \/ EditObjects
  \/ BuildPods \/ EditConnectionSpec \/ UpdatePods

InputSpec == InputInit /\ [][InputNext]_inputVars

----------------------------------------------------------------------------
(* Properties *)

ValidLabel(s) ==
  /\ Len(s) \in 1 .. MaxBuildIdLen
  /\ \A i \in DOMAIN s : s[i] \in LabelChars
  /\ s[1] \in Alphanumeric /\ s[Len(s)] \in Alphanumeric

\* cleanBuildID: "it needs to conform to both system's requirements".  Whatever
\* the image is called, the build ID is a valid label value, so that Create is
\* not refused, and GetDeploymentState finds the Deployment of the target again
\* under the build ID that ComputeBuildID gives the target.
BuildIDReadBack ==
  LET buildID == ComputeBuildID(worker) IN
  ValidLabel(buildID) /\ BuildIDLabel(buildID) = buildID

\* Images the spec may have had before.
OtherImages == {[NoText EXCEPT !.rest = s] : s \in BoundedSeq(Chars, 2)} \cup Images

\* ComputeBuildID: without a custom build ID, a pod template with another short
\* hash gives another build ID and another name of the Deployment, whatever the
\* two images are called and however they are truncated: a changed template
\* starts a rollout, and Create does not find the name taken.
DistinctTemplates ==
  worker.custom = <<>> =>
    LET Name(buildID) == ComputeVersionedDeploymentName(<<"a">>, buildID)
        now == ComputeBuildID(worker)
    IN  \A image \in OtherImages, sum \in (0 .. HashMod - 1) \ {worker.sum % HashMod} :
          LET before == ComputeBuildID([custom |-> <<>>, image |-> image, sum |-> sum]) IN
          before # now /\ Name(before) # Name(now)

\* The value the gate asks for, the first of Data and BinaryData.
Wanted ==
  IF gate.input # Nil THEN "inline"
  ELSE IF gate.inputFrom = Nil THEN Nil
  ELSE IF gate.inputFrom.sec THEN "secret"
  ELSE IF configMap # Nil /\ configMap.data # Nil THEN "data" ELSE "binary"

Available(value) ==
  \/ value \in {Nil, "inline"}
  \/ value = "secret" /\ secret # Nil /\ secret.data # Nil
  \/ value = "data"
  \/ value = "binary" /\ configMap # Nil /\ configMap.binaryData # Nil

\* ResolveGateInput: a gate that the webhook accepts gets exactly the value it
\* asks for if that exists and an error if not, a gate that slipped past the
\* webhook gets an error, and precisely the value of a Secret is marked as one,
\* which executePlan keeps out of the log.
GateInputResolved ==
  gate # Nil =>
    LET r == resolveInput(gate, configMap, secret) IN
    /\ r.ok <=> validateRolloutStrategyGate(gate) /\ Available(Wanted)
    /\ r.ok => r.value = Wanted
    /\ r.secret <=> r.ok /\ Wanted = "secret"

\* checkAndUpdateDeploymentConnectionSpec: pods whose annotation is up to date,
\* so that they are not updated again, connect to the host of the connection as
\* it is, and those that have a certificate have that of the connection,
\* whatever connections, with and without certificates, there were in between.
UpToDatePodsConnect ==
  pod # Nil /\ pod.hash = ComputeConnectionSpecHash(conn) =>
    /\ pod.host = conn.host
    /\ pod.mtls # <<>> /\ conn.mtls # <<>> => pod.mtls = conn.mtls
=============================================================================
