------------------------------ MODULE BuildIDs ------------------------------
(***************************************************************************)
(* internal/k8s/deployments.go and internal/controller/k8s.io/utils: the    *)
(* build ID of a TemporalWorkerDeployment, and the names and labels of its  *)
(* Deployments.                                                             *)
(*                                                                         *)
(* A string is a sequence of characters, of which only the class matters:   *)
(* letters and digits ("a", "b"), the dash, dots and underscores ("."), and *)
(* everything else ("/").                                                   *)
(***************************************************************************)
EXTENDS Naturals, Sequences, FiniteSets, SequencesExt

CONSTANTS
  MaxBuildIdLen,    \* 63
  HashMod           \* 10000: the hashes that are told apart

\* A hash and its dash leave room for some of the image.
ASSUME HashAssumption == HashMod \in 1 .. 2 /\ MaxBuildIdLen \in Nat /\ MaxBuildIdLen > 2

Alphanumeric == {"a", "b"}
Separators   == {"-", "."}
LabelChars   == Alphanumeric \cup Separators
DNSChars     == Alphanumeric \cup {"-"}
Chars        == LabelChars \cup {"/"}

----------------------------------------------------------------------------
(* Strings *)

\* ReplaceAllString of [^allowed]+ by a dash: of a run only the first character
\* leaves a trace, and the k-th of the result is the k-th that does.
ReplaceRuns(s, allowed) ==
  LET kept  == {i \in DOMAIN s : s[i] \in allowed \/ i = 1 \/ s[i - 1] \in allowed}
      At(k) == CHOOSE i \in kept : Cardinality({j \in kept : j <= i}) = k
  IN  [k \in 1 .. Cardinality(kept) |-> IF s[At(k)] \in allowed THEN s[At(k)] ELSE "-"]

\* strings.Trim.
Trim(s, separators) ==
  LET solid == {i \in DOMAIN s : s[i] \notin separators} IN
  IF solid = {} THEN <<>> ELSE SubSeq(s, Min(solid), Max(solid))

TruncateString(s, n) == IF Len(s) > n /\ n > 0 THEN SubSeq(s, 1, n) ELSE s

CleanStringForDNS(s) == ReplaceRuns(s, DNSChars)

cleanBuildID_NoTrim(s) == ReplaceRuns(s, LabelChars)
cleanBuildID(s) == Trim(ReplaceRuns(s, LabelChars), Separators)

----------------------------------------------------------------------------
(* Build IDs *)

\* One digit of the model stands for the four of the code; the long form has
\* the same digits after zeros.  The digits are encoded as letters and digits.
ComputeHash(sum, short) ==
  LET digit == IF sum % HashMod = 0 THEN "a" ELSE "b" IN
  IF short THEN <<digit>> ELSE <<"a", "a", digit>>

\* The tag of the image reference, or else its digest, or else the rest: its
\* path, or the whole string if it is no image reference.
ImageText(image) ==
  IF image.tag # <<>> THEN image.tag
  ELSE IF image.digest # <<>> THEN image.digest
  ELSE image.rest

computeImagePrefix(image, maxLen) == TruncateString(ImageText(image), maxLen)

\* The whole is truncated, not the part before the hash.
HashedImage_TruncatedLast(image, sum) ==
  cleanBuildID(TruncateString(ImageText(image) \o <<"-">> \o ComputeHash(sum, TRUE),
                              MaxBuildIdLen))

HashedImage(image, sum) ==
  LET suffix == <<"-">> \o ComputeHash(sum, TRUE) IN
  cleanBuildID(computeImagePrefix(image, MaxBuildIdLen - Len(suffix)) \o suffix)

CustomBuildID(custom) == TruncateString(cleanBuildID(custom), MaxBuildIdLen)

\* custom is UnsafeCustomBuildID, which is ignored if nothing of it is left;
\* image that of the first container, sum the 32-bit hash of the pod template.
ComputeBuildID(w) ==
  IF CustomBuildID(w.custom) # <<>> THEN CustomBuildID(w.custom)
  ELSE IF ImageText(w.image) # <<>> THEN HashedImage(w.image, w.sum)
  ELSE ComputeHash(w.sum, FALSE)

----------------------------------------------------------------------------
(* Deployments *)

ComputeVersionedDeploymentName(baseName, buildID) ==
  CleanStringForDNS(baseName \o <<"-">> \o buildID)

\* NewDeploymentWithOwnerRef puts the build ID into a label (of at most 63
\* characters, like the build ID), from which GetDeploymentState takes it.
BuildIDLabel(buildID) == TruncateString(buildID, MaxBuildIdLen)
=============================================================================
