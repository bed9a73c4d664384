---------------------------- MODULE BuildIDProofs ----------------------------
(***************************************************************************)
(* Proofs about the build IDs: that they are valid labels which are read    *)
(* back unchanged, and that templates with distinct hashes have distinct    *)
(* ones, for every image string and every length a build ID may have.       *)
(*                                                                         *)
(* No induction over strings is needed: what the filters return is given by *)
(* counting the kept characters, and a set of positions has a least and a   *)
(* greatest element.                                                        *)
(***************************************************************************)
EXTENDS Inputs, TLAPS, SequenceTheorems, FiniteSetTheorems

----------------------------------------------------------------------------
(* Positions *)

\* A set of naturals has a least element.
LEMMA LeastElement ==
  ASSUME NEW S \in SUBSET Nat, S # {}
  PROVE  \E x \in S : \A y \in S : x <= y
<1> DEFINE Below == OpToRel(<, Nat)
<1>1. \A x, y \in Nat : y < x => <<y, x>> \in Below
  BY DEF OpToRel
<1>2. IsWellFoundedOn(Below, Nat)
  BY NatLessThanWellFounded, Zenon
<1> HIDE DEF Below
<1>3. PICK x \in S : \A y \in S : ~ (<<y, x>> \in Below)
  BY <1>2, WFMin
<1>4. \A y \in S : ~ (y < x)
  BY <1>1, <1>3
<1> QED
  BY <1>4

\* A bounded set of naturals has a greatest one.
LEMMA GreatestElement ==
  ASSUME NEW n \in Nat, NEW S \in SUBSET (1 .. n), S # {}
  PROVE  \E x \in S : \A y \in S : x >= y
<1> DEFINE T == {k \in Nat : k <= n /\ n - k \in S}
<1>1. T # {}
  <2>1. PICK y \in S : TRUE
    OBVIOUS
  <2>2. n - y \in Nat /\ n - y <= n /\ n - (n - y) = y
    BY <2>1
  <2> QED
    BY <2>1, <2>2
<1>2. PICK k \in T : \A l \in T : k <= l
  BY <1>1, LeastElement
<1>3. \A y \in S : n - y \in T
  <2> TAKE y \in S
  <2>1. n - y \in Nat /\ n - y <= n /\ n - (n - y) = y
    OBVIOUS
  <2> QED
    BY <2>1
<1>4. k \in Nat /\ n - k \in S
  OBVIOUS
<1>5. \A y \in S : n - k >= y
  <2> TAKE y \in S
  <2>1. k <= n - y
    BY <1>2, <1>3
  <2> QED
    BY <1>4, <2>1
<1> QED
  BY <1>4, <1>5

\* The ends that strings.Trim cuts to.
LEMMA Ends ==
  ASSUME NEW n \in Nat, NEW S \in SUBSET (1 .. n), S # {}
  PROVE  /\ Min(S) \in S /\ \A y \in S : Min(S) <= y
         /\ Max(S) \in S /\ \A y \in S : Max(S) >= y
<1>1. \E x \in S : \A y \in S : x <= y
  <2>1. S \in SUBSET Nat
    OBVIOUS
  <2> QED
    BY <2>1, LeastElement
<1>2. \E x \in S : \A y \in S : x >= y
  BY GreatestElement
<1> QED
  BY <1>1, <1>2 DEF Min, Max

\* Of the kept positions, there is a k-th for each k up to their number, and the
\* last one is the greatest.
LEMMA Ranks ==
  ASSUME NEW n \in Nat, NEW kept \in SUBSET (1 .. n)
  PROVE  /\ Cardinality(kept) \in 0 .. n
         /\ \A k \in 1 .. Cardinality(kept) :
              \E i \in kept : Cardinality({j \in kept : j <= i}) = k
         /\ n \in kept =>
              /\ Cardinality(kept) > 0
              /\ \A i \in kept :
                   Cardinality({j \in kept : j <= i}) = Cardinality(kept) => i = n
<1> DEFINE UpTo(i) == {j \in kept : j <= i}
           rank == [i \in kept |-> Cardinality(UpTo(i))]
           card == Cardinality(kept)
<1>1. IsFiniteSet(1 .. n) /\ Cardinality(1 .. n) = n
  BY FS_Interval
<1>2. IsFiniteSet(kept) /\ card <= n
  BY <1>1, FS_Subset
<1>3. card \in Nat
  BY <1>2, FS_CardinalityType
<1>4. \A i \in kept : /\ UpTo(i) \in SUBSET kept /\ i \in UpTo(i)
                      /\ \A j \in kept : j < i => UpTo(j) \in SUBSET UpTo(i) /\ UpTo(j) # UpTo(i)
  <2> SUFFICES ASSUME NEW i \in kept
               PROVE  /\ UpTo(i) \in SUBSET kept /\ i \in UpTo(i)
                      /\ \A j \in kept : j < i =>
                           UpTo(j) \in SUBSET UpTo(i) /\ i \notin UpTo(j)
    OBVIOUS
  <2>1. \A j \in kept : j \in Nat
    OBVIOUS
  <2>2. UpTo(i) \in SUBSET kept /\ i \in UpTo(i)
    BY <2>1
  <2>3. ASSUME NEW j \in kept, j < i
        PROVE  UpTo(j) \in SUBSET UpTo(i) /\ i \notin UpTo(j)
    <3>1. ASSUME NEW l \in kept, l <= j PROVE l <= i
      BY <2>1, <2>3, <3>1
    <3>2. ~ (i <= j)
      BY <2>1, <2>3
    <3> QED
      BY <3>1, <3>2
  <2> QED
    BY <2>2, <2>3
<1> HIDE DEF UpTo
<1>5. \A i \in kept : IsFiniteSet(UpTo(i)) /\ Cardinality(UpTo(i)) <= card
  BY <1>2, <1>4, FS_Subset
<1>6. \A i \in kept : Cardinality(UpTo(i)) \in 1 .. card
  <2> TAKE i \in kept
  <2>1. Cardinality(UpTo(i)) \in Nat
    BY <1>5, FS_CardinalityType
  <2>2. Cardinality(UpTo(i)) # 0
    BY <1>4, <1>5, FS_EmptySet
  <2> QED
    BY <1>3, <1>5, <2>1, <2>2
<1>7. \A i, j \in kept : j < i => Cardinality(UpTo(j)) # Cardinality(UpTo(i))
  BY <1>4, <1>5, FS_Subset
<1>8. rank \in Injection(kept, 1 .. card)
  <2>1. rank \in [kept -> 1 .. card]
    BY <1>6
  <2>2. \A i, j \in kept : rank[i] = rank[j] => i = j
    <3> TAKE i, j \in kept
    <3>1. i \in Nat /\ j \in Nat
      OBVIOUS
    <3>2. i < j \/ j < i \/ i = j
      BY <3>1
    <3> QED
      BY <1>7, <3>2
  <2> QED
    BY <2>1, <2>2 DEF Injection, IsInjective
<1>9. rank \in Surjection(kept, 1 .. card)
  <2>1. IsFiniteSet(1 .. card) /\ Cardinality(1 .. card) = card
    BY <1>3, FS_Interval
  <2> QED
    BY <1>8, <2>1, FS_Injection
<1>10. \A k \in 1 .. card : \E i \in kept : Cardinality(UpTo(i)) = k
  BY <1>9 DEF Surjection
<1>11. ASSUME n \in kept
       PROVE  /\ card > 0
              /\ \A i \in kept : Cardinality(UpTo(i)) = card => i = n
  <2>1. card # 0
    BY <1>2, <1>11, FS_EmptySet
  <2>2. ASSUME NEW i \in kept, Cardinality(UpTo(i)) = card
        PROVE  i = n
    <3>1. UpTo(i) = kept
      BY <1>2, <1>4, <2>2, FS_Subset
    <3>2. n <= i
      BY <1>11, <3>1 DEF UpTo
    <3> QED
      BY <3>2
  <2> QED
    BY <1>3, <2>1, <2>2
<1> QED
  BY <1>2, <1>3, <1>10, <1>11 DEF UpTo

----------------------------------------------------------------------------
(* Strings *)

\* Trim: what is left is a part of the string that neither begins nor ends with a
\* separator, and it ends where the string does if that ends with none.
LEMMA Trimmed ==
  ASSUME NEW A, NEW s \in Seq(A), NEW separators
  PROVE  LET t == Trim(s, separators) IN
         /\ t \in Seq(A) /\ Len(t) <= Len(s)
         /\ t # <<>> => t[1] \notin separators /\ t[Len(t)] \notin separators
         /\ s # <<>> /\ s[Len(s)] \notin separators => t # <<>> /\ t[Len(t)] = s[Len(s)]
<1> DEFINE solid == {i \in DOMAIN s : s[i] \notin separators}
           t == Trim(s, separators)
<1>1. PICK n \in Nat : n = Len(s) /\ DOMAIN s = 1 .. n /\ \A i \in 1 .. n : s[i] \in A
  BY LenProperties, ElementOfSeq
<1>2. solid \in SUBSET (1 .. n)
  BY <1>1
<1>3. CASE solid = {}
  <2>1. t = <<>>
    BY <1>3 DEF Trim
  <2>2. s # <<>> => s[Len(s)] \in separators
    <3>1. s # <<>> => n \in 1 .. n
      BY <1>1, EmptySeq
    <3> QED
      BY <1>1, <1>3, <3>1
  <2>3. t \in Seq(A) /\ Len(t) = 0
    BY <2>1, EmptySeq
  <2> QED
    BY <1>1, <2>1, <2>2, <2>3
<1>4. CASE solid # {}
  <2>1. PICK a \in 1 .. n, b \in 1 .. n :
          /\ a = Min(solid) /\ b = Max(solid) /\ a \in solid /\ b \in solid
          /\ \A y \in solid : a <= y /\ b >= y
    <3> HIDE DEF solid
    <3> QED
      BY <1>1, <1>2, <1>4, Ends
  <2>2. a <= b
    BY <2>1
  <2>3. t = SubSeq(s, a, b)
    BY <1>4, <2>1 DEF Trim
  <2> HIDE DEF t
  <2>4. /\ t \in Seq(A) /\ Len(t) = b - a + 1
        /\ \A i \in 1 .. b - a + 1 : t[i] = s[a + i - 1]
    BY <1>1, <2>2, <2>3, SubSeqProperties
  <2>5. t[1] = s[a] /\ t[Len(t)] = s[b]
    <3>1. 1 \in 1 .. b - a + 1 /\ b - a + 1 \in 1 .. b - a + 1
      BY <2>2
    <3>2. a + 1 - 1 = a /\ a + (b - a + 1) - 1 = b
      OBVIOUS
    <3> QED
      BY <2>4, <3>1, <3>2
  <2>6. s[a] \notin separators /\ s[b] \notin separators
    BY <2>1
  <2>7. Len(t) <= Len(s) /\ Len(t) # 0
    BY <1>1, <2>2, <2>4
  <2>8. t # <<>>
    BY <2>7, EmptySeq
  <2>9. ASSUME s # <<>>, s[Len(s)] \notin separators
        PROVE  b = Len(s)
    <3>1. n \in 1 .. n
      BY <1>1, <2>9, EmptySeq
    <3>2. n \in solid
      BY <1>1, <2>9, <3>1
    <3> QED
      BY <1>1, <2>1, <3>2
  <2> QED
    BY <2>4, <2>5, <2>6, <2>7, <2>8, <2>9 DEF t
<1> QED
  BY <1>3, <1>4

\* ReplaceRuns: the result has only allowed characters and dashes, is no longer
\* than the string, and ends as it does if that ends with an allowed character.
LEMMA Replaced ==
  ASSUME NEW A, NEW s \in Seq(A), NEW allowed
  PROVE  LET r == ReplaceRuns(s, allowed) IN
         /\ r \in Seq(allowed \cup {"-"}) /\ Len(r) <= Len(s)
         /\ s # <<>> /\ s[Len(s)] \in allowed => r # <<>> /\ r[Len(r)] = s[Len(s)]
<1> DEFINE kept  == {i \in DOMAIN s : s[i] \in allowed \/ i = 1 \/ s[i - 1] \in allowed}
           At(k) == CHOOSE i \in kept : Cardinality({j \in kept : j <= i}) = k
           r     == ReplaceRuns(s, allowed)
<1>1. PICK n \in Nat : n = Len(s) /\ DOMAIN s = 1 .. n
  BY LenProperties
<1>2. kept \in SUBSET (1 .. n)
  BY <1>1
<1>3. PICK m \in 0 .. n : m = Cardinality(kept)
  <2> HIDE DEF kept
  <2> QED
    BY <1>2, Ranks
<1>4. r = [k \in 1 .. m |-> IF s[At(k)] \in allowed THEN s[At(k)] ELSE "-"]
  BY <1>3, Zenon DEF ReplaceRuns
<1>5. r \in [1 .. m -> allowed \cup {"-"}]
  <2> HIDE DEF At, r
  <2> QED
    BY <1>4
<1>6. r \in Seq(allowed \cup {"-"}) /\ Len(r) = m
  <2> HIDE DEF r
  <2>1. m \in Nat
    OBVIOUS
  <2> QED
    BY <1>5, <2>1, SeqDef, LenProperties
<1>7. ASSUME s # <<>>, s[Len(s)] \in allowed
      PROVE  r # <<>> /\ r[Len(r)] = s[Len(s)]
  <2>1. n \in kept
    <3>1. n # 0
      BY <1>1, <1>7, EmptySeq
    <3> QED
      BY <1>1, <1>7, <3>1
  <2>2. m > 0 /\ At(m) = n
    <3> HIDE DEF kept
    <3>1. m > 0
      BY <1>2, <1>3, <2>1, Ranks
    <3>2. m \in 1 .. Cardinality(kept)
      BY <1>3, <3>1
    <3>3. \E i \in kept : Cardinality({j \in kept : j <= i}) = m
      <4>1. \A k \in 1 .. Cardinality(kept) :
              \E i \in kept : Cardinality({j \in kept : j <= i}) = k
        BY <1>2, Ranks, Zenon
      <4> QED
        BY <3>2, <4>1, Zenon
    <3>4. At(m) \in kept /\ Cardinality({j \in kept : j <= At(m)}) = m
      BY <3>3, Zenon
    <3> HIDE DEF At
    <3>5. At(m) = n
      BY <1>2, <1>3, <2>1, <3>4, Ranks
    <3> QED
      BY <3>1, <3>5
  <2>3. r[m] = s[n]
    <3> HIDE DEF At, r
    <3>1. m \in 1 .. m
      BY <2>2
    <3> QED
      BY <1>1, <1>4, <1>7, <2>2, <3>1
  <2> HIDE DEF r
  <2>4. r # <<>>
    BY <1>6, <2>2, EmptySeq
  <2> QED
    BY <1>1, <1>6, <2>3, <2>4
<1> QED
  BY <1>1, <1>6, <1>7

\* What is put together ends as its last part does.
LEMMA Joined ==
  ASSUME NEW A, NEW s \in Seq(A), NEW t \in Seq(A), Len(t) # 0
  PROVE  /\ s \o t \in Seq(A) /\ Len(s \o t) = Len(s) + Len(t)
         /\ (s \o t)[Len(s \o t)] = t[Len(t)]
<1> DEFINE whole == s \o t
<1>1. Len(s) \in Nat /\ Len(t) \in Nat
  BY LenProperties
<1>2. /\ whole \in Seq(A) /\ Len(whole) = Len(s) + Len(t)
      /\ \A i \in 1 .. Len(s) + Len(t) :
           whole[i] = IF i <= Len(s) THEN s[i] ELSE t[i - Len(s)]
  BY ConcatProperties, Zenon
<1> HIDE DEF whole
<1>3. /\ Len(s) + Len(t) \in 1 .. Len(s) + Len(t)
      /\ ~ (Len(s) + Len(t) <= Len(s)) /\ Len(s) + Len(t) - Len(s) = Len(t)
  BY <1>1
<1>4. whole[Len(whole)] = t[Len(t)]
  BY <1>2, <1>3
<1> QED
  BY <1>2, <1>4 DEF whole

\* TruncateString: with room for a character, at most so many are left.
LEMMA Truncated ==
  ASSUME NEW A, NEW s \in Seq(A), NEW n \in Nat, n > 0
  PROVE  LET t == TruncateString(s, n) IN
         /\ t \in Seq(A) /\ Len(t) <= n /\ Len(t) <= Len(s)
         /\ Len(s) <= n => t = s
<1>1. Len(s) \in Nat /\ \A i \in 1 .. Len(s) : s[i] \in A
  BY LenProperties, ElementOfSeq
<1>2. CASE Len(s) > n
  <2>1. SubSeq(s, 1, n) \in Seq(A) /\ Len(SubSeq(s, 1, n)) = n
    <3>1. \A i \in 1 .. n : s[i] \in A
      BY <1>1, <1>2
    <3> QED
      BY <3>1, SubSeqProperties
  <2> QED
    BY <1>1, <1>2, <2>1 DEF TruncateString
<1>3. CASE Len(s) <= n
  BY <1>1, <1>3 DEF TruncateString
<1> QED
  BY <1>1, <1>2, <1>3

----------------------------------------------------------------------------
(* Build IDs *)

\* The digit of a hash.
Digit(sum) == IF sum % HashMod = 0 THEN "a" ELSE "b"

\* Strings of which some is left when cleaned are valid labels but for their length.
LEMMA Cleaned ==
  ASSUME NEW s \in Seq(Chars)
  PROVE  LET c == cleanBuildID(s) IN
         /\ c \in Seq(LabelChars) /\ Len(c) <= Len(s)
         /\ c # <<>> => c[1] \in Alphanumeric /\ c[Len(c)] \in Alphanumeric
         /\ s # <<>> /\ s[Len(s)] \in Alphanumeric => c # <<>> /\ c[Len(c)] = s[Len(s)]
<1> DEFINE r == ReplaceRuns(s, LabelChars)
           c == Trim(r, Separators)
<1>1. LabelChars \cup {"-"} = LabelChars /\ Alphanumeric \subseteq LabelChars
  BY DEF LabelChars, Separators
<1>2. /\ r \in Seq(LabelChars) /\ Len(r) <= Len(s)
      /\ s # <<>> /\ s[Len(s)] \in LabelChars => r # <<>> /\ r[Len(r)] = s[Len(s)]
  BY <1>1, Replaced
<1> HIDE DEF r
<1>3. /\ c \in Seq(LabelChars) /\ Len(c) <= Len(r)
      /\ c # <<>> => c[1] \notin Separators /\ c[Len(c)] \notin Separators
      /\ r # <<>> /\ r[Len(r)] \notin Separators => c # <<>> /\ c[Len(c)] = r[Len(r)]
  BY <1>2, Trimmed
<1>4. c = cleanBuildID(s)
  BY DEF cleanBuildID, r
<1> HIDE DEF c
<1>5. Len(s) \in Nat /\ Len(r) \in Nat /\ Len(c) \in Nat
  BY <1>2, <1>3, LenProperties
<1>6. c # <<>> => c[1] \in LabelChars /\ c[Len(c)] \in LabelChars
  <2> SUFFICES ASSUME c # <<>> PROVE c[1] \in LabelChars /\ c[Len(c)] \in LabelChars
    OBVIOUS
  <2>1. 1 \in 1 .. Len(c) /\ Len(c) \in 1 .. Len(c)
    BY <1>3, <1>5, EmptySeq
  <2> QED
    BY <1>3, <2>1, ElementOfSeq
<1>7. /\ \A x \in LabelChars : x \notin Separators => x \in Alphanumeric
      /\ \A x \in Alphanumeric : x \notin Separators /\ x \in LabelChars
  BY DEF LabelChars, Alphanumeric, Separators
<1>8. Len(c) <= Len(s)
  BY <1>2, <1>3, <1>5
<1>9. s # <<>> /\ s[Len(s)] \in Alphanumeric => c # <<>> /\ c[Len(c)] = s[Len(s)]
  BY <1>2, <1>3, <1>7
<1> QED
  BY <1>3, <1>4, <1>6, <1>7, <1>8, <1>9

\* The suffix that HashedImage adds.
LEMMA Suffix ==
  ASSUME NEW d \in Alphanumeric
  PROVE  LET suffix == <<"-">> \o <<d>> IN
         suffix \in Seq(Chars) /\ Len(suffix) = 2 /\ suffix[Len(suffix)] = d
<1>1. "-" \in Chars /\ d \in Chars
  BY DEF Chars, LabelChars, Separators
<1>2. /\ <<"-">> \in Seq(Chars) /\ Len(<<"-">>) = 1
      /\ <<d>> \in Seq(Chars) /\ Len(<<d>>) = 1 /\ <<d>>[1] = d /\ Len(<<d>>) # 0
  BY <1>1
<1>3. /\ <<"-">> \o <<d>> \in Seq(Chars)
      /\ Len(<<"-">> \o <<d>>) = Len(<<"-">>) + Len(<<d>>)
      /\ (<<"-">> \o <<d>>)[Len(<<"-">> \o <<d>>)] = <<d>>[Len(<<d>>)]
  BY <1>2, Joined
<1> QED
  BY <1>2, <1>3

\* HashedImage: the image is truncated so that the hash, which is at the end,
\* has room.
LEMMA Hashed ==
  ASSUME NEW text \in Seq(Chars), NEW d \in Alphanumeric
  PROVE  LET id == cleanBuildID(TruncateString(text, MaxBuildIdLen - 2) \o (<<"-">> \o <<d>>)) IN
         /\ id \in Seq(LabelChars) /\ Len(id) \in 1 .. MaxBuildIdLen
         /\ id[1] \in Alphanumeric /\ id[Len(id)] = d
<1> DEFINE t == TruncateString(text, MaxBuildIdLen - 2)
           suffix == <<"-">> \o <<d>>
           whole == t \o suffix
           id == cleanBuildID(whole)
<1>1. MaxBuildIdLen \in Nat /\ MaxBuildIdLen - 2 \in Nat /\ MaxBuildIdLen - 2 > 0
  BY HashAssumption
<1>2. t \in Seq(Chars) /\ Len(t) <= MaxBuildIdLen - 2
  BY <1>1, Truncated
<1> HIDE DEF t
<1>3. suffix \in Seq(Chars) /\ Len(suffix) = 2 /\ suffix[Len(suffix)] = d
  BY Suffix
<1> HIDE DEF suffix
<1>4. PICK k \in Nat : k = Len(t) /\ k <= MaxBuildIdLen - 2
  BY <1>2, LenProperties
<1>5. whole \in Seq(Chars) /\ Len(whole) = k + 2 /\ whole[Len(whole)] = d
  <2>1. Len(suffix) # 0
    BY <1>3
  <2>2. /\ whole \in Seq(Chars) /\ Len(whole) = Len(t) + Len(suffix)
        /\ whole[Len(whole)] = suffix[Len(suffix)]
    BY <1>2, <1>3, <2>1, Joined
  <2> QED
    BY <1>3, <1>4, <2>2
<1> HIDE DEF whole
<1>6. whole # <<>>
  BY <1>5, EmptySeq
<1>7. /\ id \in Seq(LabelChars) /\ Len(id) <= k + 2
      /\ id # <<>> => id[1] \in Alphanumeric
      /\ id # <<>> /\ id[Len(id)] = d
  BY <1>5, <1>6, Cleaned
<1> HIDE DEF id
<1>8. Len(id) \in Nat \ {0}
  BY <1>7, EmptySeq
<1>9. Len(id) \in 1 .. MaxBuildIdLen
  BY <1>1, <1>4, <1>7, <1>8
<1> QED
  BY <1>7, <1>9 DEF id, whole, t, suffix

\* What a spec with a custom build ID that the validation accepts may be.
Workers ==
  [custom : {s \in Seq(LabelChars) : Len(s) <= MaxBuildIdLen},
   image  : [tag : Seq(Chars), digest : Seq(Chars), rest : Seq(Chars)],
   sum    : Nat]

\* ComputeHash: both forms end with the digit of the hash.
LEMMA Hashes ==
  ASSUME NEW sum \in Nat
  PROVE  /\ Digit(sum) \in Alphanumeric
         /\ ComputeHash(sum, TRUE) = <<Digit(sum)>>
         /\ ComputeHash(sum, FALSE) = <<"a", "a", Digit(sum)>>
BY DEF Digit, Alphanumeric, ComputeHash

\* A build ID is a valid label; without a custom one, it ends with the digit of
\* the hash.
LEMMA BuildIDShape ==
  ASSUME NEW w \in Workers
  PROVE  LET id == ComputeBuildID(w) IN
         /\ id \in Seq(LabelChars) /\ ValidLabel(id)
         /\ w.custom = <<>> => id[Len(id)] = Digit(w.sum)
<1> DEFINE id == ComputeBuildID(w)
           cleaned == cleanBuildID(w.custom)
<1>1. /\ w.custom \in Seq(LabelChars) /\ Len(w.custom) <= MaxBuildIdLen /\ w.sum \in Nat
      /\ ImageText(w.image) \in Seq(Chars)
  BY DEF Workers, ImageText
<1>2. MaxBuildIdLen \in Nat /\ MaxBuildIdLen > 2
  BY HashAssumption
<1>3. w.custom \in Seq(Chars)
  <2>1. LabelChars \subseteq Chars
    BY DEF Chars
  <2> QED
    BY <1>1, <2>1, SeqMonotonic
<1>4. /\ cleaned \in Seq(LabelChars) /\ Len(cleaned) <= Len(w.custom)
      /\ cleaned # <<>> => cleaned[1] \in Alphanumeric /\ cleaned[Len(cleaned)] \in Alphanumeric
  BY <1>3, Cleaned
<1> HIDE DEF cleaned
<1>5. Len(cleaned) \in Nat /\ Len(w.custom) \in Nat
  BY <1>3, <1>4, LenProperties
<1>6. CustomBuildID(w.custom) = cleaned
  <2>1. Len(cleaned) <= MaxBuildIdLen
    BY <1>1, <1>2, <1>4, <1>5
  <2>2. TruncateString(cleaned, MaxBuildIdLen) = cleaned
    BY <1>2, <1>4, <2>1, Truncated
  <2> QED
    BY <2>2 DEF CustomBuildID, cleaned
<1>7. ASSUME NEW s \in Seq(LabelChars)
      PROVE  \A i \in DOMAIN s : s[i] \in LabelChars
  BY <1>7, LenProperties, ElementOfSeq
<1>8. CASE cleaned # <<>>
  <2>1. id = cleaned
    BY <1>6, <1>8 DEF ComputeBuildID
  <2>2. Len(cleaned) # 0
    BY <1>4, <1>8, EmptySeq
  <2>3. Len(cleaned) \in 1 .. MaxBuildIdLen
    BY <1>1, <1>2, <1>4, <1>5, <2>2
  <2>4. w.custom # <<>>
    BY <1>4, <1>5, <2>2, EmptySeq
  <2>5. ValidLabel(cleaned)
    BY <1>4, <1>7, <1>8, <2>3 DEF ValidLabel
  <2> QED
    BY <1>4, <2>1, <2>4, <2>5
<1>9. CASE cleaned = <<>> /\ ImageText(w.image) # <<>>
  <2> DEFINE text == ImageText(w.image)
             d == Digit(w.sum)
  <2>1. d \in Alphanumeric /\ ComputeHash(w.sum, TRUE) = <<d>>
    BY <1>1, Hashes
  <2> HIDE DEF d
  <2>2. Len(<<"-">> \o <<d>>) = 2
    BY <2>1, Suffix
  <2>3. id = HashedImage(w.image, w.sum)
    BY <1>6, <1>9 DEF ComputeBuildID
  <2>4. id = cleanBuildID(TruncateString(text, MaxBuildIdLen - 2) \o (<<"-">> \o <<d>>))
    BY <2>1, <2>2, <2>3 DEF HashedImage, computeImagePrefix
  <2> HIDE DEF text, id
  <2>5. /\ id \in Seq(LabelChars) /\ Len(id) \in 1 .. MaxBuildIdLen
        /\ id[1] \in Alphanumeric /\ id[Len(id)] = d
    BY <1>1, <2>1, <2>4, Hashed DEF text
  <2>6. ValidLabel(id)
    BY <1>7, <2>1, <2>5 DEF ValidLabel
  <2> QED
    BY <2>5, <2>6 DEF d, id
<1>10. CASE cleaned = <<>> /\ ImageText(w.image) = <<>>
  <2> DEFINE d == Digit(w.sum)
  <2>1. d \in Alphanumeric /\ id = <<"a", "a", d>>
    BY <1>1, <1>6, <1>10, Hashes DEF ComputeBuildID
  <2> HIDE DEF d, id
  <2>2. "a" \in Alphanumeric /\ Alphanumeric \subseteq LabelChars
    BY DEF Alphanumeric, LabelChars
  <2>3. id \in Seq(LabelChars) /\ Len(id) = 3 /\ id[1] = "a" /\ id[3] = d
    BY <2>1, <2>2
  <2>4. Len(id) \in 1 .. MaxBuildIdLen
    BY <1>2, <2>3
  <2>5. ValidLabel(id)
    BY <1>7, <2>1, <2>2, <2>3, <2>4 DEF ValidLabel
  <2> QED
    BY <2>3, <2>5 DEF d, id
<1> QED
  BY <1>8, <1>9, <1>10

\* The name of a Deployment ends as the build ID does.
LEMMA NameEnds ==
  ASSUME NEW baseName \in Seq(Chars), NEW id \in Seq(LabelChars), ValidLabel(id)
  PROVE  LET name == ComputeVersionedDeploymentName(baseName, id) IN
         name[Len(name)] = id[Len(id)]
<1> DEFINE base == baseName \o <<"-">>
           whole == base \o id
<1>1. base \in Seq(Chars)
  <2>1. <<"-">> \in Seq(Chars)
    BY DEF Chars, LabelChars, Separators
  <2> QED
    BY <2>1, ConcatProperties
<1>2. id \in Seq(Chars) /\ Len(id) # 0 /\ id[Len(id)] \in Alphanumeric
  <2>1. LabelChars \subseteq Chars
    BY DEF Chars
  <2> QED
    BY <2>1, SeqMonotonic DEF ValidLabel
<1> HIDE DEF base
<1>3. /\ whole \in Seq(Chars) /\ Len(whole) = Len(base) + Len(id)
      /\ whole[Len(whole)] = id[Len(id)]
  BY <1>1, <1>2, Joined
<1>4. whole # <<>>
  <2>1. Len(base) \in Nat /\ Len(id) \in Nat
    BY <1>1, LenProperties
  <2>2. Len(base) + Len(id) # 0
    BY <1>2, <2>1
  <2> HIDE DEF whole
  <2> QED
    BY <1>3, <2>2, EmptySeq
<1>5. ComputeVersionedDeploymentName(baseName, id) = ReplaceRuns(whole, DNSChars)
  BY DEF ComputeVersionedDeploymentName, CleanStringForDNS, base
<1> HIDE DEF whole
<1>6. whole[Len(whole)] \in DNSChars
  BY <1>2, <1>3 DEF DNSChars
<1> QED
  BY <1>3, <1>4, <1>5, <1>6, Replaced

\* ComputeBuildID and ComputeVersionedDeploymentName: of any two specs without a
\* custom build ID whose templates have distinct hashes, whatever their images
\* and the name of the resource are, the build IDs and the names of the
\* Deployments are distinct.
THEOREM HashesTellSpecsApart ==
  ASSUME NEW v \in Workers, NEW w \in Workers, v.custom = <<>>, w.custom = <<>>,
         v.sum % HashMod # w.sum % HashMod, NEW baseName \in Seq(Chars)
  PROVE  /\ ComputeBuildID(v) # ComputeBuildID(w)
         /\ ComputeVersionedDeploymentName(baseName, ComputeBuildID(v))
              # ComputeVersionedDeploymentName(baseName, ComputeBuildID(w))
<1>1. v.sum \in Nat /\ w.sum \in Nat
  BY DEF Workers
<1>2. Digit(v.sum) # Digit(w.sum)
  <2>1. HashMod = 1 \/ HashMod = 2
    BY HashAssumption
  <2>2. PICK m \in Nat, n \in Nat : m = v.sum /\ n = w.sum
    BY <1>1
  <2>3. m % HashMod # n % HashMod
    BY <2>2
  <2>4. (m % HashMod = 0) # (n % HashMod = 0)
    BY <2>1, <2>3
  <2> QED
    BY <2>2, <2>4 DEF Digit
<1> DEFINE before == ComputeBuildID(v)
           now    == ComputeBuildID(w)
<1>3. /\ before \in Seq(LabelChars) /\ ValidLabel(before) /\ before[Len(before)] = Digit(v.sum)
      /\ now \in Seq(LabelChars) /\ ValidLabel(now) /\ now[Len(now)] = Digit(w.sum)
  BY BuildIDShape
<1> HIDE DEF before, now
<1>4. before # now
  BY <1>2, <1>3
<1>5. ComputeVersionedDeploymentName(baseName, before)
        # ComputeVersionedDeploymentName(baseName, now)
  BY <1>2, <1>3, NameEnds
<1> QED
  BY <1>4, <1>5 DEF before, now

----------------------------------------------------------------------------
(* The edits of the user *)

\* The inductive invariant: the spec is one that the validation accepts.
WorkerOK == worker \in Workers

\* The images of the model are strings.
LEMMA ImagesOK ==
  ASSUME NEW i \in OtherImages
  PROVE  i \in [tag : Seq(Chars), digest : Seq(Chars), rest : Seq(Chars)]
<1>1. NoText \in [tag : Seq(Chars), digest : Seq(Chars), rest : Seq(Chars)]
  BY DEF NoText
<1>2. "a" \in Chars /\ "b" \in Chars /\ "." \in Chars
  BY DEF Chars, LabelChars, Alphanumeric, Separators
<1>3. /\ <<"a", ".", "a", "b">> \in Seq(Chars) /\ <<"b", "a", "b", "b", "a">> \in Seq(Chars)
      /\ <<".", ".", ".">> \in Seq(Chars) /\ <<"b", "a">> \in Seq(Chars)
  BY <1>2
<1>4. CASE i \in Images
  BY <1>1, <1>3, <1>4 DEF Images
<1>5. ASSUME NEW s \in BoundedSeq(Chars, 2), i = [NoText EXCEPT !.rest = s]
      PROVE  i \in [tag : Seq(Chars), digest : Seq(Chars), rest : Seq(Chars)]
  <2>1. PICK m \in 0 .. 2 : s \in [1 .. m -> Chars]
    BY <1>5 DEF BoundedSeq, SeqOf
  <2>2. s \in Seq(Chars)
    BY <2>1, SeqDef
  <2> QED
    BY <1>1, <1>5, <2>2
<1> QED
  BY <1>4, <1>5 DEF OtherImages

\* No edit leaves them.
LEMMA WorkerKept ==
  ASSUME WorkerOK, [InputNext]_inputVars
  PROVE  WorkerOK'
<1>1. /\ worker.custom \in Seq(LabelChars) /\ worker.sum \in Nat
      /\ Len(worker.custom) <= MaxBuildIdLen
      /\ worker.image \in [tag : Seq(Chars), digest : Seq(Chars), rest : Seq(Chars)]
  BY DEF WorkerOK, Workers
<1>2. CASE EditBuildID
  <2>1. PICK gap \in BoundedSeq(Separators, MaxText), c \in Alphanumeric :
          /\ Len(worker.custom) + Len(gap) < MaxBuildIdLen
          /\ worker' = [worker EXCEPT !.custom = @ \o Append(gap, c)]
    BY <1>2, Zenon DEF EditBuildID
  <2>2. PICK more \in Seq(LabelChars) :
          more = Append(gap, c) /\ Len(more) = Len(gap) + 1 /\ Len(gap) \in Nat
    <3>1. PICK m \in 0 .. MaxText : gap \in [1 .. m -> Separators]
      BY <2>1 DEF BoundedSeq, SeqOf
    <3>2. gap \in [1 .. m -> LabelChars] /\ c \in LabelChars /\ m \in Nat
      BY <3>1 DEF LabelChars
    <3>3. PICK s \in Seq(LabelChars) : s = gap
      BY <3>2, SeqDef
    <3>4. /\ Append(s, c) \in Seq(LabelChars) /\ Len(Append(s, c)) = Len(s) + 1
          /\ Len(s) \in Nat
      BY <3>2, <3>3
    <3> QED
      BY <3>3, <3>4
  <2>3. /\ worker.custom \o more \in Seq(LabelChars)
        /\ Len(worker.custom \o more) = Len(worker.custom) + Len(more)
    BY <1>1, <2>2, ConcatProperties
  <2>4. PICK custom \in Seq(LabelChars) :
          custom = worker.custom \o more /\ Len(custom) <= MaxBuildIdLen
    <3>1. Len(worker.custom) \in Nat /\ MaxBuildIdLen \in Nat
      BY <1>1, HashAssumption
    <3>2. PICK n \in Nat, g \in Nat : n = Len(worker.custom) /\ g = Len(gap)
      BY <2>2, <3>1
    <3>3. n + g < MaxBuildIdLen
      BY <2>1, <3>2
    <3>4. n + (g + 1) <= MaxBuildIdLen
      BY <3>1, <3>3
    <3>5. Len(worker.custom \o more) <= MaxBuildIdLen
      BY <2>2, <2>3, <3>2, <3>4
    <3> QED
      BY <2>3, <3>5
  <2>5. worker' = [worker EXCEPT !.custom = custom]
    BY <2>1, <2>2, <2>4
  <2> QED
    BY <1>1, <2>4, <2>5 DEF WorkerOK, Workers
<1>3. CASE EditImage
  <2>1. CASE worker' \in {[worker EXCEPT !.image = i] : i \in Images}
    <3>1. PICK i \in Images : worker' = [worker EXCEPT !.image = i]
      BY <2>1
    <3>2. i \in [tag : Seq(Chars), digest : Seq(Chars), rest : Seq(Chars)]
      BY <3>1, ImagesOK DEF OtherImages
    <3> QED
      BY <1>1, <3>1, <3>2 DEF WorkerOK, Workers
  <2>2. ASSUME NEW c \in Chars, worker' = [worker EXCEPT !.image.rest = Append(@, c)]
        PROVE  WorkerOK'
    <3>1. Append(worker.image.rest, c) \in Seq(Chars)
      BY <1>1
    <3>2. [worker.image EXCEPT !.rest = Append(worker.image.rest, c)]
            \in [tag : Seq(Chars), digest : Seq(Chars), rest : Seq(Chars)]
      BY <1>1, <3>1
    <3>3. worker' = [worker EXCEPT !.image =
                       [worker.image EXCEPT !.rest = Append(worker.image.rest, c)]]
      BY <1>1, <2>2 DEF WorkerOK, Workers
    <3> QED
      BY <1>1, <3>2, <3>3 DEF WorkerOK, Workers
  <2> QED
    BY <1>3, <2>1, <2>2 DEF EditImage
<1>4. CASE EditTemplate
  <2>1. (worker.sum + 1) % (HashMod + 1) \in Nat
    BY <1>1, HashAssumption
  <2> QED
    BY <1>1, <1>4, <2>1 DEF EditTemplate, WorkerOK, Workers
<1>5. CASE UNCHANGED worker
  BY <1>5 DEF WorkerOK
<1> QED
  BY <1>2, <1>3, <1>4, <1>5
     DEF InputNext, EditGate, EditObjects, BuildPods, EditConnectionSpec, UpdatePods, inputVars

\* At first nothing is written.
LEMMA WorkerInit ==
  ASSUME InputInit
  PROVE  WorkerOK
<1>1. <<>> \in Seq(LabelChars) /\ Len(<<>>) <= MaxBuildIdLen /\ <<>> \in Seq(Chars)
  BY HashAssumption
<1> QED
  BY <1>1 DEF InputInit, NoText, WorkerOK, Workers

\* Build IDs are valid labels, and are read back from them unchanged.
THEOREM BuildIDsAreReadBack == InputSpec => []BuildIDReadBack
<1>1. WorkerOK => BuildIDReadBack
  <2> SUFFICES ASSUME WorkerOK PROVE BuildIDReadBack
    OBVIOUS
  <2> DEFINE id == ComputeBuildID(worker)
  <2>1. id \in Seq(LabelChars) /\ ValidLabel(id)
    BY BuildIDShape DEF WorkerOK
  <2> HIDE DEF id
  <2>2. MaxBuildIdLen \in Nat /\ MaxBuildIdLen > 0 /\ Len(id) <= MaxBuildIdLen
    BY <2>1, HashAssumption DEF ValidLabel
  <2>3. TruncateString(id, MaxBuildIdLen) = id
    BY <2>1, <2>2, Truncated
  <2> QED
    BY <2>1, <2>3 DEF BuildIDReadBack, BuildIDLabel, id
<1> QED
  BY <1>1, WorkerInit, WorkerKept, PTL DEF InputSpec

\* A template with another hash has another build ID and another Deployment.
THEOREM TemplatesAreToldApart == InputSpec => []DistinctTemplates
<1>1. WorkerOK => DistinctTemplates
  <2> SUFFICES ASSUME WorkerOK, worker.custom = <<>>,
                      NEW image \in OtherImages,
                      NEW sum \in (0 .. HashMod - 1) \ {worker.sum % HashMod}
               PROVE  LET before == ComputeBuildID([custom |-> <<>>, image |-> image,
                                                    sum |-> sum])
                          now == ComputeBuildID(worker)
                      IN  /\ before # now
                          /\ ComputeVersionedDeploymentName(<<"a">>, before)
                               # ComputeVersionedDeploymentName(<<"a">>, now)
    BY DEF DistinctTemplates
  <2> DEFINE other == [custom |-> <<>>, image |-> image, sum |-> sum]
  <2>1. worker.sum \in Nat /\ sum \in Nat /\ sum % HashMod = sum
    <3>1. worker.sum \in Nat
      BY DEF WorkerOK, Workers
    <3>2. HashMod = 1 \/ HashMod = 2
      BY HashAssumption
    <3>3. sum \in Nat /\ sum < HashMod
      BY <3>2
    <3> QED
      BY <3>1, <3>2, <3>3
  <2>2. other \in Workers /\ other.custom = <<>> /\ other.sum = sum
    <3>1. <<>> \in Seq(LabelChars) /\ Len(<<>>) <= MaxBuildIdLen
      BY HashAssumption
    <3> QED
      BY <2>1, <3>1, ImagesOK DEF Workers
  <2>3. <<"a">> \in Seq(Chars)
    BY DEF Chars, LabelChars, Alphanumeric
  <2>4. other.sum % HashMod # worker.sum % HashMod
    BY <2>1, <2>2
  <2> QED
    BY <2>2, <2>3, <2>4, HashesTellSpecsApart DEF WorkerOK
<1> QED
  BY <1>1, WorkerInit, WorkerKept, PTL DEF InputSpec

=============================================================================
