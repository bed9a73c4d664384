---------------------------- MODULE ClientProofs ----------------------------
(***************************************************************************)
(* Proofs about the clients of the ClientPool: how long a certificate still *)
(* is valid when a Reconcile gets a client, and how many clients are made   *)
(* for a key, for any number of resources, any times and any limit of       *)
(* concurrent Reconciles.                                                   *)
(***************************************************************************)
EXTENDS PoolProofs, FiniteSetTheorems

----------------------------------------------------------------------------
(* Certificates *)

\* Why CertificateValid holds: what is left of the certificate of a client that
\* is being made, and what the making has taken so far, add up to the buffer
\* that the Secret was accepted with; and the clock of the making starts at zero.
CertificateInv ==
  \A t \in Users :
    /\ ~Making(t) => waited[t] = 0
    /\ Making(t) /\ req[t].mode = "TLS" =>
         got[t].valid = Forever \/ got[t].valid + waited[t] >= Buffer

\* A certificate that is not about to expire.
LEMMA NotExpired ==
  ASSUME NEW v \in Times, ~CertificateExpired(v)
  PROVE  v = Forever \/ v >= Buffer
BY TimeAssumption
   DEF CertificateExpired, isCertificateExpired, calculateCertificateExpirationTime,
       Times, Forever

\* A client has a time to NotAfter.
LEMMA ValidType ==
  /\ \A c \in ClientInfo : c.valid \in Times
  /\ \A c \in ClientInfo : Aged(c).valid = Later(c.valid)
  /\ \A c \in ClientInfo : \A ns, s : Outdated(c, ns, s).valid = c.valid
<1>1. \A c \in ClientInfo : c.valid \in Times
  BY DEF ClientInfo
<1>2. ASSUME NEW c \in ClientInfo
      PROVE  Aged(c).valid = Later(c.valid)
  BY PoolNilAssumption DEF Aged, ClientInfo
<1>3. ASSUME NEW c \in ClientInfo, NEW ns, NEW s
      PROVE  Outdated(c, ns, s).valid = c.valid
  BY DEF Outdated, ClientInfo
<1> QED
  BY <1>1, <1>2, <1>3

\* UpsertClient: the Secret was accepted with the whole buffer left.
LEMMA CertificateUpsert ==
  ASSUME TypeOK, CertificateInv, NEW t \in Users, UpsertClient(t)
  PROVE  CertificateInv'
<1>0. /\ pc \in [Users -> Locations] /\ req \in [Users -> Request \cup {Nil}]
      /\ got \in [Users -> ClientInfo \cup {Nil}] /\ waited \in [Users -> 0 .. DialTime]
      /\ secrets \in [Namespaces -> [SecretNames -> Secret \cup {Nil}]]
  BY DEF TypeOK, PoolTypeOK
<1>1. /\ pc[t] = "upsert" /\ pc' = [pc EXCEPT ![t] = "dial"]
      /\ got' = [got EXCEPT ![t] = NewClient(req[t])]
      /\ UNCHANGED <<req, waited>> /\ SecretAccepted(req[t])
  BY DEF UpsertClient, Goes
<1>2. req[t] \in Request /\ req[t].ns \in Namespaces
      /\ (req[t].mode = "TLS" => req[t].secret \in SecretNames)
  BY <1>0, <1>1 DEF TypeOK, PoolTypeOK, Request
<1>3. waited[t] = 0
  BY <1>1 DEF CertificateInv, Making
<1>4. ASSUME req[t].mode = "TLS"
      PROVE  got'[t].valid = Forever \/ got'[t].valid >= Buffer
  <2> DEFINE secret == secrets[req[t].ns][req[t].secret]
  <2>1. secret \in Secret /\ ~CertificateExpired(secret.valid)
    BY <1>0, <1>1, <1>2, <1>4 DEF SecretAccepted
  <2>2. secret.valid \in Times
    BY <2>1 DEF Secret
  <2>3. got'[t].valid = secret.valid
    BY <1>0, <1>1, <1>4 DEF NewClient
  <2> QED
    BY <2>1, <2>2, <2>3, NotExpired
<1>5. got'[t] \in ClientInfo
  BY <1>0, <1>1, <1>2, NewClientType
<1>6. got'[t].valid \in Times
  BY <1>5, ValidType
<1>7. /\ Making(t)' => waited'[t] = 0
      /\ req'[t].mode = "TLS" => got'[t].valid = Forever \/ got'[t].valid + waited'[t] >= Buffer
  BY <1>1, <1>3, <1>4, <1>6, TimeAssumption DEF Times, Forever
<1>8. pc'[t] = "dial" /\ \A u \in Users \ {t} :
        pc'[u] = pc[u] /\ got'[u] = got[u] /\ waited'[u] = waited[u] /\ req'[u] = req[u]
  BY <1>0, <1>1
<1> QED
  BY <1>7, <1>8 DEF CertificateInv, Making

\* What a tick takes from the certificate it adds to the clock.
LEMMA CertificateTick ==
  ASSUME TypeOK, CertificateInv, Tick
  PROVE  CertificateInv'
<1> SUFFICES ASSUME NEW t \in Users
             PROVE  /\ ~Making(t)' => waited'[t] = 0
                    /\ Making(t)' /\ req'[t].mode = "TLS" =>
                         got'[t].valid = Forever \/ got'[t].valid + waited'[t] >= Buffer
  BY DEF CertificateInv
<1>0. /\ got[t] \in ClientInfo \cup {Nil} /\ waited[t] \in 0 .. DialTime
      /\ Making(t) => got[t] # Nil
  BY DEF TypeOK, PoolTypeOK, Making
<1>1. /\ pc'[t] = pc[t] /\ req'[t] = req[t]
      /\ Making(t) => waited[t] < DialTime
      /\ waited'[t] = IF Making(t) THEN waited[t] + 1 ELSE waited[t]
      /\ Making(t) => got'[t] = Aged(got[t])
  BY DEF Tick
<1>2. Making(t)' <=> Making(t)
  BY <1>1 DEF Making
<1>3. CASE ~Making(t)
  BY <1>1, <1>2, <1>3 DEF CertificateInv
<1>4. CASE Making(t) /\ req[t].mode = "TLS"
  <2>1. /\ got'[t].valid = Later(got[t].valid) /\ got[t].valid \in Times
        /\ waited'[t] = waited[t] + 1
    BY <1>0, <1>1, <1>4, ValidType
  <2>2. got[t].valid = Forever \/ got[t].valid + waited[t] >= Buffer
    BY <1>4 DEF CertificateInv
  <2> QED
    BY <1>0, <1>2, <1>4, <2>1, <2>2, TimeAssumption DEF Later, Times, Forever
<1> QED
  BY <1>1, <1>2, <1>3, <1>4

\* CertificateInv is an invariant.
LEMMA CertificateInvariant == Spec => []CertificateInv
<1>1. Init => CertificateInv
  BY DEF Init, PoolInit, CertificateInv, Making
<1>2. TypeOK /\ CertificateInv /\ [Next]_vars => CertificateInv'
  <2> SUFFICES ASSUME TypeOK, CertificateInv, [Next]_vars PROVE CertificateInv'
    OBVIOUS
  <2>0. /\ pc \in [Users -> Locations] /\ req \in [Users -> Request \cup {Nil}]
        /\ got \in [Users -> ClientInfo \cup {Nil}] /\ waited \in [Users -> 0 .. DialTime]
    BY DEF TypeOK, PoolTypeOK
  <2>1. ASSUME NEW t \in Users, Reconcile(t)
        PROVE  CertificateInv'
    <3>1. /\ pc[t] = "idle" /\ pc' = [pc EXCEPT ![t] = "reading"] /\ UNCHANGED <<got, waited>>
          /\ \A u \in Users \ {t} : req'[u] = req[u]
      BY <2>0, <2>1 DEF Reconcile, GetBegins, Goes
    <3>2. waited[t] = 0
      BY <3>1 DEF CertificateInv, Making
    <3> QED
      BY <2>0, <3>1, <3>2 DEF CertificateInv, Making
  <2>2. ASSUME NEW t \in Users, GetEnds(t)
        PROVE  CertificateInv'
    <3>1. /\ pc[t] = "reading" /\ pc'[t] \in {"upsert", "use"} /\ UNCHANGED <<req, waited>>
          /\ \A u \in Users \ {t} : pc'[u] = pc[u] /\ got'[u] = got[u]
      BY <2>0, <2>2 DEF GetEnds, Goes
    <3>2. waited[t] = 0
      BY <3>1 DEF CertificateInv, Making
    <3> QED
      BY <2>0, <3>1, <3>2 DEF CertificateInv, Making
  <2>3. ASSUME NEW t \in Users, PutBegins(t)
        PROVE  CertificateInv'
    <3>1. /\ pc[t] = "dial" /\ pc'[t] = "writing" /\ UNCHANGED <<req, got, waited>>
          /\ \A u \in Users \ {t} : pc'[u] = pc[u]
      BY <2>0, <2>3 DEF PutBegins, Goes
    <3> QED
      BY <3>1 DEF CertificateInv, Making
  <2>4. ASSUME NEW t \in Users, Unlock(t)
        PROVE  CertificateInv'
    <3>1. /\ pc'[t] = "use" /\ waited'[t] = 0 /\ UNCHANGED <<req, got>>
          /\ \A u \in Users \ {t} : pc'[u] = pc[u] /\ waited'[u] = waited[u]
      BY <2>0, <2>4 DEF Unlock, Goes
    <3> QED
      BY <3>1 DEF CertificateInv, Making
  <2>5. ASSUME NEW t \in Users, Leaves(t)
        PROVE  CertificateInv'
    <3>1. /\ pc' = [pc EXCEPT ![t] = "idle"] /\ req' = [req EXCEPT ![t] = Nil]
          /\ got' = [got EXCEPT ![t] = Nil] /\ waited' = [waited EXCEPT ![t] = 0]
      BY <2>5 DEF Leaves
    <3>2. pc'[t] = "idle" /\ waited'[t] = 0
      BY <2>0, <3>1
    <3>3. \A u \in Users \ {t} :
            pc'[u] = pc[u] /\ req'[u] = req[u] /\ got'[u] = got[u] /\ waited'[u] = waited[u]
      BY <2>0, <3>1
    <3> QED
      BY <3>2, <3>3 DEF CertificateInv, Making
  <2>6. ASSUME NEW ns \in Namespaces, NEW s \in SecretNames, RotateSecret(ns, s)
        PROVE  CertificateInv'
    <3>1. UNCHANGED <<pc, req, waited>>
      BY <2>6 DEF RotateSecret
    <3>2. \A t \in Users : Making(t) => got[t] \in ClientInfo
      BY DEF TypeOK, PoolTypeOK, Making
    <3>3. \A t \in Users : Making(t) => got'[t] = Outdated(got[t], ns, s)
      BY <2>6 DEF RotateSecret
    <3>4. \A t \in Users : Making(t) => got'[t].valid = got[t].valid
      BY <3>2, <3>3, ValidType
    <3> QED
      BY <3>1, <3>4 DEF CertificateInv, Making
  <2>7. CASE FatalMapRace
    BY <2>7 DEF FatalMapRace, CertificateInv, Making
  <2>8. CASE UNCHANGED <<pc, req, got, waited>>
    BY <2>8 DEF CertificateInv, Making
  <2> QED
    BY <2>1, <2>2, <2>3, <2>4, <2>5, <2>6, <2>7, <2>8, CertificateUpsert, CertificateTick
       DEF Next, PoolStep, PutEnds, PutLost, WriteLost, Return, UpsertRefused, DialFails,
           EditReference, EditConnection, ReferenceSeen, ConnectionSeen,
           HandleResourceEvent, HandleConnectionEvent, TimerFires,
           ClosePool, ChangeSecret, Close, poolVars, vars
<1> QED
  BY <1>1, <1>2, PoolTypeCorrect, PTL DEF Spec

\* Whoever gives a Reconcile its client, the map or its own dialling, the
\* certificate has not expired at that moment: for every buffer that is longer
\* than the dialling takes.
THEOREM CertificatesAreValid == Spec => CertificateValid
<1> DEFINE A == \A t \in Users : IsGiven(t) /\ req[t].mode = "TLS" => got'[t].valid >= 0
<1>1. TypeOK /\ CertificateInv /\ [Next]_vars => [A]_vars
  <2> SUFFICES ASSUME TypeOK, CertificateInv, Next,
                      NEW t \in Users, IsGiven(t), req[t].mode = "TLS"
               PROVE  got'[t].valid >= 0
    OBVIOUS
  <2>0. /\ pc \in [Users -> Locations] /\ req \in [Users -> Request \cup {Nil}]
        /\ got \in [Users -> ClientInfo \cup {Nil}]
        /\ clients \in [ClientPoolKeys -> ClientInfo \cup {Nil}]
        /\ waited \in [Users -> 0 .. DialTime]
    BY DEF TypeOK, PoolTypeOK
  <2>1. GetEnds(t) \/ Unlock(t)
    <3>1. ASSUME NEW u \in Users, u # t,
                 Reconcile(u) \/ PoolStep(u) \/ WriteLost(u) \/ Return(u)
          PROVE  pc'[t] = pc[t]
      BY <2>0, <3>1 DEF Reconcile, GetBegins, PoolStep, GetEnds, UpsertClient, PutBegins, PutEnds,
         WriteLost, PutLost, Return, UpsertRefused, DialFails, Leaves, Unlock, Goes
    <3>2. ASSUME Reconcile(t) \/ UpsertClient(t) \/ PutBegins(t) \/ Return(t)
          PROVE  pc'[t] # "use"
      BY <2>0, <3>2 DEF Reconcile, GetBegins, UpsertClient, PutBegins, Return, UpsertRefused,
         DialFails, Leaves, Goes
    <3>3. FatalMapRace => pc'[t] # "use"
      BY DEF FatalMapRace
    <3> QED
      BY <3>1, <3>2, <3>3
         DEF IsGiven, Next, PoolStep, PutEnds, WriteLost, PutLost, EditReference,
             EditConnection, ReferenceSeen, ConnectionSeen, HandleResourceEvent,
             HandleConnectionEvent, TimerFires, ClosePool, ChangeSecret, RotateSecret,
             Close, Tick, poolVars
  <2>2. CASE GetEnds(t)
    <3> DEFINE key == ClientPoolKey(req[t])
    <3>1. pc[t] = "reading" /\ req[t] \in Request
      BY <2>0, <2>2 DEF GetEnds, Goes, TypeOK, PoolTypeOK
    <3>2. key \in ClientPoolKeys /\ key.mode = "TLS"
      BY <3>1, KeyType
    <3>3. GetSDKClient(key) # Nil /\ got'[t] = GetSDKClient(key)
      BY <2>0, <2>2 DEF GetEnds, Goes, IsGiven
    <3>4. /\ got'[t] = clients[key] /\ clients[key] \in ClientInfo
          /\ ~CertificateExpired(clients[key].valid)
      BY <2>0, <3>2, <3>3 DEF GetSDKClient, Usable
    <3> QED
      BY <3>4, ValidType, NotExpired, TimeAssumption DEF Times, Forever
  <2>3. CASE Unlock(t)
    <3>1. pc[t] = "writing" /\ got' = got
      BY <2>3 DEF Unlock, Goes
    <3>2. /\ got[t].valid \in Times
          /\ got[t].valid = Forever \/ got[t].valid + waited[t] >= Buffer
      BY <2>0, <3>1, ValidType DEF CertificateInv, Making, TypeOK, PoolTypeOK
    <3> QED
      BY <2>0, <3>1, <3>2, TimeAssumption DEF Times, Forever
  <2> QED
    BY <2>1, <2>2, <2>3
<1>2. CertificateValid <=> [][A]_vars
  BY DEF CertificateValid
<1> HIDE DEF A
<1> QED
  BY <1>1, <1>2, PoolTypeCorrect, CertificateInvariant, PTL DEF Spec

----------------------------------------------------------------------------
(* How many clients *)

\* The Reconciles that a worker has, and those that have found no client for k
\* and have not stored theirs yet.
Busy       == {t \in Users : pc[t] # "idle"}
Wanting(k) ==
  {t \in Users : pc[t] \in {"upsert", "dial", "writing"} /\ ClientPoolKey(req[t]) = k}

HasClient(k) == clients[k] # Nil /\ Usable(k, clients[k])

\* Why ClientsPerKeyBounded holds: while a key has a client that can be used
\* nobody begins to want one, so the clients stored for it and those still to be
\* stored stay together within the limit; and the limit is never exceeded by the
\* Reconciles themselves.
BoundInv ==
  /\ IsFiniteSet(Busy) /\ Cardinality(Busy) <= MaxConcurrentReconciles
  /\ \A k \in ClientPoolKeys : stored[k] <= MaxConcurrentReconciles
  /\ \A k \in ClientPoolKeys :
       HasClient(k) => stored[k] + Cardinality(Wanting(k)) <= MaxConcurrentReconciles

\* Who wants a client is busy.
LEMMA WantingIsBusy ==
  ASSUME BoundInv, NEW k
  PROVE  /\ IsFiniteSet(Wanting(k)) /\ Cardinality(Wanting(k)) \in Nat
         /\ Cardinality(Wanting(k)) <= Cardinality(Busy) /\ Cardinality(Busy) \in Nat
<1>1. Wanting(k) \in SUBSET Busy
  BY DEF Wanting, Busy
<1>2. IsFiniteSet(Busy)
  BY DEF BoundInv
<1> QED
  BY <1>1, <1>2, FS_Subset, FS_CardinalityType

\* A step that stores nothing, makes nobody busy and, where there is a client,
\* nobody want one.
LEMMA BoundOthers ==
  ASSUME TypeOK, TypeOK', BoundInv, stored' = stored, Busy' \subseteq Busy,
         \A k \in ClientPoolKeys :
           HasClient(k)' => HasClient(k) /\ Wanting(k)' \subseteq Wanting(k)
  PROVE  BoundInv'
<1>1. IsFiniteSet(Busy') /\ Cardinality(Busy') <= MaxConcurrentReconciles
  <2>1. IsFiniteSet(Busy) /\ Cardinality(Busy) <= MaxConcurrentReconciles
    BY DEF BoundInv
  <2>2. /\ IsFiniteSet(Busy') /\ Cardinality(Busy') <= Cardinality(Busy)
        /\ Cardinality(Busy) \in Nat /\ Cardinality(Busy') \in Nat
    BY <2>1, FS_Subset, FS_CardinalityType
  <2> QED
    BY <2>1, <2>2, ConnectionAssumption
<1>2. ASSUME NEW k \in ClientPoolKeys, HasClient(k)'
      PROVE  stored'[k] + Cardinality(Wanting(k)') <= MaxConcurrentReconciles
  <2>1. Wanting(k)' \subseteq Wanting(k) /\ HasClient(k)
    BY <1>2
  <2>2. IsFiniteSet(Wanting(k)) /\ Cardinality(Wanting(k)) \in Nat
    BY WantingIsBusy
  <2>3. Cardinality(Wanting(k)') <= Cardinality(Wanting(k)) /\ Cardinality(Wanting(k)') \in Nat
    BY <2>1, <2>2, FS_Subset, FS_CardinalityType
  <2>4. stored[k] \in Nat /\ stored[k] + Cardinality(Wanting(k)) <= MaxConcurrentReconciles
    BY <2>1 DEF BoundInv, TypeOK, PoolTypeOK
  <2> QED
    BY <2>2, <2>3, <2>4, ConnectionAssumption
<1> QED
  BY <1>1, <1>2 DEF BoundInv

\* A certificate that cannot be used any more is not used again.
LEMMA ClientsAge ==
  ASSUME TypeOK, NEW k \in ClientPoolKeys,
         clients[k] # Nil => \/ clients'[k].valid = clients[k].valid
                             \/ clients'[k].valid = Later(clients[k].valid),
         clients[k] = Nil => clients'[k] = Nil,
         HasClient(k)'
  PROVE  HasClient(k)
<1>1. clients[k] \in ClientInfo /\ clients[k] # Nil
  BY DEF HasClient, TypeOK, PoolTypeOK
<1>2. clients[k].valid \in Times
  BY <1>1, ValidType
<1>3. k.mode = "TLS" => ~CertificateExpired(clients'[k].valid)
  BY DEF HasClient, Usable
<1>4. k.mode = "TLS" => ~CertificateExpired(clients[k].valid)
  BY <1>1, <1>2, <1>3, TimeAssumption
     DEF CertificateExpired, isCertificateExpired, calculateCertificateExpirationTime,
         Later, Times, Forever
<1> QED
  BY <1>1, <1>4 DEF HasClient, Usable

\* A worker takes a resource only below the limit.
LEMMA BoundReconcile ==
  ASSUME TypeOK, TypeOK', BoundInv, NEW t \in Users, Reconcile(t)
  PROVE  BoundInv'
<1>1. /\ pc \in [Users -> Locations] /\ pc' = [pc EXCEPT ![t] = "reading"]
      /\ req \in [Users -> Request \cup {Nil}]
      /\ \A u \in Users \ {t} : req'[u] = req[u]
      /\ pc[t] = "idle" /\ UNCHANGED <<clients, stored>>
      /\ Cardinality(Busy) < MaxConcurrentReconciles
  BY DEF Reconcile, GetBegins, Goes, Busy, TypeOK, PoolTypeOK
<1>2. Busy' = Busy \cup {t} /\ t \notin Busy
  BY <1>1 DEF Busy
<1>3. IsFiniteSet(Busy') /\ Cardinality(Busy') <= MaxConcurrentReconciles
  <2>1. IsFiniteSet(Busy) /\ Cardinality(Busy) \in Nat
    BY FS_CardinalityType DEF BoundInv
  <2>2. IsFiniteSet(Busy') /\ Cardinality(Busy') = Cardinality(Busy) + 1
    BY <1>2, <2>1, FS_AddElement
  <2> QED
    BY <1>1, <2>1, <2>2, ConnectionAssumption
<1>4. ASSUME NEW k \in ClientPoolKeys
      PROVE  (HasClient(k)' <=> HasClient(k)) /\ Wanting(k)' = Wanting(k)
  BY <1>1 DEF HasClient, Wanting
<1> QED
  BY <1>1, <1>3, <1>4 DEF BoundInv

\* GetSDKClient: only who finds no client will want one.
LEMMA BoundGet ==
  ASSUME TypeOK, TypeOK', BoundInv, NEW t \in Users, GetEnds(t)
  PROVE  BoundInv'
<1> DEFINE key == ClientPoolKey(req[t])
<1>1. /\ pc \in [Users -> Locations] /\ pc[t] = "reading" /\ UNCHANGED <<clients, stored, req>>
      /\ pc' = [pc EXCEPT ![t] = IF GetSDKClient(key) = Nil THEN "upsert" ELSE "use"]
  BY DEF GetEnds, Goes, TypeOK, PoolTypeOK
<1>2. Busy' = Busy
  BY <1>1 DEF Busy
<1>3. HasClient(key) => pc'[t] = "use"
  BY <1>1 DEF GetSDKClient, HasClient
<1>4. ASSUME NEW k \in ClientPoolKeys, HasClient(k)'
      PROVE  HasClient(k) /\ Wanting(k)' \subseteq Wanting(k)
  BY <1>1, <1>3, <1>4 DEF HasClient, Wanting
<1> QED
  BY <1>1, <1>2, <1>4, BoundOthers

\* The store: who wanted a client has stored one.
LEMMA BoundPut ==
  ASSUME TypeOK, TypeOK', BoundInv, NEW t \in Users, PutEnds(t)
  PROVE  BoundInv'
<1>1. /\ pc \in [Users -> Locations] /\ pc[t] = "writing" /\ req' = req
      /\ pc' = [pc EXCEPT ![t] = "use"]
      /\ req[t] \in Request
      /\ clients \in [ClientPoolKeys -> ClientInfo \cup {Nil}]
      /\ stored \in [ClientPoolKeys -> Nat]
  BY DEF PutEnds, Unlock, Goes, TypeOK, PoolTypeOK
<1>2. PICK key \in ClientPoolKeys : key = ClientPoolKey(req[t]) /\ StoreKey(req[t]) = key
  BY <1>1, KeyType
<1>3. /\ clients' = [clients EXCEPT ![key] = got[t]]
      /\ stored' = [stored EXCEPT ![key] = IF HasClient(key) THEN @ + 1 ELSE 1]
  BY <1>2 DEF PutEnds, HasClient
<1>4. Busy' = Busy
  BY <1>1 DEF Busy
<1>5. Wanting(key)' = Wanting(key) \ {t} /\ t \in Wanting(key)
  BY <1>1, <1>2 DEF Wanting
<1>6. /\ Cardinality(Wanting(key)') = Cardinality(Wanting(key)) - 1
      /\ Cardinality(Wanting(key)) \in Nat
      /\ Cardinality(Wanting(key)) <= MaxConcurrentReconciles
  <2>1. /\ IsFiniteSet(Wanting(key)) /\ Cardinality(Wanting(key)) \in Nat
        /\ Cardinality(Wanting(key)) <= Cardinality(Busy) /\ Cardinality(Busy) \in Nat
    BY WantingIsBusy
  <2>2. Cardinality(Wanting(key)') = Cardinality(Wanting(key)) - 1
    BY <1>5, <2>1, FS_RemoveElement
  <2> QED
    BY <2>1, <2>2, ConnectionAssumption DEF BoundInv
<1>7. Cardinality(Wanting(key)) >= 1
  <2>1. IsFiniteSet(Wanting(key))
    BY WantingIsBusy
  <2>2. Cardinality(Wanting(key)) # 0
    BY <1>5, <2>1, FS_EmptySet
  <2> QED
    BY <1>6, <2>2
<1>8. stored'[key] + Cardinality(Wanting(key)') <= MaxConcurrentReconciles
  <2>1. CASE HasClient(key)
    <3>1. stored[key] + Cardinality(Wanting(key)) <= MaxConcurrentReconciles
      BY <1>2, <2>1 DEF BoundInv
    <3>2. stored'[key] = stored[key] + 1 /\ stored[key] \in Nat
      BY <1>1, <1>2, <1>3, <2>1
    <3> QED
      BY <1>6, <3>1, <3>2, ConnectionAssumption
  <2>2. CASE ~HasClient(key)
    <3>1. stored'[key] = 1
      BY <1>1, <1>2, <1>3, <2>2
    <3> QED
      BY <1>6, <3>1, ConnectionAssumption
  <2> QED
    BY <2>1, <2>2
<1>9. stored'[key] <= MaxConcurrentReconciles
  <2>1. stored'[key] \in Nat
    BY <1>2 DEF TypeOK, PoolTypeOK
  <2> QED
    BY <1>6, <1>7, <1>8, <2>1, ConnectionAssumption
<1>10. ASSUME NEW k \in ClientPoolKeys, k # key
       PROVE  /\ stored'[k] = stored[k] /\ (HasClient(k)' <=> HasClient(k))
              /\ Wanting(k)' = Wanting(k)
  <2>1. stored'[k] = stored[k] /\ clients'[k] = clients[k]
    BY <1>1, <1>3, <1>10
  <2>2. Wanting(k)' = Wanting(k)
    BY <1>1, <1>2, <1>10 DEF Wanting
  <2> QED
    BY <2>1, <2>2 DEF HasClient
<1>11. ASSUME NEW k \in ClientPoolKeys
       PROVE  /\ stored'[k] <= MaxConcurrentReconciles
              /\ HasClient(k)' =>
                   stored'[k] + Cardinality(Wanting(k)') <= MaxConcurrentReconciles
  <2>1. CASE k = key
    BY <1>8, <1>9, <2>1
  <2>2. CASE k # key
    BY <1>10, <2>2 DEF BoundInv
  <2> QED
    BY <2>1, <2>2
<1> QED
  BY <1>4, <1>11 DEF BoundInv

\* The pool is emptied: by Close, or by a restart.
LEMMA BoundEmptied ==
  ASSUME TypeOK, BoundInv, Close \/ FatalMapRace
  PROVE  BoundInv'
<1>1. clients' = NoClients /\ stored' = NoneStored
  BY DEF Close, FatalMapRace
<1>2. IsFiniteSet(Busy') /\ Cardinality(Busy') <= MaxConcurrentReconciles
  <2>1. CASE Close
    BY <2>1 DEF Close, Busy, BoundInv
  <2>2. CASE FatalMapRace
    <3>1. Busy' = {}
      BY <2>2 DEF FatalMapRace, Busy
    <3> QED
      BY <3>1, FS_EmptySet, ConnectionAssumption
  <2> QED
    BY <2>1, <2>2
<1>3. \A k \in ClientPoolKeys : stored'[k] = 0 /\ ~HasClient(k)'
  BY <1>1 DEF NoClients, NoneStored, HasClient
<1> QED
  BY <1>2, <1>3, ConnectionAssumption DEF BoundInv

\* Time passes, or a Secret is replaced.
LEMMA BoundTime ==
  ASSUME TypeOK, TypeOK', BoundInv,
         Tick \/ \E ns \in Namespaces, s \in SecretNames : RotateSecret(ns, s)
  PROVE  BoundInv'
<1>0. clients \in [ClientPoolKeys -> ClientInfo \cup {Nil}]
  BY DEF TypeOK, PoolTypeOK
<1>1. UNCHANGED <<pc, req, stored>>
  BY DEF Tick, RotateSecret
<1>2. ASSUME NEW k \in ClientPoolKeys
      PROVE  /\ clients[k] # Nil => clients'[k].valid \in {clients[k].valid, Later(clients[k].valid)}
             /\ clients[k] = Nil => clients'[k] = Nil
  <2>1. CASE Tick
    <3>1. clients'[k] = Aged(clients[k])
      BY <2>1 DEF Tick
    <3> QED
      BY <1>0, <3>1, ValidType DEF Aged
  <2>2. ASSUME NEW ns \in Namespaces, NEW s \in SecretNames, RotateSecret(ns, s)
        PROVE  /\ clients[k] # Nil => clients'[k].valid = clients[k].valid
               /\ clients[k] = Nil => clients'[k] = Nil
    <3>1. clients'[k] = Outdated(clients[k], ns, s)
      BY <2>2 DEF RotateSecret
    <3>2. clients[k] # Nil => clients'[k].valid = clients[k].valid
      BY <1>0, <3>1, ValidType
    <3>3. clients[k] = Nil => clients'[k] = Nil
      BY <3>1 DEF Outdated
    <3> QED
      BY <3>2, <3>3
  <2> QED
    BY <2>1, <2>2
<1>3. ASSUME NEW k \in ClientPoolKeys, HasClient(k)'
      PROVE  HasClient(k) /\ Wanting(k)' \subseteq Wanting(k)
  <2>1. /\ clients[k] # Nil => \/ clients'[k].valid = clients[k].valid
                                \/ clients'[k].valid = Later(clients[k].valid)
        /\ clients[k] = Nil => clients'[k] = Nil
    BY <1>2
  <2>2. HasClient(k)
    BY <1>3, <2>1, ClientsAge
  <2> QED
    BY <1>1, <2>2 DEF Wanting
<1>4. Busy' = Busy
  BY <1>1 DEF Busy
<1> QED
  BY <1>1, <1>3, <1>4, BoundOthers

\* For every limit of concurrent Reconciles, at most that many clients are ever
\* made for a key while it has one that can be used.
THEOREM ClientsAreBounded == Spec => []ClientsPerKeyBounded
<1>1. Init => BoundInv
  <2> SUFFICES ASSUME Init PROVE BoundInv
    OBVIOUS
  <2>1. Busy = {}
    BY DEF Init, PoolInit, Busy
  <2>2. \A k \in ClientPoolKeys : stored[k] = 0 /\ ~HasClient(k)
    BY DEF Init, PoolInit, NoClients, NoneStored, HasClient
  <2> QED
    BY <2>1, <2>2, FS_EmptySet, ConnectionAssumption DEF BoundInv
<1>2. TypeOK /\ TypeOK' /\ BoundInv /\ [Next]_vars => BoundInv'
  <2> SUFFICES ASSUME TypeOK, TypeOK', BoundInv, [Next]_vars PROVE BoundInv'
    OBVIOUS
  <2>0. pc \in [Users -> Locations] /\ req \in [Users -> Request \cup {Nil}]
    BY DEF TypeOK, PoolTypeOK
  <2>1. ASSUME NEW t \in Users, UpsertClient(t) \/ PutBegins(t) \/ PutLost(t) \/ Return(t)
        PROVE  BoundInv'
    <3>1. /\ UNCHANGED <<clients, stored>>
          /\ \A u \in Users \ {t} : pc'[u] = pc[u] /\ req'[u] = req[u]
          /\ \/ pc[t] \in {"upsert", "dial"} /\ pc'[t] \in {"dial", "writing"} /\ req' = req
             \/ pc[t] # "idle" /\ pc'[t] \in {"use", "idle"}
      BY <2>0, <2>1 DEF UpsertClient, PutBegins, PutLost, Return, Unlock, Goes, UpsertRefused,
         DialFails, Leaves
    <3>2. Busy' \subseteq Busy
      BY <3>1 DEF Busy
    <3>3. \A k \in ClientPoolKeys : Wanting(k)' \subseteq Wanting(k)
      BY <3>1 DEF Wanting
    <3>4. \A k \in ClientPoolKeys : HasClient(k)' => HasClient(k)
      BY <3>1 DEF HasClient
    <3> QED
      BY <3>1, <3>2, <3>3, <3>4, BoundOthers
  <2>2. CASE UNCHANGED <<pc, req, clients, stored>>
    BY <2>2 DEF BoundInv, Busy, Wanting, HasClient
  <2> QED
    BY <2>1, <2>2, BoundReconcile, BoundGet, BoundPut, BoundEmptied, BoundTime
       DEF Next, PoolStep, WriteLost, EditReference, EditConnection, ReferenceSeen,
           ConnectionSeen, HandleResourceEvent, HandleConnectionEvent, TimerFires,
           ClosePool, ChangeSecret, poolVars, vars
<1>3. BoundInv => ClientsPerKeyBounded
  BY DEF BoundInv, ClientsPerKeyBounded
<1> QED
  BY <1>1, <1>2, <1>3, PoolTypeCorrect, PTL DEF Spec
=============================================================================
