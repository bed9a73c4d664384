----------------------------- MODULE ClientPool -----------------------------
(***************************************************************************)
(* internal/controller/clientpool: the map of Temporal clients that all the *)
(* concurrent Reconciles share, the RWMutex around it, and the Secrets the  *)
(* clients are made from.  GetSDKClient and UpsertClient are called one     *)
(* after the other, each by many Reconciles at once; pc[t] is where the     *)
(* Reconcile of the TemporalWorkerDeployment t is:                          *)
(*    idle -> reading -> use                                                *)
(*                    -> upsert -> dial -> writing -> use                   *)
(* reading and writing are the accesses to the map, with a begin and an     *)
(* end, so that accesses that overlap can be seen.                          *)
(*                                                                         *)
(* Time.  The time until a certificate's NotAfter counts down to -1, where  *)
(* it is over.  Forever stands for what outlives the run: a renewed         *)
(* certificate, an API key.                                                 *)
(***************************************************************************)
EXTENDS Integers, FiniteSets

CONSTANTS
  Users,              \* the TemporalWorkerDeployments
  Namespaces,         \* of Kubernetes
  Hosts,              \* HostPort values
  TemporalNamespaces,
  SecretNames,
  Nil,                \* a missing entry, an empty string, a nil pointer
  Env,                \* "close": the pool is closed at some time
  Life,               \* time to NotAfter of a first certificate, in ticks
  Buffer,             \* how long before NotAfter a certificate is not used
  DialTime            \* the longest time from the Secret to the client, in ticks

ASSUME TimeAssumption ==
  Life \in Nat /\ Buffer \in Nat /\ DialTime \in Nat /\ DialTime < Buffer

VARIABLES
  secrets,    \* [Namespaces -> [SecretNames -> Secret or Nil]]
  clients,    \* the map: [ClientPoolKeys -> ClientInfo or Nil]
  lock,       \* the RWMutex: who holds it for reading, who for writing
  pc,         \* [Users -> where its Reconcile is]
  req,        \* [Users -> what it asks the pool for]
  got,        \* [Users -> the client it is making, or has got, as it was then]
  waited,     \* [Users -> time since it read the Secret, until the client is made]
  stored      \* [ClientPoolKeys -> clients stored since the last one that
              \*  could be used was missing] (history variable)

poolVars == <<secrets, clients, lock, pc, req, got, waited, stored>>

Forever == Life + 1
Times   == -1 .. Forever

Modes == {"TLS", "API_KEY", "NO_CREDENTIALS"}

Secret == [type : {"tls", "opaque"}, valid : Times]

ClientPoolKeys ==
  [host : Hosts, tns : TemporalNamespaces, secret : SecretNames \cup {Nil}, mode : Modes]

\* What Reconcile resolved: ns is the Kubernetes namespace of its resource.
Request ==
  {r \in [ns : Namespaces, host : Hosts, tns : TemporalNamespaces,
          secret : SecretNames \cup {Nil}, mode : Modes] :
     r.mode = "NO_CREDENTIALS" <=> r.secret = Nil}

\* A client, with the Secret it was made from; fresh says whether the Secret
\* still has the content it was made from (history).
ClientInfo ==
  [ns : Namespaces \cup {Nil}, secret : SecretNames \cup {Nil}, mode : Modes,
   valid : Times, fresh : BOOLEAN]

\* Nil is nothing that it stands in for.
ASSUME PoolNilAssumption ==
  /\ Nil \notin Users \cup SecretNames \cup Namespaces
  /\ Nil \notin Secret /\ Nil \notin Request /\ Nil \notin ClientInfo

Locations == {"idle", "reading", "upsert", "dial", "writing", "use"}

PoolTypeOK ==
  /\ secrets \in [Namespaces -> [SecretNames -> Secret \cup {Nil}]]
  /\ clients \in [ClientPoolKeys -> ClientInfo \cup {Nil}]
  /\ lock \in [readers : SUBSET Users, writer : Users \cup {Nil}]
  /\ pc \in [Users -> Locations]
  /\ req \in [Users -> Request \cup {Nil}]
  /\ got \in [Users -> ClientInfo \cup {Nil}]
  /\ waited \in [Users -> 0 .. DialTime]
  /\ stored \in [ClientPoolKeys -> Nat]
  /\ \A t \in Users :
       /\ req[t] = Nil <=> pc[t] = "idle"
       /\ got[t] # Nil <=> pc[t] \in {"dial", "writing", "use"}

NoClients  == [k \in ClientPoolKeys |-> Nil]
NoneStored == [k \in ClientPoolKeys |-> 0]
Unlocked   == [readers |-> {}, writer |-> Nil]

PoolInit ==
  /\ clients = NoClients
  /\ lock = Unlocked
  /\ pc = [t \in Users |-> "idle"]
  /\ req = [t \in Users |-> Nil]
  /\ got = [t \in Users |-> Nil]
  /\ waited = [t \in Users |-> 0]
  /\ stored = NoneStored

Goes(t, from, to) == pc[t] = from /\ pc' = [pc EXCEPT ![t] = to]

----------------------------------------------------------------------------
(* Keys and certificates *)

ClientPoolKey_NoSecret(r) ==
  [host |-> r.host, tns |-> r.tns, secret |-> Nil, mode |-> r.mode]

ClientPoolKey(r) ==
  [host |-> r.host, tns |-> r.tns, secret |-> r.secret, mode |-> r.mode]

\* The key that a client is stored under is put together a second time.
StoreKey_NoSecret(r) == [ClientPoolKey(r) EXCEPT !.secret = Nil]
StoreKey(r) == ClientPoolKey(r)

calculateCertificateExpirationTime_NoBuffer(valid) == valid
calculateCertificateExpirationTime(valid) == valid - Buffer

isCertificateExpired(expiryTime) == expiryTime < 0

CertificateExpired(valid) ==
  valid # Forever /\ isCertificateExpired(calculateCertificateExpirationTime(valid))

Usable(key, info) == key.mode = "TLS" => ~CertificateExpired(info.valid)

----------------------------------------------------------------------------
(* GetSDKClient *)

\* RLock.
GetBegins(t, r) ==
  /\ lock.writer = Nil
  /\ Goes(t, "idle", "reading")
  /\ lock' = [lock EXCEPT !.readers = @ \cup {t}]
  /\ req' = [req EXCEPT ![t] = r]
  /\ UNCHANGED <<secrets, clients, got, waited, stored>>

GetSDKClient(key) ==
  IF clients[key] # Nil /\ Usable(key, clients[key]) THEN clients[key] ELSE Nil

GetEnds(t) ==
  LET info == GetSDKClient(ClientPoolKey(req[t])) IN
  /\ pc[t] = "reading"
  /\ Goes(t, "reading", IF info = Nil THEN "upsert" ELSE "use")
  /\ got' = [got EXCEPT ![t] = info]
  /\ lock' = [lock EXCEPT !.readers = @ \ {t}]
  /\ UNCHANGED <<secrets, clients, req, waited, stored>>

----------------------------------------------------------------------------
(* UpsertClient and the three fetchClientUsing... *)

\* The Secret exists, has the type of the mode, and, for mTLS, a certificate
\* that is not about to expire.
SecretAccepted(r) ==
  LET secret == secrets[r.ns][r.secret] IN
  \/ r.mode = "NO_CREDENTIALS"
  \/ r.mode = "API_KEY" /\ secret # Nil /\ secret.type = "opaque"
  \/ r.mode = "TLS" /\ secret # Nil /\ secret.type = "tls"
       /\ ~CertificateExpired(secret.valid)

NewClient(r) ==
  [ns     |-> IF r.mode = "NO_CREDENTIALS" THEN Nil ELSE r.ns,
   secret |-> r.secret,
   mode   |-> r.mode,
   valid  |-> IF r.mode = "TLS" THEN secrets[r.ns][r.secret].valid ELSE Forever,
   fresh  |-> TRUE]

UpsertClient(t) ==
  /\ Goes(t, "upsert", "dial")
  /\ SecretAccepted(req[t])
  /\ got' = [got EXCEPT ![t] = NewClient(req[t])]
  /\ UNCHANGED <<secrets, clients, lock, req, waited, stored>>

LocksTheMap_Never(r) == FALSE

\* fetchClientUsingNoCredentials does not take the lock.
LocksTheMap(r) == r.mode # "NO_CREDENTIALS"

\* Dial and the health check have succeeded.
PutBegins(t) ==
  /\ Goes(t, "dial", "writing")
  /\ IF LocksTheMap(req[t])
     THEN lock = Unlocked /\ lock' = [lock EXCEPT !.writer = t]
     ELSE UNCHANGED lock
  /\ UNCHANGED <<secrets, clients, req, got, waited, stored>>

\* The accesses to the map at this moment.
Accesses == {t \in Users : pc[t] \in {"reading", "writing"}}
Racing(t) == pc[t] = "writing" /\ Accesses # {t}

Unlock(t) ==
  /\ Goes(t, "writing", "use")
  /\ lock' = IF lock.writer = t THEN Unlocked ELSE lock
  /\ waited' = [waited EXCEPT ![t] = 0]
  /\ UNCHANGED <<secrets, req, got>>

PutEnds_KeepsFirst(t) ==
  LET key == StoreKey(req[t]) IN
  /\ Unlock(t)
  /\ clients' = [clients EXCEPT ![key] = IF @ = Nil THEN got[t] ELSE @]
  /\ UNCHANGED stored

\* The client that was there is overwritten and never closed.
PutEnds(t) ==
  LET key == StoreKey(req[t]) IN
  /\ Unlock(t)
  /\ clients' = [clients EXCEPT ![key] = got[t]]
  /\ stored' = [stored EXCEPT ![key] =
                  IF clients[key] # Nil /\ Usable(key, clients[key]) THEN @ + 1 ELSE 1]

\* A write that races with another access may be lost.
PutLost(t) == Racing(t) /\ Unlock(t) /\ UNCHANGED <<clients, stored>>

Leaves_KeepsClient(t) ==
  /\ pc' = [pc EXCEPT ![t] = "idle"]
  /\ req' = [req EXCEPT ![t] = Nil]
  /\ waited' = [waited EXCEPT ![t] = 0]
  /\ UNCHANGED <<secrets, clients, lock, got, stored>>

\* Reconcile returns; what it had been given is dropped, not closed.
Leaves(t) ==
  /\ pc' = [pc EXCEPT ![t] = "idle"]
  /\ req' = [req EXCEPT ![t] = Nil]
  /\ got' = [got EXCEPT ![t] = Nil]
  /\ waited' = [waited EXCEPT ![t] = 0]
  /\ UNCHANGED <<secrets, clients, lock, stored>>

\* UpsertClient returns an error; a failing health check is a panic, which
\* controller-runtime recovers.
UpsertRefused(t) == pc[t] = "upsert" /\ ~SecretAccepted(req[t]) /\ Leaves(t)
DialFails(t)     == pc[t] = "dial" /\ Leaves(t)

\* Nothing in the repository calls Close.
Close ==
  /\ "close" \in Env
  /\ lock = Unlocked
  /\ clients # NoClients
  /\ clients' = NoClients
  /\ stored' = NoneStored
  /\ UNCHANGED <<secrets, lock, pc, req, got, waited>>

----------------------------------------------------------------------------
(* Secrets and time *)

\* Between the Secret and the end of UpsertClient.
Making(t) == pc[t] \in {"dial", "writing"}

Outdated(info, ns, s) ==
  IF info # Nil /\ info.ns = ns /\ info.secret = s
  THEN [info EXCEPT !.fresh = FALSE] ELSE info

\* Somebody replaces the content of a Secret: a renewed certificate or key.
RotateSecret(ns, s) ==
  /\ secrets[ns][s] # Nil
  /\ secrets' = [secrets EXCEPT ![ns][s].valid = Forever]
  /\ clients' = [k \in ClientPoolKeys |-> Outdated(clients[k], ns, s)]
  /\ got' = [t \in Users |-> IF Making(t) THEN Outdated(got[t], ns, s) ELSE got[t]]
  /\ UNCHANGED <<lock, pc, req, waited, stored>>

Later(valid) == IF valid \in {-1, Forever} THEN valid ELSE valid - 1
Aged(x) == IF x = Nil THEN Nil ELSE [x EXCEPT !.valid = Later(@)]

\* Dial, the health check and the wait for the lock take DialTime at most.
Tick ==
  /\ \A t \in Users : Making(t) => waited[t] < DialTime
  /\ secrets' = [ns \in Namespaces |-> [s \in SecretNames |-> Aged(secrets[ns][s])]]
  /\ clients' = [k \in ClientPoolKeys |-> Aged(clients[k])]
  /\ got' = [t \in Users |-> IF Making(t) THEN Aged(got[t]) ELSE got[t]]
  /\ <<secrets, clients, got>> # <<secrets', clients', got'>>
  /\ waited' = [t \in Users |-> IF Making(t) THEN waited[t] + 1 ELSE waited[t]]
  /\ UNCHANGED <<lock, pc, req, stored>>
=============================================================================
