----------------------------- MODULE PoolProofs -----------------------------
(***************************************************************************)
(* Proofs about ReconcileQueue and the ClientPool: types, the lock, the     *)
(* credentials of a client, and the watches, for any number of resources,   *)
(* connections and Secrets.                                                 *)
(***************************************************************************)
EXTENDS PoolProperties, TLAPS

----------------------------------------------------------------------------
(* Types *)

\* Ageing and outdating change the time left and the freshness alone.
LEMMA TimesType ==
  /\ Forever \in Times /\ Forever # -1
  /\ \A v \in Times : Later(v) \in Times
BY TimeAssumption DEF Times, Forever, Later

LEMMA AgedType ==
  /\ \A c \in ClientInfo \cup {Nil} :
       /\ Aged(c) \in ClientInfo \cup {Nil}
       /\ Aged(c) = Nil <=> c = Nil
       /\ c # Nil => /\ Aged(c).ns = c.ns /\ Aged(c).secret = c.secret
                     /\ Aged(c).mode = c.mode
  /\ \A s \in Secret \cup {Nil} : Aged(s) \in Secret \cup {Nil}
<1>1. ASSUME NEW c \in ClientInfo
      PROVE  [c EXCEPT !.valid = Later(@)] \in ClientInfo
  BY TimesType DEF ClientInfo
<1>2. ASSUME NEW s \in Secret
      PROVE  [s EXCEPT !.valid = Later(@)] \in Secret
  BY TimesType DEF Secret
<1>3. ASSUME NEW c \in ClientInfo
      PROVE  LET d == [c EXCEPT !.valid = Later(@)]
             IN  d.ns = c.ns /\ d.secret = c.secret /\ d.mode = c.mode
  BY DEF ClientInfo
<1> QED
  BY <1>1, <1>2, <1>3, PoolNilAssumption DEF Aged

LEMMA OutdatedType ==
  ASSUME NEW c \in ClientInfo \cup {Nil}, NEW ns, NEW s
  PROVE  /\ Outdated(c, ns, s) \in ClientInfo \cup {Nil}
         /\ Outdated(c, ns, s) = Nil <=> c = Nil
         /\ c # Nil => /\ Outdated(c, ns, s).ns = c.ns
                       /\ Outdated(c, ns, s).secret = c.secret
                       /\ Outdated(c, ns, s).mode = c.mode
<1>1. c # Nil => [c EXCEPT !.fresh = FALSE] \in ClientInfo
  BY DEF ClientInfo
<1>2. c # Nil => LET d == [c EXCEPT !.fresh = FALSE]
                 IN  d.ns = c.ns /\ d.secret = c.secret /\ d.mode = c.mode
  BY DEF ClientInfo
<1> QED
  BY <1>1, <1>2, PoolNilAssumption DEF Outdated

\* A request names its key.
LEMMA KeyType ==
  ASSUME NEW r \in Request
  PROVE  /\ ClientPoolKey(r) \in ClientPoolKeys
         /\ StoreKey(r) = ClientPoolKey(r)
         /\ ClientPoolKey(r).secret = r.secret /\ ClientPoolKey(r).mode = r.mode
         /\ ClientPoolKey(r).tns = r.tns
BY DEF ClientPoolKey, StoreKey, ClientPoolKeys, Request

\* A client made for a request has its mode and Secret.
LEMMA NewClientType ==
  ASSUME secrets \in [Namespaces -> [SecretNames -> Secret \cup {Nil}]],
         NEW r \in Request, SecretAccepted(r)
  PROVE  /\ NewClient(r) \in ClientInfo
         /\ NewClient(r).secret = r.secret /\ NewClient(r).mode = r.mode
         /\ NewClient(r).ns = (IF r.mode = "NO_CREDENTIALS" THEN Nil ELSE r.ns)
<1>1. /\ r.ns \in Namespaces /\ r.secret \in SecretNames \cup {Nil} /\ r.mode \in Modes
      /\ r.mode = "TLS" => r.secret # Nil
  BY DEF Request
<1>2. r.mode = "TLS" => secrets[r.ns][r.secret].valid \in Times
  <2>1. r.secret # Nil => secrets[r.ns][r.secret] \in Secret \cup {Nil}
    BY <1>1
  <2>2. \A s \in Secret : s.valid \in Times
    BY DEF Secret
  <2> QED
    BY <1>1, <2>1, <2>2 DEF SecretAccepted
<1> QED
  BY <1>1, <1>2, TimesType DEF NewClient, ClientInfo

\* The initial states are well typed.
LEMMA InitType == Init => TypeOK
<1> SUFFICES ASSUME Init PROVE TypeOK
  OBVIOUS
<1>1. PoolTypeOK
  BY ConnectionAssumption, TimeAssumption
     DEF Init, PoolInit, PoolTypeOK, NoClients, NoneStored, Unlocked, Locations
<1>2. QueueTypeOK
  BY ConnectionAssumption DEF Init, QueueTypeOK
<1> QED
  BY <1>1, <1>2 DEF TypeOK

\* What Reconcile resolves is a request.
LEMMA ResolvedType ==
  ASSUME TypeOK, NEW t \in Users
  PROVE  LET auth == resolveAuthSecretName(ConnectionCached(t))
         IN  [ns |-> NamespaceOf[t], host |-> ConnectionCached(t).host,
              tns |-> TemporalNamespaceOf[t], secret |-> auth.secret,
              mode |-> auth.mode] \in Request
<1>1. ConnectionCached(t) \in TemporalConnectionSpec
  BY ConnectionAssumption DEF ConnectionCached, TypeOK, QueueTypeOK
<1>2. NamespaceOf[t] \in Namespaces /\ TemporalNamespaceOf[t] \in TemporalNamespaces
  BY ConnectionAssumption
<1> QED
  BY <1>1, <1>2 DEF resolveAuthSecretName, TemporalConnectionSpec, Request, Modes

\* The step of one Reconcile from one location to the next, with the parts of
\* the type invariant that it can disturb.
LEMMA LocationType ==
  ASSUME PoolTypeOK, NEW t \in Users, NEW from, NEW to \in Locations, Goes(t, from, to)
  PROVE  /\ pc' \in [Users -> Locations] /\ pc[t] = from /\ pc'[t] = to
         /\ \A u \in Users \ {t} : pc'[u] = pc[u]
BY DEF PoolTypeOK, Goes

\* GetSDKClient's two ends, and UpsertClient.
LEMMA GetType ==
  ASSUME PoolTypeOK, NEW t \in Users, GetEnds(t)
  PROVE  PoolTypeOK'
<1> DEFINE info == GetSDKClient(ClientPoolKey(req[t]))
<1>1. pc[t] = "reading" /\ req[t] \in Request
  BY DEF GetEnds, PoolTypeOK
<1>2. info \in ClientInfo \cup {Nil}
  BY <1>1, KeyType DEF GetSDKClient, PoolTypeOK
<1> DEFINE to == IF info = Nil THEN "upsert" ELSE "use"
<1>3. /\ Goes(t, "reading", to) /\ got' = [got EXCEPT ![t] = info]
      /\ lock' = [lock EXCEPT !.readers = @ \ {t}]
      /\ UNCHANGED <<secrets, clients, req, waited, stored>>
  BY DEF GetEnds
<1>4. to \in {"upsert", "use"} /\ (to = "use" <=> info # Nil)
  OBVIOUS
<1> HIDE DEF info, to
<1>5. /\ pc' \in [Users -> Locations] /\ pc'[t] = to
      /\ \A u \in Users \ {t} : pc'[u] = pc[u]
  BY <1>3, <1>4, LocationType DEF Locations
<1>6. lock' \in [readers : SUBSET Users, writer : Users \cup {Nil}]
  BY <1>3 DEF PoolTypeOK
<1>7. got' \in [Users -> ClientInfo \cup {Nil}]
  BY <1>2, <1>3 DEF PoolTypeOK
<1>8. ASSUME NEW u \in Users
      PROVE  /\ req'[u] = Nil <=> pc'[u] = "idle"
             /\ got'[u] # Nil <=> pc'[u] \in {"dial", "writing", "use"}
  BY <1>1, <1>3, <1>4, <1>5 DEF PoolTypeOK
<1> QED
  BY <1>3, <1>5, <1>6, <1>7, <1>8 DEF PoolTypeOK

\* A request is taken.
LEMMA BeginType ==
  ASSUME PoolTypeOK, NEW t \in Users, NEW r \in Request, GetBegins(t, r)
  PROVE  PoolTypeOK'
<1>1. /\ Goes(t, "idle", "reading") /\ lock' = [lock EXCEPT !.readers = @ \cup {t}]
      /\ req' = [req EXCEPT ![t] = r]
      /\ UNCHANGED <<secrets, clients, got, waited, stored>>
  BY DEF GetBegins
<1>2. /\ pc' \in [Users -> Locations] /\ pc[t] = "idle" /\ pc'[t] = "reading"
      /\ \A u \in Users \ {t} : pc'[u] = pc[u]
  BY <1>1, LocationType DEF Locations
<1>3. lock' \in [readers : SUBSET Users, writer : Users \cup {Nil}]
  BY <1>1 DEF PoolTypeOK
<1>4. req' \in [Users -> Request \cup {Nil}]
  BY <1>1 DEF PoolTypeOK
<1>5. ASSUME NEW u \in Users
      PROVE  /\ req'[u] = Nil <=> pc'[u] = "idle"
             /\ got'[u] # Nil <=> pc'[u] \in {"dial", "writing", "use"}
  BY <1>1, <1>2, PoolNilAssumption DEF PoolTypeOK
<1> QED
  BY <1>1, <1>2, <1>3, <1>4, <1>5 DEF PoolTypeOK

\* The Secret is read and a client is made from it.
LEMMA UpsertType ==
  ASSUME PoolTypeOK, NEW t \in Users, UpsertClient(t)
  PROVE  PoolTypeOK'
<1>1. /\ Goes(t, "upsert", "dial") /\ got' = [got EXCEPT ![t] = NewClient(req[t])]
      /\ UNCHANGED <<secrets, clients, lock, req, waited, stored>>
      /\ SecretAccepted(req[t])
  BY DEF UpsertClient
<1>2. /\ pc' \in [Users -> Locations] /\ pc[t] = "upsert" /\ pc'[t] = "dial"
      /\ \A u \in Users \ {t} : pc'[u] = pc[u]
  BY <1>1, LocationType DEF Locations
<1>3. NewClient(req[t]) \in ClientInfo
  BY <1>1, <1>2, NewClientType DEF PoolTypeOK
<1>4. got' \in [Users -> ClientInfo \cup {Nil}]
  BY <1>1, <1>3 DEF PoolTypeOK
<1>5. ASSUME NEW u \in Users
      PROVE  /\ req'[u] = Nil <=> pc'[u] = "idle"
             /\ got'[u] # Nil <=> pc'[u] \in {"dial", "writing", "use"}
  BY <1>1, <1>2, <1>3, PoolNilAssumption DEF PoolTypeOK
<1> QED
  BY <1>1, <1>2, <1>4, <1>5 DEF PoolTypeOK

\* The store begins...
LEMMA PutBeginsType ==
  ASSUME PoolTypeOK, NEW t \in Users, PutBegins(t)
  PROVE  PoolTypeOK'
<1>1. /\ Goes(t, "dial", "writing")
      /\ UNCHANGED <<secrets, clients, req, got, waited, stored>>
      /\ lock' \in {lock, [lock EXCEPT !.writer = t]}
  BY DEF PutBegins
<1>2. /\ pc' \in [Users -> Locations] /\ pc[t] = "dial" /\ pc'[t] = "writing"
      /\ \A u \in Users \ {t} : pc'[u] = pc[u]
  BY <1>1, LocationType DEF Locations
<1>3. lock' \in [readers : SUBSET Users, writer : Users \cup {Nil}]
  BY <1>1 DEF PoolTypeOK
<1> QED
  BY <1>1, <1>2, <1>3 DEF PoolTypeOK

\* ...and ends, with or without an effect.
LEMMA PutEndsType ==
  ASSUME PoolTypeOK, NEW t \in Users, PutEnds(t) \/ PutLost(t)
  PROVE  PoolTypeOK'
<1>1. Unlock(t)
  BY DEF PutEnds, PutLost
<1>2. /\ Goes(t, "writing", "use") /\ UNCHANGED <<secrets, req, got>>
      /\ lock' \in {lock, Unlocked} /\ waited' = [waited EXCEPT ![t] = 0]
  BY <1>1 DEF Unlock
<1>3. /\ pc' \in [Users -> Locations] /\ pc[t] = "writing" /\ pc'[t] = "use"
      /\ \A u \in Users \ {t} : pc'[u] = pc[u]
  BY <1>2, LocationType DEF Locations
<1>4. lock' \in [readers : SUBSET Users, writer : Users \cup {Nil}]
  BY <1>2 DEF PoolTypeOK, Unlocked
<1>5. waited' \in [Users -> 0 .. DialTime]
  BY <1>2, TimeAssumption DEF PoolTypeOK
<1>6. /\ clients' \in [ClientPoolKeys -> ClientInfo \cup {Nil}]
      /\ stored' \in [ClientPoolKeys -> Nat]
  BY DEF PutEnds, PutLost, PoolTypeOK
<1> QED
  BY <1>2, <1>3, <1>4, <1>5, <1>6 DEF PoolTypeOK

\* Reconcile returns.
LEMMA LeavesType ==
  ASSUME PoolTypeOK, NEW t \in Users, Leaves(t)
  PROVE  PoolTypeOK'
<1>1. waited' \in [Users -> 0 .. DialTime]
  BY TimeAssumption DEF Leaves, PoolTypeOK
<1>2. /\ pc' \in [Users -> Locations] /\ req' \in [Users -> Request \cup {Nil}]
      /\ got' \in [Users -> ClientInfo \cup {Nil}]
  BY DEF Leaves, PoolTypeOK, Locations
<1>3. ASSUME NEW u \in Users
      PROVE  /\ req'[u] = Nil <=> pc'[u] = "idle"
             /\ got'[u] # Nil <=> pc'[u] \in {"dial", "writing", "use"}
  BY DEF Leaves, PoolTypeOK
<1> QED
  BY <1>1, <1>2, <1>3 DEF Leaves, PoolTypeOK

\* The process starts again with an empty pool.
LEMMA RestartType ==
  ASSUME PoolTypeOK, FatalMapRace
  PROVE  PoolTypeOK'
BY TimeAssumption
   DEF FatalMapRace, PoolTypeOK, NoClients, NoneStored, Unlocked, Locations

\* Close, a change of a Secret, and time.
LEMMA AroundType ==
  ASSUME PoolTypeOK,
         \/ Close \/ Tick
         \/ \E ns \in Namespaces, s \in SecretNames : RotateSecret(ns, s)
  PROVE  PoolTypeOK'
<1>1. CASE Close
  BY <1>1 DEF Close, PoolTypeOK, NoClients, NoneStored
<1>2. CASE Tick
  <2>1. secrets' \in [Namespaces -> [SecretNames -> Secret \cup {Nil}]]
    BY <1>2, AgedType DEF Tick, PoolTypeOK
  <2>2. clients' \in [ClientPoolKeys -> ClientInfo \cup {Nil}]
    BY <1>2, AgedType DEF Tick, PoolTypeOK
  <2>3. /\ got' \in [Users -> ClientInfo \cup {Nil}]
        /\ \A t \in Users : got'[t] = Nil <=> got[t] = Nil
    BY <1>2, AgedType DEF Tick, PoolTypeOK
  <2>4. waited' \in [Users -> 0 .. DialTime]
    BY <1>2, TimeAssumption DEF Tick, PoolTypeOK
  <2> QED
    BY <1>2, <2>1, <2>2, <2>3, <2>4 DEF Tick, PoolTypeOK
<1>3. ASSUME NEW ns \in Namespaces, NEW s \in SecretNames, RotateSecret(ns, s)
      PROVE  PoolTypeOK'
  <2>1. secrets' \in [Namespaces -> [SecretNames -> Secret \cup {Nil}]]
    <3>1. secrets[ns][s] \in Secret
      BY <1>3 DEF RotateSecret, PoolTypeOK
    <3>2. [secrets[ns][s] EXCEPT !.valid = Forever] \in Secret
      BY <3>1, TimesType DEF Secret
    <3>3. secrets' = [secrets EXCEPT ![ns] = [secrets[ns] EXCEPT ![s] =
                        [secrets[ns][s] EXCEPT !.valid = Forever]]]
      BY <1>3 DEF RotateSecret, PoolTypeOK
    <3> QED
      BY <3>2, <3>3 DEF PoolTypeOK
  <2>2. clients' \in [ClientPoolKeys -> ClientInfo \cup {Nil}]
    BY <1>3, OutdatedType DEF RotateSecret, PoolTypeOK
  <2>3. /\ got' \in [Users -> ClientInfo \cup {Nil}]
        /\ \A t \in Users : got'[t] = Nil <=> got[t] = Nil
    <3>1. got' = [t \in Users |-> IF Making(t) THEN Outdated(got[t], ns, s) ELSE got[t]]
      BY <1>3 DEF RotateSecret
    <3>2. \A t \in Users : /\ Outdated(got[t], ns, s) \in ClientInfo \cup {Nil}
                           /\ Outdated(got[t], ns, s) = Nil <=> got[t] = Nil
      BY OutdatedType DEF PoolTypeOK
    <3> QED
      BY <3>1, <3>2 DEF PoolTypeOK
  <2> QED
    BY <1>3, <2>1, <2>2, <2>3 DEF RotateSecret, PoolTypeOK
<1> QED
  BY <1>1, <1>2, <1>3

\* What a step leaves alone stays well typed.
LEMMA UnchangedType ==
  /\ PoolTypeOK /\ UNCHANGED poolVars => PoolTypeOK'
  /\ QueueTypeOK /\ UNCHANGED queueVars => QueueTypeOK'
<1>1. PoolTypeOK /\ UNCHANGED poolVars => PoolTypeOK'
  BY DEF PoolTypeOK, poolVars
<1>2. QueueTypeOK /\ UNCHANGED queueVars => QueueTypeOK'
  BY DEF QueueTypeOK, queueVars, watchVars
<1> QED
  BY <1>1, <1>2

\* A worker takes a resource from the queue.
LEMMA ReconcileType ==
  ASSUME TypeOK, NEW t \in Users, Reconcile(t)
  PROVE  TypeOK'
<1>1. PoolTypeOK'
  BY ResolvedType, BeginType DEF Reconcile, TypeOK
<1>2. ConnectionCached(t) \in ConnectionSpecs
  BY ConnectionAssumption DEF ConnectionCached, TypeOK, QueueTypeOK
<1>3. QueueTypeOK'
  BY <1>2 DEF Reconcile, TypeOK, QueueTypeOK, watchVars
<1> QED
  BY <1>1, <1>3 DEF TypeOK

\* Edits of connections and references.
LEMMA EditType ==
  ASSUME TypeOK,
         \/ \E t \in Users : EditReference(t)
         \/ \E ns \in Namespaces, name \in ConnectionNames : EditConnection(ns, name)
  PROVE  TypeOK'
<1>1. QueueTypeOK
  BY DEF TypeOK
<1>2. PoolTypeOK'
  BY UnchangedType DEF EditReference, EditConnection, TypeOK
<1>3. ASSUME NEW t \in Users, EditReference(t)
      PROVE  QueueTypeOK'
  BY <1>1, <1>3 DEF EditReference, QueueTypeOK, watchVars
<1>4. ASSUME NEW ns \in Namespaces, NEW name \in ConnectionNames, EditConnection(ns, name)
      PROVE  QueueTypeOK'
  <2>1. PICK tc \in ConnectionSpecs : conns' = [conns EXCEPT ![ns][name] = tc]
    BY <1>4 DEF EditConnection
  <2>2. conns' \in [Namespaces -> [ConnectionNames -> ConnectionSpecs]]
    BY <1>1, <2>1 DEF QueueTypeOK
  <2> QED
    BY <1>1, <1>4, <2>2 DEF EditConnection, QueueTypeOK, watchVars
<1> QED
  BY <1>2, <1>3, <1>4 DEF TypeOK

\* Events that reach a cache and that are handled, and timers.
LEMMA WatchType ==
  ASSUME TypeOK,
         \/ \E t \in Users : ReferenceSeen(t) \/ HandleResourceEvent(t) \/ TimerFires(t)
         \/ \E ns \in Namespaces, name \in ConnectionNames :
              ConnectionSeen(ns, name) \/ HandleConnectionEvent(ns, name)
  PROVE  TypeOK'
<1>1. QueueTypeOK
  BY DEF TypeOK
<1>2. PoolTypeOK'
  BY UnchangedType
     DEF ReferenceSeen, HandleResourceEvent, TimerFires, ConnectionSeen,
         HandleConnectionEvent, TypeOK
<1>3. ASSUME NEW t \in Users, ReferenceSeen(t) \/ HandleResourceEvent(t) \/ TimerFires(t)
      PROVE  QueueTypeOK'
  BY <1>1, <1>3 DEF ReferenceSeen, HandleResourceEvent, TimerFires, QueueTypeOK, watchVars
<1>4. ASSUME NEW ns \in Namespaces, NEW name \in ConnectionNames, ConnectionSeen(ns, name)
      PROVE  QueueTypeOK'
  <2>1. conns[ns][name] \in ConnectionSpecs
    BY <1>1 DEF QueueTypeOK
  <2>2. connCache' \in [Namespaces -> [ConnectionNames -> ConnectionSpecs]]
    BY <1>1, <1>4, <2>1 DEF ConnectionSeen, QueueTypeOK
  <2>3. connEvents' \subseteq Namespaces \X ConnectionNames
    BY <1>1, <1>4 DEF ConnectionSeen, QueueTypeOK
  <2> QED
    BY <1>1, <1>4, <2>2, <2>3 DEF ConnectionSeen, QueueTypeOK
<1>5. ASSUME NEW ns \in Namespaces, NEW name \in ConnectionNames,
             HandleConnectionEvent(ns, name)
      PROVE  QueueTypeOK'
  BY <1>1, <1>5 DEF HandleConnectionEvent, findTWDsUsingConnection, QueueTypeOK
<1> QED
  BY <1>2, <1>3, <1>4, <1>5 DEF TypeOK

\* Everything has its type, and the locals of a Reconcile exist exactly where
\* it uses them, in every reachable state and for any number of resources.
THEOREM PoolTypeCorrect == Spec => []TypeOK
<1>1. TypeOK /\ [Next]_vars => TypeOK'
  <2> SUFFICES ASSUME TypeOK, [Next]_vars PROVE TypeOK'
    OBVIOUS
  <2> USE DEF TypeOK
  <2>1. ASSUME NEW t \in Users, PoolStep(t)
        PROVE  TypeOK'
    BY <2>1, GetType, UpsertType, PutBeginsType, PutEndsType, UnchangedType DEF PoolStep
  <2>2. ASSUME NEW t \in Users, WriteLost(t)
        PROVE  TypeOK'
    <3>1. QueueTypeOK'
      BY <2>2 DEF WriteLost, QueueTypeOK, watchVars
    <3> QED
      BY <2>2, <3>1, PutEndsType DEF WriteLost
  <2>3. ASSUME NEW t \in Users, Return(t)
        PROVE  TypeOK'
    <3>1. QueueTypeOK'
      BY <2>3 DEF Return, QueueTypeOK, watchVars
    <3> QED
      BY <2>3, <3>1, LeavesType DEF Return, UpsertRefused, DialFails
  <2>4. ASSUME NEW ns \in Namespaces, NEW s \in SecretNames, ChangeSecret(ns, s)
        PROVE  TypeOK'
    <3>1. QueueTypeOK'
      BY <2>4 DEF ChangeSecret, QueueTypeOK, watchVars
    <3> QED
      BY <2>4, <3>1, AroundType DEF ChangeSecret
  <2>5. CASE FatalMapRace
    <3>1. QueueTypeOK'
      BY <2>5 DEF FatalMapRace, QueueTypeOK
    <3> QED
      BY <2>5, <3>1, RestartType
  <2>6. CASE ClosePool
    <3>1. QueueTypeOK'
      BY <2>6 DEF ClosePool, QueueTypeOK, watchVars
    <3> QED
      BY <2>6, <3>1, AroundType DEF ClosePool
  <2>7. CASE Tick /\ UNCHANGED queueVars
    BY <2>7, AroundType, UnchangedType
  <2>8. CASE UNCHANGED vars
    BY <2>8, UnchangedType DEF vars
  <2> QED
    BY <2>1, <2>2, <2>3, <2>4, <2>5, <2>6, <2>7, <2>8, ReconcileType, EditType, WatchType DEF Next
<1> QED
  BY <1>1, InitType, PTL DEF Spec

----------------------------------------------------------------------------
(* The lock *)

\* The RWMutex knows who is at the map: every reader, and a writer that takes
\* it, who is then alone.
LockInv ==
  /\ \A t \in Users : pc[t] = "reading" <=> t \in lock.readers
  /\ \A t \in Users : lock.writer = t <=> pc[t] = "writing" /\ LocksTheMap(req[t])
  /\ lock.writer # Nil => lock.readers = {}

\* A step that neither enters nor leaves the map and does not touch the lock.
LEMMA LockOthers ==
  ASSUME TypeOK, LockInv, lock' = lock,
         \A u \in Users :
           /\ pc'[u] \in {"reading", "writing"} \/ pc[u] \in {"reading", "writing"}
                => pc'[u] = pc[u] /\ req'[u] = req[u]
  PROVE  LockInv'
BY DEF LockInv, LocksTheMap

\* Every access takes and releases the lock as its mode asks for.
LEMMA LockAccess ==
  ASSUME TypeOK, LockInv, NEW t \in Users,
         \/ \E r \in Request : GetBegins(t, r)
         \/ GetEnds(t) \/ PutBegins(t) \/ PutEnds(t) \/ PutLost(t)
  PROVE  LockInv'
<1>0. /\ pc \in [Users -> Locations] /\ req \in [Users -> Request \cup {Nil}]
      /\ lock \in [readers : SUBSET Users, writer : Users \cup {Nil}]
      /\ t # Nil
  BY PoolNilAssumption DEF TypeOK, PoolTypeOK
<1>1. ASSUME NEW r \in Request, GetBegins(t, r)
      PROVE  LockInv'
  BY <1>0, <1>1 DEF GetBegins, Goes, LockInv, LocksTheMap
<1>2. CASE GetEnds(t)
  <2>1. /\ pc[t] = "reading" /\ pc'[t] \notin {"reading", "writing"}
        /\ \A u \in Users \ {t} : pc'[u] = pc[u]
    BY <1>0, <1>2 DEF GetEnds, Goes
  <2>2. lock' = [lock EXCEPT !.readers = @ \ {t}] /\ req' = req
    BY <1>2 DEF GetEnds
  <2> QED
    BY <1>0, <2>1, <2>2 DEF LockInv, LocksTheMap
<1>3. CASE PutBegins(t)
  <2>1. /\ pc[t] = "dial" /\ pc'[t] = "writing" /\ req' = req
        /\ \A u \in Users \ {t} : pc'[u] = pc[u]
    BY <1>0, <1>3 DEF PutBegins, Goes
  <2>2. CASE LocksTheMap(req[t])
    <3>1. lock = Unlocked /\ lock' = [lock EXCEPT !.writer = t]
      BY <1>3, <2>2 DEF PutBegins
    <3>2. \A u \in Users : ~(pc[u] = "writing" /\ LocksTheMap(req[u])) /\ pc[u] # "reading"
      BY <3>1, PoolNilAssumption DEF LockInv, Unlocked
    <3> QED
      BY <1>0, <2>1, <2>2, <3>1, <3>2 DEF LockInv, LocksTheMap, Unlocked
  <2>3. CASE ~LocksTheMap(req[t])
    <3>1. lock' = lock
      BY <1>3, <2>3 DEF PutBegins
    <3> QED
      BY <1>0, <2>1, <2>3, <3>1 DEF LockInv, LocksTheMap
  <2> QED
    BY <2>2, <2>3
<1>4. CASE PutEnds(t) \/ PutLost(t)
  <2>0. Unlock(t)
    BY <1>4 DEF PutEnds, PutLost
  <2>1. /\ pc[t] = "writing" /\ pc'[t] = "use" /\ req' = req
        /\ \A u \in Users \ {t} : pc'[u] = pc[u]
    BY <1>0, <2>0 DEF Unlock, Goes
  <2>2. CASE lock.writer = t
    <3>1. lock' = Unlocked /\ lock.readers = {}
      BY <1>0, <2>0, <2>2 DEF Unlock, LockInv
    <3> QED
      BY <1>0, <2>1, <2>2, <3>1, PoolNilAssumption DEF LockInv, LocksTheMap, Unlocked
  <2>3. CASE lock.writer # t
    <3>1. lock' = lock
      BY <2>0, <2>3 DEF Unlock
    <3> QED
      BY <1>0, <2>1, <2>3, <3>1 DEF LockInv, LocksTheMap
  <2> QED
    BY <2>2, <2>3
<1> QED
  BY <1>1, <1>2, <1>3, <1>4

\* LockInv is an invariant.
LEMMA LockInvariant == Spec => []LockInv
<1>1. Init => LockInv
  BY PoolNilAssumption DEF Init, PoolInit, LockInv, Unlocked
<1>2. TypeOK /\ LockInv /\ [Next]_vars => LockInv'
  <2> SUFFICES ASSUME TypeOK, LockInv, [Next]_vars PROVE LockInv'
    OBVIOUS
  <2>0. pc \in [Users -> Locations] /\ req \in [Users -> Request \cup {Nil}]
    BY DEF TypeOK, PoolTypeOK
  <2>1. ASSUME NEW t \in Users, Reconcile(t)
        PROVE  LockInv'
    BY <2>1, ResolvedType, LockAccess DEF Reconcile
  <2>2. ASSUME NEW t \in Users, UpsertClient(t)
        PROVE  LockInv'
    BY <2>0, <2>2, LockOthers DEF UpsertClient, Goes
  <2>3. ASSUME NEW t \in Users, Return(t)
        PROVE  LockInv'
    <3>1. Leaves(t) /\ pc[t] \in {"use", "upsert", "dial"}
      BY <2>3 DEF Return, UpsertRefused, DialFails
    <3> QED
      BY <2>0, <3>1, LockOthers DEF Leaves
  <2>4. CASE FatalMapRace
    BY <2>4, PoolNilAssumption DEF FatalMapRace, LockInv, Unlocked
  <2>5. CASE UNCHANGED <<pc, req, lock>>
    BY <2>5, LockOthers
  <2> QED
    BY <2>1, <2>2, <2>3, <2>4, <2>5, LockAccess
       DEF Next, PoolStep, WriteLost, EditReference, EditConnection, ReferenceSeen, ConnectionSeen,
           HandleResourceEvent, HandleConnectionEvent, TimerFires,
           ClosePool, ChangeSecret, RotateSecret, Close, Tick, poolVars, vars
<1> QED
  BY <1>1, <1>2, PoolTypeCorrect, PTL DEF Spec

\* Two accesses to the map race only where a client without credentials is
\* stored, however many Reconciles there are.
THEOREM LockedStoresDoNotRace == Spec => []OnlyUnlockedStoresRace
<1>1. TypeOK /\ LockInv => OnlyUnlockedStoresRace
  <2> SUFFICES ASSUME TypeOK, LockInv, NEW t \in Users, NEW u \in Users,
                      t # u, Writes(t), Reads(u) \/ Writes(u),
                      LocksTheMap(req[t]), Writes(u) => LocksTheMap(req[u])
               PROVE  FALSE
    BY DEF OnlyUnlockedStoresRace, LocksTheMap
  <2>1. lock.writer = t /\ t # Nil
    BY PoolNilAssumption DEF LockInv, Writes
  <2>2. CASE Reads(u)
    BY <2>1, <2>2 DEF LockInv, Reads
  <2>3. CASE Writes(u)
    BY <2>1, <2>3 DEF LockInv, Writes
  <2> QED
    BY <2>2, <2>3
<1> QED
  BY <1>1, PoolTypeCorrect, LockInvariant, PTL

----------------------------------------------------------------------------
(* Credentials *)

\* c was made from this Secret of the namespace ns.
Fits(c, ns, name, mode) ==
  /\ c.secret = name /\ c.mode = mode
  /\ c.ns = (IF mode = "NO_CREDENTIALS" THEN Nil ELSE ns)

\* Why OwnCredentials holds: a request carries the namespaces of its resource,
\* a client the Secret of its request, and the map, under each key, a client
\* that fits whoever may ask for that key.
CredentialsInv ==
  /\ \A t \in Users : req[t] # Nil =>
       req[t].ns = NamespaceOf[t] /\ req[t].tns = TemporalNamespaceOf[t]
  /\ \A t \in Users : got[t] # Nil =>
       Fits(got[t], NamespaceOf[t], req[t].secret, req[t].mode)
  /\ \A k \in ClientPoolKeys, t \in Users :
       clients[k] # Nil /\ TemporalNamespaceOf[t] = k.tns =>
         Fits(clients[k], NamespaceOf[t], k.secret, k.mode)

\* A step that changes no request and, of the clients, what fits.
LEMMA CredentialsOthers ==
  ASSUME CredentialsInv, req' = req,
         \A t \in Users : got'[t] # Nil => \E c \in {got[t]} :
           c # Nil /\ got'[t].ns = c.ns /\ got'[t].secret = c.secret /\ got'[t].mode = c.mode,
         \A k \in ClientPoolKeys : clients'[k] # Nil => \E c \in {clients[k]} :
           c # Nil /\ clients'[k].ns = c.ns /\ clients'[k].secret = c.secret
             /\ clients'[k].mode = c.mode
  PROVE  CredentialsInv'
<1>1. \A t \in Users : got'[t] # Nil =>
        Fits(got'[t], NamespaceOf[t], req'[t].secret, req'[t].mode)
  BY DEF CredentialsInv, Fits
<1>2. \A k \in ClientPoolKeys, t \in Users :
        clients'[k] # Nil /\ TemporalNamespaceOf[t] = k.tns =>
          Fits(clients'[k], NamespaceOf[t], k.secret, k.mode)
  BY DEF CredentialsInv, Fits
<1> QED
  BY <1>1, <1>2 DEF CredentialsInv

\* GetSDKClient: the client under the key of a request fits the request.
LEMMA CredentialsGet ==
  ASSUME TypeOK, CredentialsInv, NEW t \in Users, GetEnds(t)
  PROVE  CredentialsInv'
<1> DEFINE info == GetSDKClient(ClientPoolKey(req[t]))
<1>1. pc[t] = "reading" /\ req[t] \in Request
  BY DEF GetEnds, TypeOK, PoolTypeOK
<1>2. /\ got \in [Users -> ClientInfo \cup {Nil}] /\ got' = [got EXCEPT ![t] = info]
      /\ UNCHANGED <<req, clients>>
  BY DEF GetEnds, TypeOK, PoolTypeOK
<1>3. info # Nil => info = clients[ClientPoolKey(req[t])]
  BY DEF GetSDKClient
<1> HIDE DEF info
<1>4. info # Nil => Fits(info, NamespaceOf[t], req[t].secret, req[t].mode)
  BY <1>1, <1>3, KeyType, PoolNilAssumption DEF CredentialsInv
<1>5. \A u \in Users : got'[u] # Nil =>
        Fits(got'[u], NamespaceOf[u], req'[u].secret, req'[u].mode)
  BY <1>2, <1>4 DEF CredentialsInv
<1> QED
  BY <1>2, <1>5 DEF CredentialsInv

\* UpsertClient: a new client fits its request.
LEMMA CredentialsUpsert ==
  ASSUME TypeOK, CredentialsInv, NEW t \in Users, UpsertClient(t)
  PROVE  CredentialsInv'
<1>1. pc[t] = "upsert" /\ req[t] \in Request /\ req[t] # Nil
  BY PoolNilAssumption DEF UpsertClient, Goes, TypeOK, PoolTypeOK
<1>2. /\ got \in [Users -> ClientInfo \cup {Nil}]
      /\ got' = [got EXCEPT ![t] = NewClient(req[t])]
      /\ UNCHANGED <<req, clients>> /\ SecretAccepted(req[t])
  BY DEF UpsertClient, TypeOK, PoolTypeOK
<1>3. Fits(NewClient(req[t]), NamespaceOf[t], req[t].secret, req[t].mode)
  <2>1. req[t].ns = NamespaceOf[t]
    BY <1>1 DEF CredentialsInv
  <2> QED
    BY <1>1, <1>2, <2>1, NewClientType DEF Fits, TypeOK, PoolTypeOK
<1>4. \A u \in Users : got'[u] # Nil =>
        Fits(got'[u], NamespaceOf[u], req'[u].secret, req'[u].mode)
  BY <1>2, <1>3 DEF CredentialsInv
<1> QED
  BY <1>2, <1>4 DEF CredentialsInv

\* The store: a key names its Temporal namespace, and with it, where namespaces
\* are apart, the namespace of everybody who may ask for the client.
LEMMA CredentialsPut ==
  ASSUME TypeOK, NamespacesApart, CredentialsInv, NEW t \in Users, PutEnds(t)
  PROVE  CredentialsInv'
<1> DEFINE key == ClientPoolKey(req[t])
<1>1. pc[t] = "writing" /\ req[t] \in Request /\ req[t] # Nil /\ got[t] # Nil
  BY PoolNilAssumption DEF PutEnds, Unlock, Goes, TypeOK, PoolTypeOK
<1>2. /\ clients \in [ClientPoolKeys -> ClientInfo \cup {Nil}]
      /\ UNCHANGED <<req, got>>
  BY DEF PutEnds, Unlock, TypeOK, PoolTypeOK
<1>3. /\ key \in ClientPoolKeys /\ key.secret = req[t].secret /\ key.mode = req[t].mode
      /\ key.tns = TemporalNamespaceOf[t]
  BY <1>1, KeyType DEF CredentialsInv
<1>4. clients' = [clients EXCEPT ![key] = got[t]]
  BY <1>1, KeyType DEF PutEnds
<1> HIDE DEF key
<1>5. ASSUME NEW k \in ClientPoolKeys, NEW u \in Users,
             clients'[k] # Nil, TemporalNamespaceOf[u] = k.tns
      PROVE  Fits(clients'[k], NamespaceOf[u], k.secret, k.mode)
  <2>1. CASE k = key
    <3>1. NamespaceOf[u] = NamespaceOf[t]
      BY <1>3, <1>5, <2>1 DEF NamespacesApart
    <3> QED
      BY <1>1, <1>2, <1>3, <1>4, <2>1, <3>1 DEF CredentialsInv
  <2>2. CASE k # key
    BY <1>2, <1>4, <1>5, <2>2 DEF CredentialsInv
  <2> QED
    BY <2>1, <2>2
<1> QED
  BY <1>2, <1>5 DEF CredentialsInv

\* Reconcile begins and returns.
LEMMA CredentialsRequest ==
  ASSUME TypeOK, CredentialsInv, NEW t \in Users, Reconcile(t) \/ Leaves(t)
  PROVE  CredentialsInv'
<1>0. /\ req \in [Users -> Request \cup {Nil}] /\ got \in [Users -> ClientInfo \cup {Nil}]
      /\ pc[t] = "idle" => got[t] = Nil
  BY DEF TypeOK, PoolTypeOK
<1>1. CASE Reconcile(t)
  <2> DEFINE auth == resolveAuthSecretName(ConnectionCached(t))
             r == [ns |-> NamespaceOf[t], host |-> ConnectionCached(t).host,
                   tns |-> TemporalNamespaceOf[t], secret |-> auth.secret, mode |-> auth.mode]
  <2>1. GetBegins(t, r)
    BY <1>1 DEF Reconcile
  <2>2. r.ns = NamespaceOf[t] /\ r.tns = TemporalNamespaceOf[t]
    OBVIOUS
  <2> HIDE DEF r
  <2>3. /\ req' = [req EXCEPT ![t] = r] /\ UNCHANGED <<got, clients>> /\ got[t] = Nil
    BY <1>0, <2>1 DEF GetBegins, Goes
  <2> QED
    BY <1>0, <2>2, <2>3 DEF CredentialsInv
<1>2. CASE Leaves(t)
  <2>1. /\ req' = [req EXCEPT ![t] = Nil] /\ got' = [got EXCEPT ![t] = Nil]
        /\ clients' = clients
    BY <1>2 DEF Leaves
  <2> QED
    BY <1>0, <2>1 DEF CredentialsInv
<1> QED
  BY <1>1, <1>2

\* Close, time, Secrets and a restart make no client fit less.
LEMMA CredentialsAround ==
  ASSUME TypeOK, CredentialsInv,
         \/ Close \/ Tick \/ FatalMapRace
         \/ \E ns \in Namespaces, s \in SecretNames : RotateSecret(ns, s)
  PROVE  CredentialsInv'
<1>0. /\ got \in [Users -> ClientInfo \cup {Nil}]
      /\ clients \in [ClientPoolKeys -> ClientInfo \cup {Nil}]
  BY DEF TypeOK, PoolTypeOK
<1>1. CASE Close
  <2>1. UNCHANGED <<req, got>> /\ \A k \in ClientPoolKeys : clients'[k] = Nil
    BY <1>1 DEF Close, NoClients
  <2> QED
    BY <2>1 DEF CredentialsInv
<1>2. CASE Tick
  <2>1. req' = req
    BY <1>2 DEF Tick
  <2>2. \A t \in Users : got'[t] \in {got[t], Aged(got[t])}
    BY <1>2 DEF Tick
  <2>3. \A k \in ClientPoolKeys : clients'[k] = Aged(clients[k])
    BY <1>2 DEF Tick
  <2> QED
    BY <1>0, <2>1, <2>2, <2>3, AgedType, CredentialsOthers
<1>3. CASE FatalMapRace
  <2>1. /\ \A k \in ClientPoolKeys : clients'[k] = Nil
        /\ \A t \in Users : req'[t] = Nil /\ got'[t] = Nil
    BY <1>3 DEF FatalMapRace, NoClients
  <2> QED
    BY <2>1 DEF CredentialsInv
<1>4. ASSUME NEW ns \in Namespaces, NEW s \in SecretNames, RotateSecret(ns, s)
      PROVE  CredentialsInv'
  <2>1. req' = req
    BY <1>4 DEF RotateSecret
  <2>2. \A t \in Users : got'[t] \in {got[t], Outdated(got[t], ns, s)}
    BY <1>4 DEF RotateSecret
  <2>3. \A k \in ClientPoolKeys : clients'[k] = Outdated(clients[k], ns, s)
    BY <1>4 DEF RotateSecret
  <2> QED
    BY <1>0, <2>1, <2>2, <2>3, OutdatedType, CredentialsOthers
<1> QED
  BY <1>1, <1>2, <1>3, <1>4

\* The client a Reconcile goes on with was made from the Secret its own
\* connection named, in every interleaving of Reconciles, edits, renewals,
\* expiries and restarts, provided that no two Kubernetes namespaces share a
\* Temporal namespace.
THEOREM CredentialsAreOwn == Spec => []OwnCredentials
<1> DEFINE J == NamespacesApart => CredentialsInv
<1>1. Init => J
  BY DEF Init, PoolInit, CredentialsInv, NoClients
<1>2. TypeOK /\ J /\ [Next]_vars => J'
  <2> SUFFICES ASSUME TypeOK, NamespacesApart, CredentialsInv, [Next]_vars
               PROVE  CredentialsInv'
    BY DEF NamespacesApart
  <2>1. ASSUME NEW t \in Users, Return(t)
        PROVE  CredentialsInv'
    BY <2>1, CredentialsRequest DEF Return, UpsertRefused, DialFails
  <2>2. CASE UNCHANGED <<req, got, clients>>
    BY <2>2 DEF CredentialsInv
  <2> QED
    BY <2>1, <2>2, CredentialsGet, CredentialsUpsert, CredentialsPut, CredentialsRequest,
       CredentialsAround
       DEF Next, PoolStep, PutBegins, WriteLost, PutLost, Unlock, EditReference,
           EditConnection, ReferenceSeen, ConnectionSeen, HandleResourceEvent,
           HandleConnectionEvent, TimerFires, ClosePool, ChangeSecret, poolVars, vars
<1>3. TypeOK /\ J => OwnCredentials
  BY DEF OwnCredentials, TypeOK, PoolTypeOK, CredentialsInv, Fits
<1> HIDE DEF J
<1> QED
  BY <1>1, <1>2, <1>3, PoolTypeCorrect, PTL DEF Spec

----------------------------------------------------------------------------
(* Watches *)

\* Why ConnectionChangeQueued holds: as the caches have it, a resource whose
\* connection is not the one it was last reconciled with is queued, or there is
\* an event of its own or of the connection that the cache says it refers to,
\* for which it will be found.
WatchInv ==
  \A t \in Users :
    used[t] # ConnectionCached(t) =>
      t \in queue \/ t \in twdEvents \/ <<NamespaceOf[t], refCache[t]>> \in connEvents

\* The steps of the caches and of the handlers of their events.
LEMMA WatchKept ==
  ASSUME TypeOK, WatchInv,
         \/ \E t \in Users : ReferenceSeen(t) \/ HandleResourceEvent(t)
         \/ \E ns \in Namespaces, name \in ConnectionNames :
              ConnectionSeen(ns, name) \/ HandleConnectionEvent(ns, name)
  PROVE  WatchInv'
<1> SUFFICES ASSUME NEW u \in Users, used'[u] # ConnectionCached(u)'
             PROVE  \/ u \in queue' \/ u \in twdEvents'
                    \/ <<NamespaceOf[u], refCache'[u]>> \in connEvents'
  BY DEF WatchInv
<1>0. /\ refCache \in [Users -> ConnectionNames] /\ NamespaceOf[u] \in Namespaces
      /\ connCache \in [Namespaces -> [ConnectionNames -> ConnectionSpecs]]
      /\ used[u] # ConnectionCached(u) =>
           u \in queue \/ u \in twdEvents \/ <<NamespaceOf[u], refCache[u]>> \in connEvents
  BY ConnectionAssumption DEF TypeOK, QueueTypeOK, WatchInv
<1>1. ASSUME NEW t \in Users, ReferenceSeen(t)
      PROVE  \/ u \in queue' \/ u \in twdEvents'
             \/ <<NamespaceOf[u], refCache'[u]>> \in connEvents'
  <2>1. CASE u = t
    BY <1>1, <2>1 DEF ReferenceSeen
  <2>2. CASE u # t
    BY <1>0, <1>1, <2>2 DEF ReferenceSeen, ConnectionCached
  <2> QED
    BY <2>1, <2>2
<1>2. ASSUME NEW t \in Users, HandleResourceEvent(t)
      PROVE  \/ u \in queue' \/ u \in twdEvents'
             \/ <<NamespaceOf[u], refCache'[u]>> \in connEvents'
  BY <1>0, <1>2 DEF HandleResourceEvent, ConnectionCached
<1>3. ASSUME NEW ns \in Namespaces, NEW name \in ConnectionNames, ConnectionSeen(ns, name)
      PROVE  \/ u \in queue' \/ u \in twdEvents'
             \/ <<NamespaceOf[u], refCache'[u]>> \in connEvents'
  <2>1. CASE NamespaceOf[u] = ns /\ refCache[u] = name
    BY <1>3, <2>1 DEF ConnectionSeen
  <2>2. CASE ~(NamespaceOf[u] = ns /\ refCache[u] = name)
    <3>1. ConnectionCached(u)' = ConnectionCached(u)
      BY <1>0, <1>3, <2>2 DEF ConnectionSeen, ConnectionCached
    <3> QED
      BY <1>0, <1>3, <3>1 DEF ConnectionSeen
  <2> QED
    BY <2>1, <2>2
<1>4. ASSUME NEW ns \in Namespaces, NEW name \in ConnectionNames,
             HandleConnectionEvent(ns, name)
      PROVE  \/ u \in queue' \/ u \in twdEvents'
             \/ <<NamespaceOf[u], refCache'[u]>> \in connEvents'
  <2>1. ConnectionCached(u)' = ConnectionCached(u) /\ used' = used
    BY <1>4 DEF HandleConnectionEvent, ConnectionCached
  <2>2. CASE <<NamespaceOf[u], refCache[u]>> = <<ns, name>>
    BY <1>4, <2>2 DEF HandleConnectionEvent, findTWDsUsingConnection
  <2>3. CASE <<NamespaceOf[u], refCache[u]>> # <<ns, name>>
    BY <1>0, <1>4, <2>1, <2>3 DEF HandleConnectionEvent
  <2> QED
    BY <2>2, <2>3
<1> QED
  BY <1>1, <1>2, <1>3, <1>4

\* A change of what a resource connects to is never left to the timer: however
\* late the events come, in whatever order the two caches see them and whatever
\* the Reconcile of the resource is doing meanwhile, the resource is queued
\* when they are handled.
THEOREM ChangesAreQueued == Spec => []ConnectionChangeQueued
<1>1. Init => WatchInv
  BY DEF Init, WatchInv
<1>2. TypeOK /\ WatchInv /\ [Next]_vars => WatchInv'
  <2> SUFFICES ASSUME TypeOK, WatchInv, [Next]_vars PROVE WatchInv'
    OBVIOUS
  <2>1. ASSUME NEW t \in Users, Reconcile(t)
        PROVE  WatchInv'
    <3>1. /\ used' = [used EXCEPT ![t] = ConnectionCached(t)]
          /\ queue' = queue \ {t} /\ UNCHANGED watchVars
      BY <2>1 DEF Reconcile
    <3>2. used \in [Users -> ConnectionSpecs \cup {Nil}]
      BY DEF TypeOK, QueueTypeOK
    <3> QED
      BY <3>1, <3>2 DEF WatchInv, watchVars, ConnectionCached
  <2>2. CASE FatalMapRace
    BY <2>2 DEF FatalMapRace, WatchInv
  <2>3. ASSUME UNCHANGED <<watchVars, used>>, queue \subseteq queue'
        PROVE  WatchInv'
    BY <2>3 DEF WatchInv, watchVars, ConnectionCached
  <2>4. ASSUME NEW t \in Users, TimerFires(t)
        PROVE  WatchInv'
    BY <2>3, <2>4 DEF TimerFires
  <2>5. CASE UNCHANGED <<watchVars, used, queue>>
    BY <2>3, <2>5
  <2> QED
    BY <2>1, <2>2, <2>4, <2>5, WatchKept
       DEF Next, PoolStep, WriteLost, Return, EditReference, EditConnection, ChangeSecret,
           ClosePool, queueVars, vars
<1>3. WatchInv => ConnectionChangeQueued
  BY DEF WatchInv, ConnectionChangeQueued, EventUnderWay, ConnectionCached, ConnectionOf
<1> QED
  BY <1>1, <1>2, <1>3, PoolTypeCorrect, PTL DEF Spec
=============================================================================
