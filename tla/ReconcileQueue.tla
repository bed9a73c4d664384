--------------------------- MODULE ReconcileQueue ---------------------------
(***************************************************************************)
(* Which TemporalWorkerDeployment is reconciled when, and with which        *)
(* connection and client: the watches of SetupWithManager, the informers    *)
(* and the work queue of controller-runtime (external: a cache per kind     *)
(* that follows the API server, events that are handled some time after the *)
(* cache changed, and a queue that is a set, of which an object is          *)
(* reconciled by one worker at a time and queued again if it changed        *)
(* meanwhile), the TemporalConnections the resources refer to, and the      *)
(* first part of Reconcile, up to the client, composed with the ClientPool. *)
(***************************************************************************)
EXTENDS ClientPool

CONSTANTS
  ConnectionNames,
  ConnectionSpecs,          \* the specs users give a TemporalConnection
  InitialConnections,       \* the TemporalConnections there may be at first
  InitialSecrets,           \* the Secrets there may be at first
  NamespaceOf,              \* [Users -> Namespaces]
  TemporalNamespaceOf,      \* [Users -> TemporalNamespaces]
  MaxConcurrentReconciles,  \* 100 in SetupWithManager
  MaxChanges                \* edits of connections, of references to them and of
                            \* Secrets, failing calls of Dial, lost writes, Close

VARIABLES
  conns,      \* [Namespaces -> [ConnectionNames -> spec]]
  ref,        \* [Users -> TemporalConnectionRef.Name]
  connCache,  \* conns as the informer of TemporalConnections has it
  refCache,   \* ref as the informer of TemporalWorkerDeployments has it
  connEvents, \* connections that changed in the cache, not yet handled
  twdEvents,  \* resources that changed in the cache, not yet handled
  queue,      \* resources waiting for a worker
  timers,     \* resources whose RequeueAfter or backoff runs
  used,       \* [Users -> the connection its last Reconcile began with, or Nil]
              \* (history variable)
  changes     \* changes and failures left

watchVars == <<connCache, refCache, connEvents, twdEvents>>
queueVars == <<conns, ref, watchVars, queue, timers, used, changes>>
vars      == <<poolVars, queueVars>>

\* mtls and apiKey are the names in the two optional Secret references.
TemporalConnectionSpec ==
  [host : Hosts, mtls : SecretNames \cup {Nil}, apiKey : SecretNames \cup {Nil}]

ASSUME ConnectionAssumption ==
  /\ ConnectionSpecs \subseteq TemporalConnectionSpec
  /\ Nil \notin TemporalConnectionSpec
  /\ InitialConnections \subseteq [Namespaces -> [ConnectionNames -> ConnectionSpecs]]
  /\ InitialSecrets \subseteq [Namespaces -> [SecretNames -> Secret \cup {Nil}]]
  /\ NamespaceOf \in [Users -> Namespaces]
  /\ TemporalNamespaceOf \in [Users -> TemporalNamespaces]
  /\ MaxConcurrentReconciles \in Nat /\ MaxChanges \in Nat

QueueTypeOK ==
  /\ conns \in [Namespaces -> [ConnectionNames -> ConnectionSpecs]]
  /\ ref \in [Users -> ConnectionNames]
  /\ connCache \in [Namespaces -> [ConnectionNames -> ConnectionSpecs]]
  /\ refCache \in [Users -> ConnectionNames]
  /\ connEvents \subseteq Namespaces \X ConnectionNames /\ twdEvents \subseteq Users
  /\ queue \subseteq Users /\ timers \subseteq Users
  /\ used \in [Users -> ConnectionSpecs \cup {Nil}]
  /\ changes \in Nat

\* The caches have been filled and the first events handled; since then anything
\* may have been edited.
Init ==
  /\ PoolInit
  /\ secrets \in InitialSecrets
  /\ conns \in InitialConnections /\ connCache \in InitialConnections
  /\ ref \in [Users -> ConnectionNames] /\ refCache \in [Users -> ConnectionNames]
  /\ connEvents = {} /\ twdEvents = {}
  /\ queue = Users
  /\ timers = {}
  /\ used = [t \in Users |-> Nil]
  /\ changes = MaxChanges

\* The connection of a resource, and what a client of the manager reads of it.
ConnectionOf(t)     == conns[NamespaceOf[t]][ref[t]]
ConnectionCached(t) == connCache[NamespaceOf[t]][refCache[t]]

----------------------------------------------------------------------------
(* Reconcile *)

\* mTLS wins if both references are set.
resolveAuthSecretName(tc) ==
  IF tc.mtls # Nil THEN [mode |-> "TLS", secret |-> tc.mtls]
  ELSE IF tc.apiKey # Nil THEN [mode |-> "API_KEY", secret |-> tc.apiKey]
  ELSE [mode |-> "NO_CREDENTIALS", secret |-> Nil]

\* A worker takes t from the queue, gets it and its connection from the caches,
\* and asks the pool for a client.
Reconcile(t) ==
  LET tc   == ConnectionCached(t)
      auth == resolveAuthSecretName(tc)
  IN
  /\ t \in queue
  /\ Cardinality({u \in Users : pc[u] # "idle"}) < MaxConcurrentReconciles
  /\ GetBegins(t, [ns |-> NamespaceOf[t], host |-> tc.host, tns |-> TemporalNamespaceOf[t],
                   secret |-> auth.secret, mode |-> auth.mode])
  /\ queue' = queue \ {t}
  /\ used' = [used EXCEPT ![t] = tc]
  /\ UNCHANGED <<conns, ref, watchVars, timers, changes>>

PoolStep(t) ==
  /\ GetEnds(t) \/ UpsertClient(t) \/ PutBegins(t) \/ PutEnds(t)
  /\ UNCHANGED queueVars

WriteLost(t) ==
  /\ changes > 0
  /\ PutLost(t)
  /\ changes' = changes - 1
  /\ UNCHANGED <<conns, ref, watchVars, queue, timers, used>>

\* Reconcile returns: RequeueAfter after a success, a backoff after an error.
Return(t) ==
  /\ \/ pc[t] = "use" /\ Leaves(t) /\ UNCHANGED changes
     \/ UpsertRefused(t) /\ UNCHANGED changes
     \/ DialFails(t) /\ changes > 0 /\ changes' = changes - 1
  /\ timers' = timers \cup {t}
  /\ UNCHANGED <<conns, ref, watchVars, queue, used>>

\* "fatal error: concurrent map writes" (or read and write) ends the process.
\* After a restart the pool is empty, the caches are filled anew and every
\* resource is queued.
FatalMapRace ==
  /\ \E t \in Users : Racing(t)
  /\ clients' = NoClients
  /\ lock' = Unlocked
  /\ pc' = [t \in Users |-> "idle"]
  /\ req' = [t \in Users |-> Nil]
  /\ got' = [t \in Users |-> Nil]
  /\ waited' = [t \in Users |-> 0]
  /\ stored' = NoneStored
  /\ connCache' = conns /\ refCache' = ref
  /\ connEvents' = {} /\ twdEvents' = {}
  /\ queue' = Users
  /\ timers' = {}
  /\ UNCHANGED <<secrets, conns, ref, used, changes>>

----------------------------------------------------------------------------
(* Users *)

EditConnection(ns, name) ==
  /\ changes > 0
  /\ \E tc \in ConnectionSpecs \ {conns[ns][name]} : conns' = [conns EXCEPT ![ns][name] = tc]
  /\ changes' = changes - 1
  /\ UNCHANGED <<ref, watchVars, queue, timers, used, poolVars>>

EditReference(t) ==
  /\ changes > 0
  /\ \E name \in ConnectionNames \ {ref[t]} : ref' = [ref EXCEPT ![t] = name]
  /\ changes' = changes - 1
  /\ UNCHANGED <<conns, watchVars, queue, timers, used, poolVars>>

----------------------------------------------------------------------------
(* Watches *)

\* A watch event reaches the cache of its kind; the kinds do not wait for each
\* other.
ConnectionSeen(ns, name) ==
  /\ connCache[ns][name] # conns[ns][name]
  /\ connCache' = [connCache EXCEPT ![ns][name] = conns[ns][name]]
  /\ connEvents' = connEvents \cup {<<ns, name>>}
  /\ UNCHANGED <<conns, ref, refCache, twdEvents, queue, timers, used, changes, poolVars>>

ReferenceSeen(t) ==
  /\ refCache[t] # ref[t]
  /\ refCache' = [refCache EXCEPT ![t] = ref[t]]
  /\ twdEvents' = twdEvents \cup {t}
  /\ UNCHANGED <<conns, ref, connCache, connEvents, queue, timers, used, changes, poolVars>>

findTWDsUsingConnection_OwnName(ns, name) ==
  {t \in Users : NamespaceOf[t] = ns /\ t = name}

\* The resources in the namespace of the connection that refer to it, as the
\* cache lists them when the event is handled.
findTWDsUsingConnection(ns, name) ==
  {t \in Users : NamespaceOf[t] = ns /\ refCache[t] = name}

\* Watches(TemporalConnection) and For(TemporalWorkerDeployment): the event of
\* a connection queues the resources found, that of a resource the resource.
HandleConnectionEvent(ns, name) ==
  /\ <<ns, name>> \in connEvents
  /\ connEvents' = connEvents \ {<<ns, name>>}
  /\ queue' = queue \cup findTWDsUsingConnection(ns, name)
  /\ UNCHANGED <<conns, ref, connCache, refCache, twdEvents, timers, used, changes, poolVars>>

HandleResourceEvent(t) ==
  /\ t \in twdEvents
  /\ twdEvents' = twdEvents \ {t}
  /\ queue' = queue \cup {t}
  /\ UNCHANGED <<conns, ref, connCache, refCache, connEvents, timers, used, changes, poolVars>>

\* RequeueAfter or the backoff ends, or, earlier, an event of the resource or
\* of a Deployment it owns.
TimerFires(t) ==
  /\ t \in timers
  /\ timers' = timers \ {t}
  /\ queue' = queue \cup {t}
  /\ UNCHANGED <<conns, ref, watchVars, used, changes, poolVars>>

ChangeSecret(ns, s) ==
  /\ changes > 0
  /\ RotateSecret(ns, s)
  /\ changes' = changes - 1
  /\ UNCHANGED <<conns, ref, watchVars, queue, timers, used>>

ClosePool ==
  /\ changes > 0
  /\ Close
  /\ changes' = changes - 1
  /\ UNCHANGED <<conns, ref, watchVars, queue, timers, used>>

----------------------------------------------------------------------------
Next ==
  \/ \E t \in Users :
       \/ Reconcile(t) \/ PoolStep(t) \/ WriteLost(t) \/ Return(t)
       \/ EditReference(t) \/ ReferenceSeen(t) \/ HandleResourceEvent(t)
       \/ TimerFires(t)
  \/ \E ns \in Namespaces :
       \/ \E name \in ConnectionNames :
            \/ EditConnection(ns, name) \/ ConnectionSeen(ns, name)
            \/ HandleConnectionEvent(ns, name)
       \/ \E s \in SecretNames : ChangeSecret(ns, s)
  \/ FatalMapRace
  \/ ClosePool
  \/ Tick /\ UNCHANGED queueVars

Spec == Init /\ [][Next]_vars

\* The worker that has t goes on and a goroutine that waits for the RWMutex
\* gets it; the queue serves every resource in turn, timers fire, and watch
\* events arrive and are handled.
Progress(t) == Reconcile(t) \/ PoolStep(t) \/ Return(t) \/ TimerFires(t)

Fairness ==
  /\ \A t \in Users : /\ SF_vars(Progress(t))
                      /\ WF_vars(ReferenceSeen(t)) /\ WF_vars(HandleResourceEvent(t))
  /\ \A ns \in Namespaces, name \in ConnectionNames :
       WF_vars(ConnectionSeen(ns, name)) /\ WF_vars(HandleConnectionEvent(ns, name))
  /\ WF_vars(Tick /\ UNCHANGED queueVars)

FairSpec == Spec /\ Fairness
=============================================================================
