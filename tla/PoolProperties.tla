--------------------------- MODULE PoolProperties ---------------------------
(***************************************************************************)
(* What makes the sharing of Temporal clients, and the watches that lead to *)
(* a Reconcile, correct: properties of ReconcileQueue.                      *)
(***************************************************************************)
EXTENDS ReconcileQueue

\* The type invariant.
TypeOK == PoolTypeOK /\ QueueTypeOK

----------------------------------------------------------------------------
(* The lock *)

Reads(t)  == pc[t] = "reading"
Writes(t) == pc[t] = "writing"

\* clientpool.go, mux: two accesses to the map of which one is a write overlap
\* only where one of them is the store of a client without credentials, which
\* does not take the lock.
OnlyUnlockedStoresRace ==
  \A t, u \in Users :
    t # u /\ Writes(t) /\ (Reads(u) \/ Writes(u)) =>
      "NO_CREDENTIALS" \in {req[t].mode} \cup (IF Writes(u) THEN {req[u].mode} ELSE {})

----------------------------------------------------------------------------
(* Clients *)

\* Reconcile goes on with a client, from the pool or a new one.
IsGiven(t) == pc[t] # "use" /\ pc'[t] = "use"

\* GetSDKClient, fetchClientUsingMTLSSecret: the certificate of a client has
\* not expired when Reconcile gets it, however long ago the client was made
\* and however long the dialling took.
CertificateValid ==
  [][\A t \in Users :
       IsGiven(t) /\ req[t].mode = "TLS" => got'[t].valid >= 0]_vars

\* Two namespaces of Kubernetes that share a Temporal namespace and the name of
\* a Secret share a key of the pool, which does not name the namespace.
NamespacesApart ==
  \A t, u \in Users :
    NamespaceOf[t] # NamespaceOf[u] => TemporalNamespaceOf[t] # TemporalNamespaceOf[u]

\* ClientPoolKey: "Include secret name in key to invalidate cache when the
\* secret name changes", and the same for the auth mode.  The client that
\* Reconcile uses was made from the Secret that its own connection named when
\* it was read, through all edits of connections and references.
OwnCredentials ==
  NamespacesApart =>
    \A t \in Users :
      pc[t] = "use" =>
        /\ got[t].secret = req[t].secret
        /\ got[t].mode = req[t].mode
        /\ got[t].ns = (IF req[t].mode = "NO_CREDENTIALS" THEN Nil ELSE NamespaceOf[t])

\* A client that is overwritten is never closed.  While a key has a client that
\* can be used, only Reconciles that had looked before it was stored still
\* overwrite it: at most one client per concurrent Reconcile is made for it.
ClientsPerKeyBounded ==
  \A k \in ClientPoolKeys : stored[k] <= MaxConcurrentReconciles

\* A client made from a certificate that was renewed since is replaced in the
\* end, unless no connection leads to it any more (a client made from an API
\* key never is).
InUse(k) ==
  \E t \in Users :
    LET auth == resolveAuthSecretName(ConnectionOf(t)) IN
    k = [host |-> ConnectionOf(t).host, tns |-> TemporalNamespaceOf[t],
         secret |-> auth.secret, mode |-> auth.mode]

OutdatedClient(k) ==
  clients[k] # Nil /\ ~clients[k].fresh /\ clients[k].valid # Forever

RenewedCertificateUsed ==
  \A k \in {k \in ClientPoolKeys : k.mode = "TLS"} :
    []<>~(OutdatedClient(k) /\ InUse(k))

----------------------------------------------------------------------------
(* Watches *)

\* The caches or their handlers are behind on what t is connected to.
EventUnderWay(t) ==
  \/ refCache[t] # ref[t] \/ t \in twdEvents
  \/ connCache[NamespaceOf[t]][ref[t]] # conns[NamespaceOf[t]][ref[t]]
  \/ <<NamespaceOf[t], ref[t]>> \in connEvents

\* findTWDsUsingConnection: a change of a TemporalConnection, or of the
\* reference to one, is not left to the next timer, even if it comes in the
\* middle of a Reconcile, and even if the event of a connection is handled while
\* the list of resources still has their old references.  Once the events about
\* a resource and its connection are handled, it is queued, or was last
\* reconciled, or is being reconciled, with its connection as it is.
ConnectionChangeQueued ==
  \A t \in Users :
    used[t] # ConnectionOf(t) => t \in queue \/ EventUnderWay(t)
=============================================================================
