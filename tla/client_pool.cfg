SPECIFICATION BothSeenWithC1
CONSTANTS
  t1 = t1
  t2 = t2
  t3 = t3
  Users = {t1, t2}
  Nil = Nil
  Namespaces = {"n1"}
  Hosts = {"h1"}
  TemporalNamespaces = {"a"}
  SecretNames = {"s1", "s2"}
  ConnectionNames = {"c1", "c2"}
  ConnectionSpecs <- AllModes
  InitialConnections <- SameConnections
  InitialSecrets <- TwoSecrets
  NamespaceOf <- PlacesOfUsers
  TemporalNamespaceOf <- TemporalPlaces
  Env = {"close"}
  Life = 2
  Buffer = 2
  DialTime = 1
  MaxConcurrentReconciles = 2
  MaxChanges = 1
INVARIANTS TypeOK OnlyUnlockedStoresRace OwnCredentials ClientsPerKeyBounded ConnectionChangeQueued
PROPERTIES CertificateValid RenewedCertificateUsed
