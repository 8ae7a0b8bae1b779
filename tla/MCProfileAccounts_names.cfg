SPECIFICATION Spec
CONSTANTS
  ada = ada
  bob = bob
  eve = eve
  n1 = n1
  n2 = n2
  n3 = n3
  f1 = f1
  f2 = f2
  c1 = c1
  c2 = c2
  UserIds = {ada, bob, eve}
  Names = {n1, n2, n3}
  Factories = {f1, f2}
  Clients = {c1}
  InitialUsers <- AdminAndMember
  InitialSessions <- AdaLoggedIn
  InitialFactories <- OneInactive
  MaxRevision = 5
  MaxRecoveries = 1
  Keep = Keep
  None = None
INVARIANTS
  AuditReconstructs
PROPERTIES
  LoginsStayDistinct
