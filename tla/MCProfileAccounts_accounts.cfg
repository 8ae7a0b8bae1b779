SPECIFICATION Spec
CONSTANTS
  ada = ada
  bob = bob
  eve = eve
  n1 = n1
  n2 = n2
  n3 = n3
  f1 = f1
  f2 = f2
  c1 = c1
  c2 = c2
  UserIds = {ada, bob}
  Names = {n1, n2}
  Factories = {f1}
  Clients = {c1, c2}
  InitialUsers <- TwoAdmins
  InitialSessions <- BothLoggedIn
  InitialFactories <- OneUnknown
  MaxRevision = 4
  MaxRecoveries = 0
  Keep = Keep
  None = None
INVARIANTS
  AdminRemains
PROPERTIES
  ActorsAreAdmins
  NoStaleEdit
