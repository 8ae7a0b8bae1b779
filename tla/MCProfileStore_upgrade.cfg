CONSTANTS
  w1 = w1
  w2 = w2
  t1 = t1
  t2 = t2
  t3 = t3
  Workers = {w1, w2}
  Txns = {t1}
  Conditional = {t1}
  EventsOf <- MCEventsOf
  BackupLimit = 1
  AuditLimit = 2
  SharedLocks = TRUE
  InitialFiles <- OldFiles
  MaxIncidents <- CrashAndFault
  Missing = Missing
  Corrupt = Corrupt
  Garbled = Garbled
  None = None
  NoTxn = NoTxn
  Past = Past
SPECIFICATION FairSpec
INVARIANTS
  TypeOK
  BackupsBounded
PROPERTIES
  ImplementsRegister
  RequestsEnd
