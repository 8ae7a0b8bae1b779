CONSTANTS
  w1 = w1
  w2 = w2
  t1 = t1
  t2 = t2
  t3 = t3
  Workers = {w1, w2}
  Txns = {t1, t2, t3}
  Conditional = {t2}
  EventsOf <- MCEventsOf
  BackupLimit = 2
  AuditLimit = 2
  SharedLocks = FALSE
  InitialFiles <- CurrentFiles
  MaxIncidents <- OneOfEach
  Missing = Missing
  Corrupt = Corrupt
  Garbled = Garbled
  None = None
  NoTxn = NoTxn
  Past = Past
SPECIFICATION Spec
SYMMETRY Symmetry
INVARIANTS
  WritersAlone
  
  
  AuditWindow

  
