CONSTANTS
  w1 = w1
  w2 = w2
  w3 = w3
  pool1 = pool1
  pool2 = pool2
  item1 = item1
  item2 = item2
  Workers = {w1, w2, w3}
  Pools = {pool1, pool2}
  Items = {item1, item2}
  Costs = {0, 1}
  Legacy <- LegacyDocuments
  InitialDirectories <- AnyDirectory
  MaxRequests = 3
  Missing = Missing
  Empty = Empty
  Garbled = Garbled
  None = None
SPECIFICATION Spec
SYMMETRY Symmetry
CHECK_DEADLOCK FALSE
INVARIANTS
  EnsuredIsWhole
PROPERTIES
  ActivatedForGood
  LoneSavesAreExact
