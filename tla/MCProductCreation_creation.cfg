CONSTANTS
  w1 = w1
  w2 = w2
  e1 = e1
  e2 = e2
  c0 = c0
  c1 = c1
  C1 = C1
  s1 = s1
  p0 = p0
  p1 = p1
  Workers = {w1, w2}
  Editors = {e1, e2}
  Folders = {c0, c1, C1, s1}
  Products = {p0, p1}
  Root = Root
  ParentOf <- Tree
  Fold <- CaseFolded
  InitialFolders = {c0}
  InitialProducts = {}
  MaxRequests = 3
  MaxFaults = 2
  None = None
SPECIFICATION Spec
CHECK_DEADLOCK FALSE
INVARIANTS
  TypeOK
  
  NoAliases
  HierarchyExists
  CreatedIsOffered
  FailureLeavesNothing
  SavedIsReadable
PROPERTIES
  LockIsReleased
