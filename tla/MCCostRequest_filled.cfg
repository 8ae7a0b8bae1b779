CONSTANTS
  r1 = r1
  r2 = r2
  p1 = p1
  p2 = p2
  pool1 = pool1
  Requests = {r1, r2}
  Products = {p1, p2}
  Pools = {pool1}
  Category = Category
  Values = {1, 2}
  Entered = {2}
  InitialFiles <- SharesGenerated
  Order <- ReadingOrder
  Known = {p1, p2}
  Summarised = {pool1}
  Conflicting = {}
  InitialLegacy = {"weights", "predictions"}
  MaxSaves = 1
  MaxRequests = 2
  Rial = Rial
  Blank = Blank
  NameOf <- OwnNames
  Absent = Absent
  Torn = Torn
  Unread = Unread
  None = None
SPECIFICATION Spec
CHECK_DEADLOCK FALSE
INVARIANT FilledIsUsable
