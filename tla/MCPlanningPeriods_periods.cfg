CONSTANTS
  w1 = w1
  w2 = w2
  f1 = f1
  f2 = f2
  second = second
  Workers = {w1, w2}
  Factories = {f1, f2}
  WithData = {f1}
  Periods = {Initial, second}
  Initial = Initial
  AnyPeriod = AnyPeriod
  InitialFiles <- AnyFile
  MaxProducts = 2
  MaxRequests = 4
  Missing = Missing
  None = None
SPECIFICATION Spec
SYMMETRY Symmetry
CHECK_DEADLOCK FALSE
INVARIANTS
  OneActive
  OnePerPeriod
  AnswersAreCurrent
