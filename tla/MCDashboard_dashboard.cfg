CONSTANTS
  f1 = f1
  f2 = f2
  p1 = p1
  p2 = p2
  p3 = p3
  steel = steel
  usd = usd
  pool1 = pool1
  cat = cat
  Factories = {f1, f2}
  Plant = f1
  Products = {p1, p2, p3}
  Materials = {steel, usd}
  Pools = {pool1}
  CategoryOf <- OneCategory
  BomOf <- Boms
  CurrencyOf <- PricedIn
  NameOf <- Names
  InitialCells <- AtFirst
  InitiallyMade = {p1, p2}
  Changes <- Edited
  Directories <- Accesses
  Combinations <- Together
  Entries <- Entered
  MaxEdits = 1
  MaxClicks = 5
  MaxFlights = 2
  Rial = Rial
  Blank = Blank
  None = None
  NoFactory = NoFactory
  All = All
  Lost = Lost
SPECIFICATION Spec
CHECK_DEADLOCK FALSE
INVARIANTS
  ShownIsCurrent
  DraftsAreOffered
  ScenarioIsAnEdit
  
  RefusalClears
  NoSilentSelection
