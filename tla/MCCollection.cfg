SPECIFICATION CollectionSpec
CONSTANTS
  b1 = b1
  j1 = j1
  o1 = o1  o2 = o2
  c1 = c1  c2 = c2
  Jobs = {j1}
  Boards = {b1}
  Board <- OneBoard
  Contents = {c1, c2}
  Stamps = {t1}
  Collectors = {a, b}
  MaxKills = 1
  Procs = {p1, p2}
  Ops = {o1, o2}
  Requests <- TwoOperations
  MaxCrashes = 0
  NoRaw = NoRaw
  NoJob = NoJob
  NoRow = NoRow
  NoRequest = NoRequest
  NoReceipt = NoReceipt
CONSTRAINT OneOverlap
SYMMETRY Symmetry
PROPERTIES
  RefreshedStaysRefreshed
  ImplementsSharedLedger
