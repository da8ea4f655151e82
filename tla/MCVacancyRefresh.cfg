SPECIFICATION RequestedSpec
CONSTANTS
  o1 = o1  o2 = o2
  j1 = j1  j2 = j2
  c1 = c1  c2 = c2
  Jobs = {j1, j2}
  Contents = {c1, c2}
  Stamps = {t1, t2}
  Procs = {p1, p2}
  Ops = {o1, o2}
  Requests <- OneVacancyReused
  MaxCrashes = 2
  NoRaw = NoRaw
  NoRow = NoRow
  NoRequest = NoRequest
  NoReceipt = NoReceipt
SYMMETRY Symmetry
INVARIANTS
  OfficialFetchCount
  OneActiveRefresh
  ResponsesAreDurable
  CacheIsRepairable
  RowsHoldOwnResponse
PROPERTIES
  ImplementsLedger
