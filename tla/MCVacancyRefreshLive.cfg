SPECIFICATION FairSpec
CONSTANTS
  o1 = o1  o2 = o2
  j1 = j1  j2 = j2
  c1 = c1  c2 = c2
  Jobs = {j1}
  Contents = {c1, c2}
  Stamps = {t1}
  Procs = {p1, p2}
  Ops = {o1, o2}
  Requests <- OneVacancy
  MaxCrashes = 1
  NoRaw = NoRaw
  NoRow = NoRow
  NoRequest = NoRequest
  NoReceipt = NoReceipt
INVARIANTS
  RefreshInv
PROPERTIES
  EveryOperationSettles
  CommittedIsAnswered
  CacheConverges
