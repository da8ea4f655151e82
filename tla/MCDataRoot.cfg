SPECIFICATION FairRootSpec
CONSTANTS
  b1 = b1  b2 = b2
  j1 = j1  j2 = j2
  o1 = o1  o2 = o2  c1 = c1
  Jobs = {j1, j2}
  Boards = {b1, b2}
  Board <- TwoBoards
  Contents = {c1, c2}
  Stamps = {t1}
  Collectors = {a}
  MaxKills = 1
  Openers = {a, b}
  Ops = {o1, o2}
  Journals <- OneLeft
  MaxDeaths = 1
  NoRaw = NoRaw
  NoJob = NoJob
  NoEntry = NoEntry
  NoOp = NoOp
CONSTRAINT MigrateOrCollect
INVARIANTS
  RootTypeOK
  CacheAgreesWithRow
  OpenedStaysValid
  InFlightIsNotRefetched
  EarlierResultsAreFound
PROPERTIES
  DiscoveredIsFetched
