SPECIFICATION FairSpec
CONSTANTS
  g1 = g1
  x = x
  Jobs = {1, 2}
  MaxVersion = 1
  Readings = {x}
  Axes = {a1}
  Configs = {g1}
  Included <- Everything
  Workers = {w1, w2}
  ShardSize = 2
  None = None
  MaxCrashes = 1
  MaxOvertakes = 0
PROPERTIES
  ReportsKeepResults
  CurrentIsProcessed
